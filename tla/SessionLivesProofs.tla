-------------------------- MODULE SessionLivesProofs --------------------------
(***************************************************************************)
(* Every launch of SessionChain, for any number of commands and under any  *)
(* faults, is a session as SessionLife describes it.                       *)
(***************************************************************************)
EXTENDS SessionChainProofs

Ended(s) == EndsOf(s) # {}

Ending == {"merge", "classify"} \cup Over

\* What is logged as ended, by its launch or by its cell, has come that far; and
\* what is being stopped has run.
EndIsLate == \A s \in Procs : Ended(s) => pc[s] \in Ending

LimitRan == \A p \in Procs : pc[p] = "limit" => box[p] # "none"

TargetRan == \A p \in Procs : pc[p] \in {"prompt", "stop"} => box[target[p]] # "none"

Lives == EndIsLate /\ LimitRan /\ TargetRan

\* What a step of p does to containers, and to the stages around them: no step
\* both logs and moves a container.
BoxStep(p) ==
  /\ log' = log \/ box' = box
  /\ \A s \in Procs :
       \/ box'[s] = box[s]
       \/ s = p /\ pc[p] = "spawn" /\ box'[s] = "running"
       \/ box[s] = "running" /\ box'[s] = "gone"
       \/ s = target[p] /\ pc[p] = "stop" /\ box'[s] = "gone"
       \/ s = p /\ pc[p] = "limit" /\ box'[s] = "gone"
  /\ pc[p] \in Ending => pc'[p] \in Ending
  /\ pc'[p] = "limit" => pc[p] = "limit" \/ box'[p] = "running"

LEMMA BoxesMoved ==
  ASSUME Typed, NEW p \in Procs, Acts(p)
  PROVE  BoxStep(p)
<1>1. /\ Fields
      /\ cmd[p] # "run" => target[p] \in Procs
      /\ pc[p] \in Targeting => cmd[p] # "run"
  BY DEF Typed, TypeOK, Fields, Commanded, CommandedOne
<1> USE DEF Fields, Targeting, BoxStep, Ending, Over, Recorded, job, host, At, GoTo
<1>2. CASE Operator(p)
  BY <1>1, <1>2 DEF Operator, Run, Adjust, WakeUp, Approve, Deny, Begin
<1>3. CASE FindSettled(p) \/ Refuse(p) \/ Validate(p)
  BY <1>1, <1>3 DEF FindSettled, Refuse, Validate
<1>4. CASE Mark(p) \/ Audit(p) \/ Mirror(p)
  BY <1>1, <1>4 DEF Mark, Audit, Mirror, AppendOr, Fault
<1>5. CASE Unresolved(p) \/ NoChange(p) \/ Cancel(p) \/ Resolve(p) \/ Confirm(p)
  BY <1>1, <1>5 DEF Unresolved, NoChange, Cancel, Return, Fault, Resolve, Confirm
<1>6. CASE Stop(p)
  BY <1>1, <1>6 DEF Stop
<1>7. CASE StopFails(p)
  BY <1>1, <1>7 DEF StopFails, Return, Fault
<1>8. CASE Waking(p)
  BY <1>1, <1>8 DEF Waking, Find, Probe, MountMissing, Fault
<1>9. CASE TakeOffset(p) \/ LaunchFails(p) \/ LogStart(p)
  BY <1>1, <1>9 DEF TakeOffset, LaunchFails, Leave, Left, LogStart
<1>10. CASE Spawn(p) \/ SpawnFails(p)
  BY <1>1, <1>10 DEF Spawn, SpawnFails
<1>11. CASE ClientReturns(p) \/ LimitHit(p) \/ MergeEmitted(p) \/ LogEnd(p)
  BY <1>1, <1>11 DEF ClientReturns, LimitHit, MergeEmitted, LogEnd, Left
<1>12. CASE LimitStops(p)
  BY <1>1, <1>12 DEF LimitStops, Fault
<1>13. CASE Classify(p)
  BY <1>1, <1>13 DEF Classify, Forget, Return, Fault
<1>14. CASE Cell(p)
  BY <1>1, <1>14 DEF Cell, Submit, Forge, BoxExits
<1>15. CASE LaunchRaises(p) \/ Crash(p)
  BY <1>1, <1>15 DEF LaunchRaises, Crash, Left, Fault
<1> QED BY <1>2, <1>3, <1>4, <1>5, <1>6, <1>7, <1>8, <1>9, <1>10, <1>11, <1>12, <1>13, <1>14,
           <1>15
        DEF Acts, Work, Request, Adjusting, Launching

\* A session is logged as ended when its records are completed.
LEMMA EndsKept ==
  ASSUME Typed, NEW p \in Procs, Acts(p), NEW s \in Procs
  PROVE  /\ Ended(s) => Ended(s)'
         /\ Ended(s)' => Ended(s) \/ (s = p /\ pc[p] = "merge")
<1>1. Ended(s) => Ended(s)'
  BY LogGrows DEF Ended, EndsOf
<1>2. ASSUME Ended(s)', ~ Ended(s) PROVE s = p /\ pc[p] = "merge"
  <2>1. PICK i \in DOMAIN log' : log'[i].event \in {"end", "end_idle"} /\ log'[i].sid = s
    BY <1>2 DEF Ended, EndsOf
  <2>2. i \notin DOMAIN log
    BY <1>2, <2>1, LogGrows DEF Ended, EndsOf
  <2>3. s = p /\ (LogEnd(p) \/ MergeEmitted(p))
    BY <2>1, <2>2, LogGrows DEF NewRecord
  <2> QED BY <2>3 DEF LogEnd, MergeEmitted, At
<1> QED BY <1>1, <1>2

LEMMA EndStep ==
  ASSUME Typed, EndIsLate, NEW p \in Procs, Acts(p)
  PROVE  EndIsLate'
<1> SUFFICES ASSUME NEW s \in Procs, Ended(s)' PROVE pc'[s] \in Ending
  BY DEF EndIsLate
<1>1. CASE s = p
  BY <1>1, EndsKept, BoxesMoved DEF EndIsLate, BoxStep, Ending
<1>2. CASE s # p
  BY <1>2, EndsKept, OthersStay DEF EndIsLate, Stays
<1> QED BY <1>1, <1>2

\* A container that was started is remembered as running or gone.
LEMMA RanKept ==
  ASSUME Typed, NEW p \in Procs, Acts(p), NEW s \in Procs, box[s] # "none"
  PROVE  box'[s] # "none"
BY BoxesMoved DEF BoxStep

LEMMA RanStep ==
  ASSUME Typed, LimitRan, TargetRan, NEW p \in Procs, Acts(p)
  PROVE  LimitRan' /\ TargetRan'
<1>1. ASSUME NEW q \in Procs, pc'[q] = "limit" PROVE box'[q] # "none"
  <2>1. CASE q = p
    BY <1>1, <2>1, BoxesMoved, RanKept DEF BoxStep, LimitRan
  <2>2. CASE q # p
    BY <1>1, <2>2, OthersStay, RanKept DEF Stays, LimitRan
  <2> QED BY <2>1, <2>2
<1>2. ASSUME NEW q \in Procs, pc'[q] \in {"prompt", "stop"} PROVE box'[target'[q]] # "none"
  <2>1. /\ pc[q] \in Targeting /\ target'[q] = target[q]
        /\ box[target[q]] # "none"
    <3>1. CASE q = p
      BY <1>2, <3>1, ReplacingMoved, StagesPassed
      DEF ReplaceStep, StageStep, TargetRan, Targeting
    <3>2. CASE q # p
      BY <1>2, <3>2, OthersStay DEF Stays, TargetRan, Targeting
    <3> QED BY <3>1, <3>2
  <2> QED BY <2>1, TargetKnown, RanKept
<1> QED BY <1>1, <1>2 DEF LimitRan, TargetRan

LEMMA LivesInvariant == Spec => [](IInv /\ Lives)
<1>1. Init => Lives
  BY DEF Init, Lives, EndIsLate, Ended, EndsOf, LimitRan, TargetRan
<1>2. ASSUME IInv, Lives, [Next]_vars PROVE Lives'
  <2>1. CASE UNCHANGED vars
    BY <1>2, <2>1 DEF vars, Lives, EndIsLate, Ended, EndsOf, LimitRan, TargetRan
  <2>2. CASE Next
    <3>1. PICK p \in Procs : Acts(p)
      BY <2>2 DEF Next, Acts
    <3> QED BY <1>2, <3>1, EndStep, RanStep DEF IInv, Replaced, Lives
  <2> QED BY <1>2, <2>1, <2>2
<1> QED BY <1>1, <1>2, ChainInvariant, PTL DEF Spec

-----------------------------------------------------------------------------
(* SessionLife *)

\* For each session a step appends one of its two records, or starts or ends its
\* container, or does neither.
LifeStep(s) ==
  \/ UNCHANGED << RecordOf(s), box[s] >>
  \/ RecordOf(s) = "none" /\ RecordOf(s)' = "started" /\ box'[s] = box[s]
  \/ /\ RecordOf(s) = "started" /\ RecordOf(s)' = "ended" /\ box'[s] = box[s]
     /\ "stop" \in struck \/ box[s] # "running"
  \/ /\ box[s] = "none" /\ box'[s] = "running" /\ RecordOf(s)' = RecordOf(s)
     /\ RecordOf(s) = "started"
  \/ box[s] = "running" /\ box'[s] = "gone" /\ RecordOf(s)' = RecordOf(s)

LEMMA RecordIs ==
  ASSUME NEW s \in Procs
  PROVE  RecordOf(s) = IF Ended(s) THEN "ended" ELSE IF Started(s) THEN "started" ELSE "none"
BY DEF RecordOf, Ended

LEMMA NextIsLifeStep ==
  ASSUME IInv, Lives, NEW p \in Procs, Acts(p), NEW s \in Procs
  PROVE  LifeStep(s)
<1>0. Typed /\ StartedWhenBegun /\ BoxesArePast /\ EndIsLate /\ MergeIsOver /\ LimitRan /\ TargetRan
  BY DEF IInv, Order, Replaced, Lives
<1>1. CASE box'[s] = box[s]
  <2>1. RecordOf(s)' = IF Ended(s)' THEN "ended" ELSE IF Started(s)' THEN "started" ELSE "none"
    BY DEF RecordOf, Ended
  <2>2. CASE s = p /\ LogStart(p)
    <3>1. ~ Started(s) /\ ~ Ended(s) /\ pc[p] # "merge"
      BY <1>0, <2>2 DEF LogStart, At, StartedWhenBegun, Early, EndIsLate, Ending, Over, Recorded
    <3> QED BY <1>0, <1>1, <2>1, <3>1, RecordIs, EndsKept DEF LifeStep
  <2>3. CASE s = p /\ pc[p] = "merge"
    <3>1. /\ Started(s)
          /\ "stop" \in struck \/ box[s] # "running"
      BY <1>0, <2>3 DEF StartedWhenBegun, Begun, MergeIsOver, Gone
    <3>2. Started(s)'
      BY <1>0, <3>1, StartsKept
    <3> QED BY <1>0, <1>1, <2>1, <3>1, <3>2, RecordIs, EndsKept DEF LifeStep
  <2>4. CASE ~ (s = p /\ (LogStart(p) \/ pc[p] = "merge"))
    BY <1>0, <1>1, <2>1, <2>4, RecordIs, StartsKept, EndsKept DEF LifeStep
  <2> QED BY <2>2, <2>3, <2>4
<1>2. CASE box'[s] # box[s]
  <2>1. BoxStep(p)
    BY <1>0, BoxesMoved
  <2>2. RecordOf(s)' = RecordOf(s)
    BY <1>2, <2>1 DEF BoxStep, RecordOf, EndsOf, Started, Logged
  <2>3. CASE s = p /\ pc[p] = "spawn" /\ box'[s] = "running"
    <3>1. Started(s) /\ ~ Ended(s) /\ box[s] = "none"
      BY <1>0, <2>3
      DEF StartedWhenBegun, Begun, EndIsLate, Ending, BoxesArePast, Past, Over, Recorded
    <3> QED BY <2>2, <2>3, <3>1, RecordIs DEF LifeStep
  <2>4. CASE box[s] # "none" /\ box'[s] = "gone"
    <3>1. box[s] = "running"
      BY <1>0, <1>2, <2>4 DEF Typed, TypeOK
    <3> QED BY <2>2, <2>4, <3>1 DEF LifeStep
  <2>5. CASE box'[s] = "gone" /\ box[s] = "none"
    BY <1>0, <2>1, <2>5 DEF BoxStep, LimitRan, TargetRan
  <2> QED BY <1>2, <2>1, <2>3, <2>4, <2>5 DEF BoxStep
<1> QED BY <1>1, <1>2

LEMMA LifeStepIsNext ==
  ASSUME NEW s \in Procs, LifeStep(s), struck \subseteq struck'
  PROVE  [Life(s)!Next]_(Life(s)!vars)
<1>1. ("stop" \in struck)' \in {"stop" \in struck, TRUE}
  <2>1. CASE "stop" \in struck'
    <3>1. ("stop" \in struck)' = TRUE
      BY <2>1
    <3> QED BY <3>1
  <2>2. CASE "stop" \notin struck'
    <3>1. ("stop" \in struck)' = FALSE /\ ("stop" \in struck) = FALSE
      BY <2>2
    <3> QED BY <3>1
  <2> QED BY <2>1, <2>2
<1> USE DEF LifeStep, Life!Next, Life!vars
<1>2. CASE UNCHANGED << RecordOf(s), box[s] >>
  BY <1>1, <1>2 DEF Life!Lose
<1>3. CASE RecordOf(s) = "none" /\ RecordOf(s)' = "started" /\ box'[s] = box[s]
  BY <1>1, <1>3 DEF Life!Start
<1>4. CASE /\ RecordOf(s) = "started" /\ RecordOf(s)' = "ended" /\ box'[s] = box[s]
           /\ "stop" \in struck \/ box[s] # "running"
  BY <1>1, <1>4 DEF Life!End
<1>5. CASE /\ box[s] = "none" /\ box'[s] = "running" /\ RecordOf(s)' = RecordOf(s)
           /\ RecordOf(s) = "started"
  BY <1>1, <1>5 DEF Life!Run
<1>6. CASE box[s] = "running" /\ box'[s] = "gone" /\ RecordOf(s)' = RecordOf(s)
  BY <1>1, <1>6 DEF Life!Exit
<1> QED BY <1>2, <1>3, <1>4, <1>5, <1>6

LEMMA NextIsLife ==
  ASSUME IInv, Lives, Next, NEW s \in Procs
  PROVE  [Life(s)!Next]_(Life(s)!vars)
<1>1. PICK p \in Procs : Acts(p)
  BY DEF Next, Acts
<1>2. struck \subseteq struck'
  BY <1>1, ReplacingMoved DEF IInv, ReplaceStep
<1> QED BY <1>1, <1>2, NextIsLifeStep, LifeStepIsNext

\* Whatever other commands stop, wake or approve beside it, and wherever its whiz
\* dies, a launch is a SessionLife: the interface between the overlapping
\* commands and the monitor of one session (run_shell).
THEOREM LaunchesLive == Spec => LaunchesAreLives
<1>1. Init => \A p \in Procs : Life(p)!Init
  BY DEF Init, Life!Init, RecordOf, EndsOf, Started, Logged
<1>2. IInv /\ Lives /\ [Next]_vars =>
        [\A p \in Procs : [Life(p)!Next]_(Life(p)!vars)]_vars
  BY NextIsLife
<1> QED BY <1>1, <1>2, LivesInvariant, PTL DEF Spec, LaunchesAreLives

\* Of the session of every launch, whatever other commands do beside it: once its
\* end is in the log its container is over, unless docker failed to stop it.  It
\* follows from SessionLife alone, which each launch implements (run_shell).
THEOREM EndedStayOver == Spec => []EndedAreOver
<1>1. Init => EndedAreOver
  BY DEF Init, EndedAreOver, Life!EndedIsOver
<1>2. IInv /\ Lives /\ EndedAreOver /\ [Next]_vars => EndedAreOver'
  <2>1. CASE UNCHANGED vars
    BY <2>1 DEF vars, EndedAreOver, Life!EndedIsOver, RecordOf, EndsOf, Started, Logged
  <2>2. ASSUME IInv, Lives, EndedAreOver, Next, NEW s \in Procs
        PROVE  Life(s)!EndedIsOver'
    <3>1. [Life(s)!Next]_(Life(s)!vars)
      BY <2>2, NextIsLife
    <3>2. Life(s)!EndedIsOver
      BY <2>2 DEF EndedAreOver
    <3> QED BY <3>1, <3>2 DEF Life!EndedIsOver, Life!Next, Life!vars, Life!Start, Life!Run,
            Life!Exit, Life!End, Life!Lose
  <2> QED BY <2>1, <2>2 DEF EndedAreOver
<1> QED BY <1>1, <1>2, LivesInvariant, PTL DEF Spec

=============================================================================
