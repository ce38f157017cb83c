-------------------------- MODULE SessionChainProofs --------------------------
(***************************************************************************)
(* What the runs of SessionChain show for two or three commands, proved    *)
(* for any number of them and under any faults.                            *)
(***************************************************************************)
EXTENDS SessionChain, WellFoundedInduction, TLAPS

-----------------------------------------------------------------------------
(* The types *)

\* Every command but run has the session it was given, at every stage that
\* uses it, and a request's verdict is one of the three when it is recorded.
Targeting ==
  { "request", "resolve", "prompt", "stop", "find", "probe", "relaunch", "classify",
    "mark", "audit", "mirror" }
Marking == {"mark", "audit", "mirror"}

CommandedOne(p) ==
  /\ cmd[p] # "run" => target[p] \in Procs
  /\ pc[p] \in Targeting => cmd[p] # "run"
  /\ pc[p] \in Marking => verdict[p] \in Statuses

Commanded == \A p \in Procs : CommandedOne(p)

Typed == TypeOK /\ Commanded

LEMMA LeastExists ==
  ASSUME NEW T, T \subseteq Nat, T # {}
  PROVE  \E x \in T : \A y \in T : ~ y < x
<1> DEFINE R == OpToRel(<, Nat)
<1>1. PICK x \in T : \A y \in T : ~ (<<y, x>> \in R)
  <2>1. IsWellFoundedOn(R, Nat)
    BY NatLessThanWellFounded
  <2> HIDE DEF R
  <2> QED BY <2>1, WFMin
<1>2. \A y \in T : ~ y < x
  BY <1>1 DEF OpToRel
<1> HIDE DEF R
<1> QED BY <1>2

\* The latest of the records found exists.
LEMMA LatestExists ==
  ASSUME NEW S, NEW n \in Nat, S \subseteq 1 .. n, S # {}
  PROVE  \E i \in S : \A j \in S : j <= i
<1> DEFINE T == {n - i : i \in S}
<1>1. \A i \in S : n - i \in Nat /\ n - i \in T
  OBVIOUS
<1>2. T \subseteq Nat
  BY <1>1
<1>3. T # {}
  BY <1>1
<1>4. PICK x \in T : \A y \in T : ~ y < x
  <2> HIDE DEF T
  <2> QED BY <1>2, <1>3, LeastExists
<1>5. PICK i \in S : x = n - i
  BY <1>4
<1>6. \A j \in S : ~ (n - j < n - i)
  BY <1>1, <1>4, <1>5
<1> QED BY <1>6

Records ==
  [event : Events, sid : Procs, by : Procs \cup {NoSession}, new : Procs \cup {NoSession}]

LEMMA FoundStartType ==
  ASSUME TypeOK, NEW p \in Procs
  PROVE  /\ FoundStart(p) \in Procs \cup {NoSession}
         /\ FoundStart(p) = NoSession => StartsAfter(p) = {}
<1>1. CASE StartsAfter(p) = {}
  BY <1>1 DEF FoundStart
<1>2. CASE StartsAfter(p) # {}
  <2>1. log \in Seq(Records)
    BY DEF TypeOK, Records
  <2>2. StartsAfter(p) \subseteq 1 .. Len(log) /\ Len(log) \in Nat
    BY <2>1 DEF StartsAfter
  <2>3. \E i \in StartsAfter(p) : \A j \in StartsAfter(p) : j <= i
    BY <1>2, <2>2, LatestExists
  <2> DEFINE k == CHOOSE i \in StartsAfter(p) : \A j \in StartsAfter(p) : j <= i
  <2>4. k \in StartsAfter(p)
    BY <2>3
  <2>5. log[k].sid \in Procs
    <3>1. log[k] \in Records
      BY <2>1, <2>2, <2>4
    <3> QED BY <3>1 DEF Records
  <2>6. FoundStart(p) = log[k].sid
    BY <1>2 DEF FoundStart
  <2> QED BY <2>5, <2>6, ChainConstants
<1> QED BY <1>1, <1>2

LEMMA RecordTyped ==
  ASSUME NEW event \in Events, NEW sid \in Procs, NEW by \in Procs \cup {NoSession},
         NEW new \in Procs \cup {NoSession}
  PROVE  Record(event, sid, by, new) \in Records
BY DEF Record, Records

LEMMA EventsKnown ==
  /\ {"start", "adjusted", "adjust_failed", "woken", "wake_failed", "resolved"} \subseteq Events
  /\ \A r \in Ends : EndEvent[r] \in Events /\ EndEvent[r] \in {"end", "end_idle"}
  /\ EndEvent["idle"] = "end_idle"
BY DEF Events, EndEvent, Ends

LEMMA InitTyped == Init => Typed
<1> SUFFICES ASSUME Init PROVE Typed
  OBVIOUS
<1> USE DEF Init
<1>1. log \in Seq(Records)
  OBVIOUS
<1>2. TypeOK
  BY <1>1 DEF TypeOK, Stages, Commands, Exits, Ends, Records
<1>3. Commanded
  BY DEF Commanded, CommandedOne, Targeting, Marking
<1> QED BY <1>2, <1>3 DEF Typed

Acts(p) == Operator(p) \/ Work(p) \/ Cell(p) \/ LaunchRaises(p) \/ Crash(p)

\* Whoever acts, the state of every other command stays.
Stays(q) ==
  /\ pc'[q] = pc[q] /\ cmd'[q] = cmd[q] /\ target'[q] = target[q]
  /\ offset'[q] = offset[q] /\ raised'[q] = raised[q] /\ reason'[q] = reason[q]
  /\ verdict'[q] = verdict[q]

LEMMA OthersStay ==
  ASSUME Typed, NEW p \in Procs, NEW q \in Procs \ {p}, Acts(p)
  PROVE  Stays(q)
<1> USE DEF Typed, TypeOK, Stays, job, GoTo
<1>1. CASE Operator(p)
  BY <1>1 DEF Operator, Run, Adjust, WakeUp, Approve, Deny, Begin
<1>2. CASE Request(p)
  BY <1>2 DEF Request, FindSettled, Refuse, Validate, Mark, Audit, Mirror, AppendOr
<1>3. CASE Adjusting(p)
  BY <1>3 DEF Adjusting, Unresolved, NoChange, Cancel, Return, Resolve, Confirm, Stop, StopFails
<1>4. CASE Waking(p)
  BY <1>4 DEF Waking, Find, Probe, MountMissing
<1>5. CASE Launching(p)
  BY <1>5 DEF Launching, TakeOffset, LaunchFails, Leave, LogStart, Spawn, SpawnFails, ClientReturns,
       LimitHit, LimitStops, MergeEmitted, LogEnd, Classify, Forget, Return
<1>6. CASE Cell(p) \/ LaunchRaises(p) \/ Crash(p)
  BY <1>6 DEF Cell, Submit, Forge, BoxExits, LaunchRaises, Crash
<1> QED BY <1>1, <1>2, <1>3, <1>4, <1>5, <1>6 DEF Acts, Work

\* A step appends at most one record.
LogTyped == log' = log \/ \E r \in Records : log' = Append(log, r)

LEMMA LogStep ==
  ASSUME Typed, NEW p \in Procs,
         Acts(p)
  PROVE  LogTyped
<1>1. /\ reason[p] \in Ends
      /\ cmd[p] # "run" => target[p] \in Procs
      /\ pc[p] \in {"audit", "classify"} => cmd[p] # "run"
  BY DEF Typed, TypeOK, Commanded, CommandedOne, Targeting
<1>2. CASE Audit(p)
  <2>1. Record("resolved", target[p], p, NoSession) \in Records
    BY <1>1, <1>2, EventsKnown, RecordTyped DEF Audit, At
  <2> QED BY <1>2, <2>1 DEF Audit, AppendOr, LogTyped
<1>3. CASE LogStart(p)
  <2>1. Record("start", p, p, NoSession) \in Records
    BY EventsKnown, RecordTyped
  <2> QED BY <1>3, <2>1 DEF LogStart, LogTyped
<1>4. CASE LogEnd(p)
  <2>1. Record(EndEvent[reason[p]], p, p, NoSession) \in Records
    BY <1>1, EventsKnown, RecordTyped
  <2> QED BY <1>4, <2>1 DEF LogEnd, LogTyped
<1>5. CASE Classify(p)
  <2>1. Outcome(p) \in Records
    BY <1>1, <1>5, EventsKnown, RecordTyped, FoundStartType
       DEF Classify, At, Outcome, Failure, Success, Typed
  <2> QED BY <1>5, <2>1 DEF Classify, LogTyped
<1>11. CASE MergeEmitted(p)
  <2>1. PICK event \in Emitted, sid \in Procs :
          log' = Append(log, Record(event, sid, NoSession, NoSession))
    BY <1>11 DEF MergeEmitted
  <2>2. Record(event, sid, NoSession, NoSession) \in Records
    BY <2>1, RecordTyped, ChainConstants
  <2> QED BY <2>1, <2>2 DEF LogTyped
<1> USE DEF LogTyped
<1>6. CASE Operator(p)
  BY <1>6 DEF Operator, Run, Adjust, WakeUp, Approve, Deny, Begin
<1>7. CASE Request(p)
  BY <1>2, <1>7 DEF Request, FindSettled, Refuse, Validate, Mark, Mirror
<1>8. CASE Adjusting(p) \/ Waking(p)
  BY <1>8 DEF Adjusting, Unresolved, NoChange, Cancel, Resolve, Confirm, Stop, StopFails,
              Waking, Find, Probe, MountMissing
<1>9. CASE Launching(p)
  BY <1>3, <1>4, <1>5, <1>9, <1>11 DEF Launching, TakeOffset, LaunchFails, Spawn, SpawnFails,
     ClientReturns, LimitHit, LimitStops
<1>10. CASE Cell(p) \/ LaunchRaises(p) \/ Crash(p)
  BY <1>10 DEF Cell, Submit, Forge, BoxExits, LaunchRaises, Crash
<1> QED BY <1>6, <1>7, <1>8, <1>9, <1>10 DEF Acts, Work

\* What the acting command does to its own state.
LEMMA ActorStep ==
  ASSUME Typed, NEW p \in Procs,
         Acts(p)
  PROVE  CommandedOne(p)'
<1> USE DEF CommandedOne, Targeting, Marking, Statuses, job, At, GoTo
<1>1. /\ TypeOK
      /\ CommandedOne(p)
  BY DEF Typed, Commanded
<1>2. CASE Operator(p)
  BY <1>1, <1>2 DEF TypeOK, Operator, Run, Adjust, WakeUp, Approve, Deny, Begin
<1>3. CASE FindSettled(p) \/ Refuse(p) \/ Validate(p)
  BY <1>1, <1>3 DEF TypeOK, FindSettled, Refuse, Validate
<1>4. CASE Mark(p) \/ Audit(p) \/ Mirror(p)
  BY <1>1, <1>4 DEF TypeOK, Mark, Audit, Mirror, AppendOr
<1>5. CASE Unresolved(p) \/ NoChange(p) \/ Cancel(p) \/ StopFails(p)
  BY <1>1, <1>5 DEF TypeOK, Unresolved, NoChange, Cancel, StopFails, Return, Verdict
<1>6. CASE Resolve(p) \/ Confirm(p) \/ Stop(p)
  BY <1>1, <1>6 DEF TypeOK, Resolve, Confirm, Stop
<1>7. CASE Waking(p)
  BY <1>1, <1>7 DEF TypeOK, Waking, Find, Probe, MountMissing
<1>8. CASE TakeOffset(p) \/ LaunchFails(p) \/ LogStart(p) \/ Spawn(p) \/ SpawnFails(p)
  BY <1>1, <1>8 DEF TypeOK, TakeOffset, LaunchFails, Leave, Left, LogStart, Spawn, SpawnFails
<1>9. CASE ClientReturns(p) \/ LimitHit(p) \/ LimitStops(p) \/ MergeEmitted(p) \/ LogEnd(p)
  BY <1>1, <1>9 DEF TypeOK, ClientReturns, LimitHit, LimitStops, MergeEmitted, LogEnd, Left
<1>10. CASE Classify(p)
  BY <1>1, <1>10 DEF TypeOK, Classify, Forget, Return, Verdict
<1>11. CASE Cell(p)
  BY <1>1, <1>11 DEF TypeOK, Cell, Submit, Forge, BoxExits
<1>12. CASE LaunchRaises(p) \/ Crash(p)
  BY <1>1, <1>12 DEF TypeOK, LaunchRaises, Crash, Left
<1> QED BY <1>2, <1>3, <1>4, <1>5, <1>6, <1>7, <1>8, <1>9, <1>10, <1>11, <1>12
        DEF Acts, Work, Request, Adjusting, Launching

\* All of TypeOK but the log.
Fields ==
  /\ pc \in [Procs -> Stages]
  /\ cmd \in [Procs -> Commands]
  /\ target \in [Procs -> Procs \cup {NoSession}]
  /\ offset \in [Procs -> Nat]
  /\ code \in [Procs -> Exits]
  /\ raised \in [Procs -> BOOLEAN]
  /\ reason \in [Procs -> Ends]
  /\ verdict \in [Procs -> Statuses \cup {"none", "settled"}]
  /\ box \in [Procs -> {"none", "running", "gone"}]
  /\ store \in [Procs -> Statuses \cup {"none"}]
  /\ file \in [Procs -> Statuses \cup {"absent", "pending", "forged"}]
  /\ struck \subseteq Faults

LEMMA StageTyped ==
  ASSUME Typed, NEW p \in Procs, Acts(p)
  PROVE  pc' \in [Procs -> Stages]
<1>1. pc \in [Procs -> Stages]
  BY DEF Typed, TypeOK
<1>2. SUFFICES pc' = pc \/ \E stage \in Stages : GoTo(p, stage)
  BY <1>1, <1>2 DEF GoTo
<1> USE DEF Stages
<1>3. CASE Operator(p)
  BY <1>3 DEF Operator, Run, Adjust, WakeUp, Approve, Deny, Begin
<1>4. CASE Request(p)
  BY <1>4 DEF Request, FindSettled, Refuse, Validate, Mark, Audit, Mirror, AppendOr
<1>5. CASE Adjusting(p)
  BY <1>5 DEF Adjusting, Unresolved, NoChange, Cancel, Return, Resolve, Confirm, Stop, StopFails
<1>6. CASE Waking(p)
  BY <1>6 DEF Waking, Find, Probe, MountMissing
<1>7. CASE Launching(p)
  BY <1>7 DEF Launching, TakeOffset, LaunchFails, Leave, Left, LogStart, Spawn, SpawnFails,
       ClientReturns, LimitHit, LimitStops, MergeEmitted, LogEnd, Classify, Return
<1>8. CASE Cell(p) \/ LaunchRaises(p) \/ Crash(p)
  BY <1>8 DEF Cell, Submit, Forge, BoxExits, LaunchRaises, Left, Crash
<1> QED BY <1>3, <1>4, <1>5, <1>6, <1>7, <1>8 DEF Acts, Work

LEMMA VerdictTyped ==
  ASSUME Typed, NEW p \in Procs, Acts(p)
  PROVE  verdict' \in [Procs -> Statuses \cup {"none", "settled"}]
<1>1. verdict \in [Procs -> Statuses \cup {"none", "settled"}]
  BY DEF Typed, TypeOK
<1>2. \A c : Verdict(c) \in Statuses
  BY DEF Verdict, Statuses
<1>3. "denied" \in Statuses
  BY DEF Statuses
<1>4. SUFFICES \/ verdict' = verdict
               \/ \E v \in Statuses \cup {"settled"} : verdict' = [verdict EXCEPT ![p] = v]
  BY <1>1, <1>4
<1> USE DEF job
<1>5. CASE Operator(p)
  BY <1>5 DEF Operator, Run, Adjust, WakeUp, Approve, Deny, Begin
<1>6. CASE Request(p)
  BY <1>3, <1>6 DEF Request, FindSettled, Refuse, Validate, Mark, Audit, Mirror
<1>7. CASE Adjusting(p)
  BY <1>2, <1>7 DEF Adjusting, Unresolved, NoChange, Cancel, Return, Resolve, Confirm, Stop,
       StopFails
<1>8. CASE Waking(p)
  BY <1>8 DEF Waking, Find, Probe, MountMissing
<1>9. CASE Launching(p)
  BY <1>2, <1>9 DEF Launching, TakeOffset, LaunchFails, LogStart, Spawn, SpawnFails,
       ClientReturns, LimitHit, LimitStops, MergeEmitted, LogEnd, Classify, Return
<1>10. CASE Cell(p) \/ LaunchRaises(p) \/ Crash(p)
  BY <1>10 DEF Cell, Submit, Forge, BoxExits, LaunchRaises, Crash
<1> QED BY <1>5, <1>6, <1>7, <1>8, <1>9, <1>10 DEF Acts, Work

LEMMA FieldsStep ==
  ASSUME Typed, NEW p \in Procs, Acts(p)
  PROVE  Fields'
<1>1. /\ Fields
      /\ log \in Seq(Records)
      /\ pc[p] \in Marking => verdict[p] \in Statuses
  BY DEF Typed, TypeOK, Fields, Records, Commanded, CommandedOne
<1>2. /\ pc' \in [Procs -> Stages]
      /\ verdict' \in [Procs -> Statuses \cup {"none", "settled"}]
  BY StageTyped, VerdictTyped
<1> USE DEF Fields, job, host
<1>3. CASE Operator(p)
  <2>1. CASE Run(p)
    BY <1>1, <1>2, <2>1 DEF Run
  <2>2. ASSUME NEW t \in Procs, NEW command \in Commands, NEW stage,
               Begin(p, t, command, stage)
        PROVE  Fields'
    BY <1>1, <1>2, <2>2 DEF Begin
  <2>3. {"adjust", "wake", "approve", "deny"} \subseteq Commands
    BY DEF Commands
  <2> QED BY <1>3, <2>1, <2>2, <2>3 DEF Operator, Adjust, WakeUp, Approve, Deny
<1>4. CASE FindSettled(p) \/ Refuse(p) \/ Validate(p)
  BY <1>1, <1>2, <1>4 DEF FindSettled, Refuse, Validate
<1>5. CASE Mark(p)
  BY <1>1, <1>2, <1>5 DEF Mark, At, Marking, Fault
<1>6. CASE Audit(p)
  BY <1>1, <1>2, <1>6 DEF Audit, AppendOr, Fault
<1>7. CASE Mirror(p)
  BY <1>1, <1>2, <1>7 DEF Mirror, At, Marking
<1>8. CASE Unresolved(p) \/ NoChange(p) \/ Cancel(p)
  BY <1>1, <1>2, <1>8 DEF Unresolved, NoChange, Cancel, Fault
<1>9. CASE Resolve(p) \/ Confirm(p) \/ Stop(p)
  BY <1>1, <1>2, <1>9 DEF Resolve, Confirm, Stop
<1>10. CASE StopFails(p)
  <2>1. box' \in [Procs -> {"none", "running", "gone"}]
    BY <1>1, <1>10 DEF StopFails
  <2> QED BY <1>1, <1>2, <1>10, <2>1 DEF StopFails, Fault
<1>11. CASE Waking(p)
  BY <1>1, <1>2, <1>11 DEF Waking, Find, Probe, MountMissing, Fault
<1>12. CASE TakeOffset(p)
  BY <1>1, <1>2, <1>12 DEF TakeOffset
<1>13. CASE LaunchFails(p) \/ LogStart(p)
  BY <1>1, <1>2, <1>13 DEF LaunchFails, Leave, LogStart, Exits
<1>14. CASE Spawn(p) \/ SpawnFails(p)
  BY <1>1, <1>2, <1>14 DEF Spawn, SpawnFails, Exits
<1>15. CASE ClientReturns(p)
  BY <1>1, <1>2, <1>15 DEF ClientReturns
<1>16. CASE LimitHit(p)
  BY <1>1, <1>2, <1>16 DEF LimitHit
<1>17. CASE LimitStops(p)
  <2>1. box' \in [Procs -> {"none", "running", "gone"}]
    BY <1>1, <1>17 DEF LimitStops
  <2> QED BY <1>1, <1>2, <1>17, <2>1 DEF LimitStops, Fault, Exits
<1>18. CASE LogEnd(p)
  BY <1>1, <1>2, <1>18 DEF LogEnd, Ends
<1>23. CASE MergeEmitted(p)
  BY <1>1, <1>2, <1>23 DEF MergeEmitted
<1>19. CASE Classify(p)
  BY <1>1, <1>2, <1>19 DEF Classify, Forget, Fault, Exits
<1>20. CASE Cell(p)
  BY <1>1, <1>2, <1>20 DEF Cell, Submit, Forge, BoxExits
<1>21. CASE LaunchRaises(p)
  BY <1>1, <1>2, <1>21 DEF LaunchRaises, Fault
<1>22. CASE Crash(p)
  BY <1>1, <1>2, <1>22 DEF Crash, Fault
<1> QED BY <1>3, <1>4, <1>5, <1>6, <1>7, <1>8, <1>9, <1>10, <1>11, <1>12, <1>13, <1>14,
           <1>15, <1>16, <1>17, <1>18, <1>19, <1>20, <1>21, <1>22, <1>23
        DEF Acts, Work, Request, Adjusting, Launching

LEMMA NextTyped ==
  ASSUME Typed, NEW p \in Procs,
         Acts(p)
  PROVE  Typed'
<1>1. log' \in Seq(Records)
  <2>1. log \in Seq(Records)
    BY DEF Typed, TypeOK, Records
  <2> QED BY <2>1, LogStep DEF LogTyped
<1>2. TypeOK'
  BY <1>1, FieldsStep DEF Fields, TypeOK, Records
<1>3. \A q \in Procs \ {p} : CommandedOne(q)'
  BY OthersStay DEF Typed, Commanded, CommandedOne, Stays
<1>4. Commanded'
  BY <1>3, ActorStep DEF Commanded
<1> QED BY <1>2, <1>4 DEF Typed

-----------------------------------------------------------------------------
(* What a step does, to whichever part of the state the invariants are about *)

Early ==
  { "ready", "request", "resolve", "prompt", "stop", "find", "probe", "relaunch", "launch" }
Begun == {"spawn", "attached", "limit", "merge"}
Recorded == {"audit", "mirror", "done", "dead"}
Over == {"mark"} \cup Recorded
Past == (Begun \ {"spawn"}) \cup {"classify"} \cup Over

Failures == {"adjust_failed", "wake_failed"}

\* Stages are passed in one direction.
StageStep(p) ==
  /\ pc'[p] \in Early => pc[p] \in Early /\ ~ LogStart(p)
  /\ pc'[p] \in Begun => pc[p] \in Begun \/ LogStart(p)
  /\ pc[p] \in Past => pc'[p] \in Past
  /\ pc[p] \in Over => pc'[p] \in Over
  /\ pc[p] \in Recorded => pc'[p] \in Recorded /\ verdict'[p] = verdict[p]
  /\ pc[p] # "ready" => cmd'[p] = cmd[p] /\ target'[p] = target[p]
  /\ pc'[p] \in Begun \cup {"classify"} => pc[p] # "ready" /\ offset'[p] = offset[p]
  /\ pc'[p] = "classify" => pc[p] \in Begun \cup {"launch", "classify"}
  /\ raised[p] => raised'[p]

LEMMA StagesPassed ==
  ASSUME Typed, NEW p \in Procs, Acts(p)
  PROVE  StageStep(p)
<1>1. Fields
  BY DEF Typed, TypeOK, Fields
<1> USE DEF Fields, Early, Begun, Recorded, Over, Past, StageStep, job, At, GoTo
<1>2. CASE Operator(p)
  BY <1>1, <1>2 DEF Operator, Run, Adjust, WakeUp, Approve, Deny, Begin, LogStart
<1>3. CASE FindSettled(p) \/ Refuse(p) \/ Validate(p)
  BY <1>1, <1>3 DEF FindSettled, Refuse, Validate, LogStart
<1>4. CASE Mark(p) \/ Audit(p) \/ Mirror(p)
  BY <1>1, <1>4 DEF Mark, Audit, Mirror, AppendOr, LogStart
<1>5. CASE Unresolved(p) \/ NoChange(p) \/ Cancel(p) \/ StopFails(p)
  BY <1>1, <1>5 DEF Unresolved, NoChange, Cancel, StopFails, Return, LogStart
<1>6. CASE Resolve(p) \/ Confirm(p) \/ Stop(p)
  BY <1>1, <1>6 DEF Resolve, Confirm, Stop, LogStart
<1>7. CASE Waking(p)
  BY <1>1, <1>7 DEF Waking, Find, Probe, MountMissing, LogStart
<1>8. CASE TakeOffset(p) \/ LaunchFails(p) \/ LogStart(p) \/ Spawn(p) \/ SpawnFails(p)
  BY <1>1, <1>8 DEF TakeOffset, LaunchFails, Leave, Left, LogStart, Spawn, SpawnFails
<1>9. CASE ClientReturns(p) \/ LimitHit(p) \/ LimitStops(p) \/ MergeEmitted(p) \/ LogEnd(p)
  BY <1>1, <1>9 DEF ClientReturns, LimitHit, LimitStops, MergeEmitted, LogEnd, Left, LogStart
<1>10. CASE Classify(p)
  BY <1>1, <1>10 DEF Classify, Forget, Return, LogStart
<1>11. CASE Cell(p)
  BY <1>1, <1>11 DEF Cell, Submit, Forge, BoxExits, LogStart
<1>12. CASE LaunchRaises(p) \/ Crash(p)
  BY <1>1, <1>12 DEF LaunchRaises, Crash, Left, LogStart
<1> QED BY <1>2, <1>3, <1>4, <1>5, <1>6, <1>7, <1>8, <1>9, <1>10, <1>11, <1>12
        DEF Acts, Work, Request, Adjusting, Launching

\* The record a step appends is the actor's own, and of an event at its stage, or
\* one its cell has emitted, which but for woken is of the cell's own session.
NewRecord(p, r) ==
  /\ r.by \in {p, NoSession}
  /\ r.by = NoSession => MergeEmitted(p) /\ (r.event # "woken" => r.sid = p)
  /\ r.by = p =>
       /\ r.event = "start" => LogStart(p) /\ r.sid = p
       /\ r.event \in Failures => Classify(p) /\ (raised[p] \/ StartsAfter(p) = {})
       /\ r.event \in Outcomes => Classify(p) /\ r = Outcome(p)
       /\ r.event \in {"end", "end_idle"} => LogEnd(p) /\ r.sid = p

LEMMA LogAppends ==
  ASSUME Typed, NEW p \in Procs, Acts(p)
  PROVE  log' = log \/ \E r : log' = Append(log, r) /\ NewRecord(p, r)
<1> USE ChainConstants
<1>1. CASE Audit(p)
  BY <1>1 DEF Audit, AppendOr, NewRecord, Record, Failures, Outcomes
<1>2. CASE LogStart(p)
  BY <1>2 DEF LogStart, NewRecord, Record, Failures, Outcomes
<1>3. CASE LogEnd(p)
  <2>1. reason[p] \in Ends
    BY DEF Typed, TypeOK
  <2>2. NewRecord(p, Record(EndEvent[reason[p]], p, p, NoSession))
    BY <1>3, <2>1 DEF NewRecord, Record, EndEvent, Ends, Failures, Outcomes
  <2> QED BY <1>3, <2>2 DEF LogEnd
<1>4. CASE Classify(p)
  <2>1. FoundStart(p) = NoSession => StartsAfter(p) = {}
    BY FoundStartType DEF Typed
  <2>2. NewRecord(p, Outcome(p))
    BY <1>4, <2>1 DEF NewRecord, Record, Outcome, Success, Failure, Failures, Outcomes
  <2> QED BY <1>4, <2>2 DEF Classify
<1>10. CASE MergeEmitted(p)
  <2>1. PICK event \in Emitted, sid \in Procs :
          /\ event # "woken" => sid = p
          /\ log' = Append(log, Record(event, sid, NoSession, NoSession))
    BY <1>10 DEF MergeEmitted
  <2>2. NewRecord(p, Record(event, sid, NoSession, NoSession))
    BY <1>10, <2>1 DEF NewRecord, Record
  <2> QED BY <2>1, <2>2
<1>5. CASE Operator(p)
  BY <1>5 DEF Operator, Run, Adjust, WakeUp, Approve, Deny, Begin
<1>6. CASE Request(p)
  BY <1>1, <1>6 DEF Request, FindSettled, Refuse, Validate, Mark, Mirror
<1>7. CASE Adjusting(p) \/ Waking(p)
  BY <1>7 DEF Adjusting, Unresolved, NoChange, Cancel, Resolve, Confirm, Stop, StopFails,
              Waking, Find, Probe, MountMissing
<1>8. CASE Launching(p)
  BY <1>2, <1>3, <1>4, <1>8, <1>10 DEF Launching, TakeOffset, LaunchFails, Spawn, SpawnFails,
     ClientReturns, LimitHit, LimitStops
<1>9. CASE Cell(p) \/ LaunchRaises(p) \/ Crash(p)
  BY <1>9 DEF Cell, Submit, Forge, BoxExits, LaunchRaises, Crash
<1> QED BY <1>5, <1>6, <1>7, <1>8, <1>9 DEF Acts, Work

\* The log only grows, by one record at most.
LEMMA LogGrows ==
  ASSUME Typed, NEW p \in Procs, Acts(p)
  PROVE  /\ Len(log) \in Nat /\ Len(log') \in Nat /\ Len(log) <= Len(log')
         /\ DOMAIN log = 1 .. Len(log) /\ DOMAIN log' = 1 .. Len(log')
         /\ \A i \in DOMAIN log : log'[i] = log[i]
         /\ \A i \in DOMAIN log' \ DOMAIN log :
              i = Len(log) + 1 /\ NewRecord(p, log'[i])
<1>1. log \in Seq(Records) /\ log' \in Seq(Records)
  BY NextTyped DEF Typed, TypeOK, Records
<1>2. CASE log' = log
  BY <1>1, <1>2
<1>3. CASE \E r : log' = Append(log, r) /\ NewRecord(p, r)
  <2>1. PICK r : log' = Append(log, r) /\ NewRecord(p, r)
    BY <1>3
  <2>2. /\ Len(log') = Len(log) + 1
        /\ \A i \in 1 .. Len(log) : log'[i] = log[i]
        /\ log'[Len(log) + 1] = r
    <3>1. r \in Records
      <4>1. log'[Len(log')] = r /\ Len(log') \in DOMAIN log'
        BY <1>1, <2>1
      <4> QED BY <1>1, <4>1
    <3> QED BY <1>1, <2>1, <3>1
  <2> QED BY <1>1, <2>1, <2>2
<1> QED BY <1>2, <1>3, LogAppends

-----------------------------------------------------------------------------
(* The records of a launch *)

\* A session is logged as started when its launch has begun, and not before; its
\* start is behind the offset its own command took; and a relaunch whose outcome
\* is recorded is over.
StartedWhenBegun ==
  /\ \A p \in Procs : pc[p] \in Early => ~ Started(p)
  /\ \A p \in Procs : pc[p] \in Begun => Started(p)

OffsetsPassed == \A p \in Procs : offset[p] <= Len(log)

StartsBehindOffset ==
  \A p \in Procs : cmd[p] # "run" /\ pc[p] \in Begun \cup {"classify"} =>
    \A i \in DOMAIN log : log[i].event = "start" /\ log[i].sid = p => i > offset[p]

OutcomeIsOver == \A p \in Procs : LoggedBy(Outcomes, p) => pc[p] \in Over

Order ==
  /\ StartedWhenBegun
  /\ RunningIsLogged
  /\ OffsetsPassed
  /\ StartsBehindOffset
  /\ OutcomeIsOver
  /\ FailureIsTrue

\* No start is lost, and a session is started by its own launch: what its cell
\* emits comes later.
LEMMA StartsKept ==
  ASSUME Typed, StartedWhenBegun, NEW p \in Procs, Acts(p), NEW s \in Procs
  PROVE  /\ Started(s) => Started(s)'
         /\ Started(s)' => Started(s) \/ (s = p /\ LogStart(p))
<1>1. Started(s) => Started(s)'
  BY LogGrows DEF Started, Logged
<1>2. ASSUME Started(s)', ~ Started(s) PROVE s = p /\ LogStart(p)
  <2>1. PICK i \in DOMAIN log' : log'[i].event = "start" /\ log'[i].sid = s
    BY <1>2 DEF Started, Logged
  <2>2. i \notin DOMAIN log
    BY <1>2, <2>1, LogGrows DEF Started, Logged
  <2>3. s = p /\ (LogStart(p) \/ MergeEmitted(p))
    BY <2>1, <2>2, LogGrows DEF NewRecord
  <2>4. ~ MergeEmitted(p)
    BY <1>2, <2>3 DEF MergeEmitted, At, StartedWhenBegun, Begun
  <2> QED BY <2>3, <2>4
<1> QED BY <1>1, <1>2

LEMMA StartedStep ==
  ASSUME Typed, StartedWhenBegun, NEW p \in Procs, Acts(p)
  PROVE  StartedWhenBegun'
<1>1. ASSUME NEW q \in Procs PROVE (pc[q] \in Early => ~ Started(q))'
  <2>1. CASE q = p
    BY <2>1, StagesPassed, StartsKept DEF StageStep, StartedWhenBegun
  <2>2. CASE q # p
    BY <2>2, OthersStay, StartsKept DEF Stays, StartedWhenBegun
  <2> QED BY <2>1, <2>2
<1>2. ASSUME NEW q \in Procs PROVE (pc[q] \in Begun => Started(q))'
  <2>1. CASE q = p
    <3>1. LogStart(p) => Started(p)'
      <4>1. log \in Seq(Records)
        BY DEF Typed, TypeOK, Records
      <4>2. Record("start", p, p, NoSession) \in Records
        BY EventsKnown, RecordTyped
      <4>3. LogStart(p) =>
              /\ Len(log) + 1 \in DOMAIN log'
              /\ log'[Len(log) + 1] = Record("start", p, p, NoSession)
        BY <4>1, <4>2 DEF LogStart
      <4> QED BY <4>3 DEF Started, Logged, Record
    <3> QED BY <2>1, <3>1, StagesPassed, StartsKept DEF StageStep, StartedWhenBegun
  <2>2. CASE q # p
    BY <2>2, OthersStay, StartsKept DEF Stays, StartedWhenBegun
  <2> QED BY <2>1, <2>2
<1> QED BY <1>1, <1>2 DEF StartedWhenBegun

\* A container runs from its spawning on.
LEMMA RunsFromSpawn ==
  ASSUME Typed, NEW p \in Procs, Acts(p), NEW s \in Procs
  PROVE  box'[s] = "running" => box[s] = "running" \/ (s = p /\ Spawn(p))
<1>1. box \in [Procs -> {"none", "running", "gone"}]
  BY DEF Typed, TypeOK
<1> USE DEF host
<1>2. CASE Operator(p)
  BY <1>2 DEF Operator, Run, Adjust, WakeUp, Approve, Deny, Begin
<1>3. CASE Request(p)
  BY <1>3 DEF Request, FindSettled, Refuse, Validate, Mark, Audit, Mirror
<1>4. CASE Adjusting(p) \/ Waking(p)
  BY <1>1, <1>4 DEF Adjusting, Unresolved, NoChange, Cancel, Resolve, Confirm, Stop, StopFails,
              Waking, Find, Probe, MountMissing
<1>5. CASE Launching(p)
  BY <1>1, <1>5 DEF Launching, TakeOffset, LaunchFails, LogStart, Spawn, SpawnFails,
     ClientReturns, LimitHit, LimitStops, MergeEmitted, LogEnd, Classify
<1>6. CASE Cell(p) \/ LaunchRaises(p) \/ Crash(p)
  BY <1>1, <1>6 DEF Cell, Submit, Forge, BoxExits, LaunchRaises, Crash
<1> QED BY <1>2, <1>3, <1>4, <1>5, <1>6 DEF Acts, Work

LEMMA RunningStep ==
  ASSUME Typed, StartedWhenBegun, RunningIsLogged, NEW p \in Procs, Acts(p)
  PROVE  RunningIsLogged'
<1> SUFFICES ASSUME NEW s \in Procs, box'[s] = "running" PROVE Started(s)'
  BY DEF RunningIsLogged
<1>1. CASE box[s] = "running"
  BY <1>1, StartsKept DEF RunningIsLogged
<1>2. CASE s = p /\ Spawn(p)
  <2>1. Started(p)
    BY <1>2 DEF Spawn, At, StartedWhenBegun, Begun
  <2> QED BY <1>2, <2>1, StartsKept
<1> QED BY <1>1, <1>2, RunsFromSpawn

LEMMA OffsetsStep ==
  ASSUME Typed, OffsetsPassed, NEW p \in Procs, Acts(p)
  PROVE  OffsetsPassed'
<1>1. offset \in [Procs -> Nat] /\ Len(log) \in Nat /\ Len(log') \in Nat /\ Len(log) <= Len(log')
  BY LogGrows DEF Typed, TypeOK
<1>2. offset'[p] \in {offset[p], 0, Len(log)}
  <2> USE <1>1 DEF job
  <2>1. CASE Operator(p)
    BY <2>1 DEF Operator, Run, Adjust, WakeUp, Approve, Deny, Begin
  <2>2. CASE Request(p)
    BY <2>2 DEF Request, FindSettled, Refuse, Validate, Mark, Audit, Mirror
  <2>3. CASE Adjusting(p) \/ Waking(p)
    BY <2>3 DEF Adjusting, Unresolved, NoChange, Cancel, Resolve, Confirm, Stop, StopFails,
                Waking, Find, Probe, MountMissing
  <2>4. CASE Launching(p)
    BY <2>4 DEF Launching, TakeOffset, LaunchFails, LogStart, Spawn, SpawnFails,
       ClientReturns, LimitHit, LimitStops, MergeEmitted, LogEnd, Classify, Forget
  <2>5. CASE Cell(p) \/ LaunchRaises(p) \/ Crash(p)
    BY <2>5 DEF Cell, Submit, Forge, BoxExits, LaunchRaises, Crash
  <2> QED BY <2>1, <2>2, <2>3, <2>4, <2>5 DEF Acts, Work
<1>3. ASSUME NEW q \in Procs PROVE offset'[q] <= Len(log')
  <2>1. offset[q] \in Nat /\ offset[q] <= Len(log)
    BY <1>1 DEF OffsetsPassed
  <2>2. offset'[q] \in {offset[q], 0, Len(log)}
    BY <1>2, OthersStay DEF Stays
  <2> QED BY <1>1, <2>1, <2>2
<1> QED BY <1>3 DEF OffsetsPassed

LEMMA BehindOffsetStep ==
  ASSUME Typed, StartedWhenBegun, OffsetsPassed, StartsBehindOffset, NEW p \in Procs, Acts(p)
  PROVE  StartsBehindOffset'
<1> SUFFICES ASSUME NEW q \in Procs, cmd'[q] # "run", pc'[q] \in Begun \cup {"classify"},
                    NEW i \in DOMAIN log', log'[i].event = "start", log'[i].sid = q
             PROVE  i > offset'[q]
  BY DEF StartsBehindOffset
<1>1. /\ offset'[q] = offset[q] /\ cmd[q] # "run"
      /\ pc[q] \in Begun \cup {"classify"} \/ ~ Started(q)
  <2>1. CASE q = p
    BY <2>1, StagesPassed DEF StageStep, StartedWhenBegun, Early, Begun, LogStart, At
  <2>2. CASE q # p
    BY <2>2, OthersStay DEF Stays
  <2> QED BY <2>1, <2>2
<1>2. CASE i \in DOMAIN log
  BY <1>1, <1>2, LogGrows DEF StartsBehindOffset, Started, Logged
<1>3. CASE i \notin DOMAIN log
  <2>1. i = Len(log) + 1 /\ Len(log) \in Nat
    BY <1>3, LogGrows
  <2>2. offset[q] \in Nat /\ offset[q] <= Len(log)
    BY DEF OffsetsPassed, Typed, TypeOK
  <2> QED BY <1>1, <2>1, <2>2
<1> QED BY <1>2, <1>3

\* A failure is recorded by the classification of its command.
LEMMA FailuresKept ==
  ASSUME Typed, NEW p \in Procs, Acts(p), NEW q \in Procs, LoggedBy(Failures, q)'
  PROVE  \/ LoggedBy(Failures, q)
         \/ q = p /\ Classify(p) /\ (raised[p] \/ StartsAfter(p) = {})
<1>1. PICK i \in DOMAIN log' : log'[i].event \in Failures /\ log'[i].by = q
  BY DEF LoggedBy
<1>2. CASE i \in DOMAIN log
  BY <1>1, <1>2, LogGrows DEF LoggedBy
<1>3. CASE i \notin DOMAIN log
  BY <1>1, <1>3, LogGrows, ChainConstants DEF NewRecord
<1> QED BY <1>2, <1>3

\* So is every outcome, and nothing logged is lost.
LEMMA OutcomesKept ==
  ASSUME Typed, NEW p \in Procs, Acts(p), NEW q \in Procs, LoggedBy(Outcomes, q)'
  PROVE  LoggedBy(Outcomes, q) \/ (q = p /\ Classify(p))
<1>1. PICK i \in DOMAIN log' : log'[i].event \in Outcomes /\ log'[i].by = q
  BY DEF LoggedBy
<1>2. CASE i \in DOMAIN log
  BY <1>1, <1>2, LogGrows DEF LoggedBy
<1>3. CASE i \notin DOMAIN log
  BY <1>1, <1>3, LogGrows, ChainConstants DEF NewRecord
<1> QED BY <1>2, <1>3

LEMMA OutcomeIsOverStep ==
  ASSUME Typed, OutcomeIsOver, NEW p \in Procs, Acts(p)
  PROVE  OutcomeIsOver'
<1> SUFFICES ASSUME NEW q \in Procs, LoggedBy(Outcomes, q)' PROVE pc'[q] \in Over
  BY DEF OutcomeIsOver
<1>1. CASE LoggedBy(Outcomes, q)
  <2>1. pc[q] \in Over
    BY <1>1 DEF OutcomeIsOver
  <2>2. CASE q = p
    BY <2>1, <2>2, StagesPassed DEF StageStep
  <2>3. CASE q # p
    BY <2>1, <2>3, OthersStay DEF Stays
  <2> QED BY <2>2, <2>3
<1>2. CASE q = p /\ Classify(p)
  <2>1. pc \in [Procs -> Stages]
    BY DEF Typed, TypeOK
  <2> QED BY <1>2, <2>1 DEF Classify, Return, GoTo, Over, Recorded
<1> QED BY <1>1, <1>2, OutcomesKept

LEMMA FailureIsTrueStep ==
  ASSUME Typed, Order, NEW p \in Procs, Acts(p)
  PROVE  FailureIsTrue'
<1> SUFFICES ASSUME NEW q \in Procs, LoggedBy(Failures, q)', ~ raised'[q]
             PROVE  ~ Started(q)'
  BY DEF FailureIsTrue, Failures
<1>1. ~ raised[q]
  <2>1. CASE q = p
    <3>1. StageStep(p)
      BY StagesPassed
    <3> QED BY <2>1, <3>1 DEF StageStep
  <2>2. CASE q # p
    <3>1. Stays(q)
      BY <2>2, OthersStay
    <3> QED BY <3>1 DEF Stays
  <2> QED BY <2>1, <2>2
<1>2. CASE LoggedBy(Failures, q)
  <2>1. ~ Started(q) /\ pc[q] \in Over
    <3>1. LoggedBy(Outcomes, q)
      BY <1>2 DEF LoggedBy, Failures, Outcomes
    <3> QED BY <1>1, <1>2, <3>1 DEF Order, FailureIsTrue, OutcomeIsOver, Failures
  <2>2. ~ (q = p /\ LogStart(p))
    BY <2>1 DEF LogStart, At, Over, Recorded
  <2> QED BY <2>1, <2>2, StartsKept DEF Order
<1>3. CASE q = p /\ Classify(p) /\ StartsAfter(p) = {}
  <2>1. cmd[p] # "run" /\ pc[p] = "classify"
    BY <1>3 DEF Typed, Commanded, CommandedOne, Targeting, Classify, At
  <2>2. ~ Started(p)
    BY <1>3, <2>1 DEF Order, StartsBehindOffset, Started, Logged, StartsAfter
  <2>3. ~ LogStart(p)
    BY <2>1 DEF LogStart, At
  <2> QED BY <1>3, <2>2, <2>3, StartsKept DEF Order
<1> QED BY <1>1, <1>2, <1>3, FailuresKept

LEMMA OrderStep ==
  ASSUME Typed, Order, NEW p \in Procs, Acts(p)
  PROVE  Order'
BY StartedStep, RunningStep, OffsetsStep, BehindOffsetStep, OutcomeIsOverStep, FailureIsTrueStep
   DEF Order

-----------------------------------------------------------------------------
(* Requests *)

\* A command that gave the request of s its status.
Settles(q, s) == target[q] = s /\ verdict[q] \in Statuses /\ pc[q] \in Recorded

\* Whose request has a status in the host's store was given it by a command, by
\* another one than that which is turned away; and a refusal is in the log
\* before the cell's copy is written.
StoreIsSettled == \A s \in Procs : store[s] # "none" => \E q \in Procs : Settles(q, s)

TurnedAwayByOther ==
  \A p \in Procs : verdict[p] = "settled" =>
    pc[p] = "done" /\ \E q \in Procs \ {p} : Settles(q, target[p])

Refusals == {"denied", "error"}

MirrorIsAudited ==
  \A p \in Procs :
    pc[p] = "mirror" /\ verdict[p] \in Refusals => LoggedByHost("resolved", target[p])

Settled == StoreIsSettled /\ TurnedAwayByOther /\ MirrorIsAudited /\ RefusalsAreAudited

LEMMA SettlesKept ==
  ASSUME Typed, NEW p \in Procs, Acts(p), NEW q \in Procs, NEW s, Settles(q, s)
  PROVE  Settles(q, s)'
<1>1. CASE q = p
  <2>1. StageStep(p)
    BY StagesPassed
  <2> QED BY <1>1, <2>1 DEF StageStep, Settles, Recorded
<1>2. CASE q # p
  BY <1>2, OthersStay DEF Settles, Stays
<1> QED BY <1>1, <1>2

LEMMA ResolvedKept ==
  ASSUME Typed, NEW p \in Procs, Acts(p), NEW s, LoggedByHost("resolved", s)
  PROVE  LoggedByHost("resolved", s)'
BY LogGrows DEF LoggedByHost

\* The store is written by Mark, the cell's file by Mirror and by the cell; a
\* verdict is "settled" when the status is found, and a refusal comes to
\* Mirror by Audit.
RequestStep(p) ==
  /\ \/ store' = store
     \/ /\ Mark(p)
        /\ store' = [store EXCEPT ![target[p]] = verdict[p]]
        /\ pc'[p] \in {"audit", "mirror"}
  /\ \A s \in Procs : file'[s] \in Refusals =>
       file[s] \in Refusals \/ (Mirror(p) /\ s = target[p] /\ verdict[p] \in Refusals)
  /\ verdict'[p] = "settled" => (verdict[p] = "settled" /\ Cell(p)) \/ FindSettled(p)
  /\ (pc'[p] = "mirror" /\ verdict'[p] \in Refusals) => (Audit(p) \/ (pc[p] = "mirror" /\ Cell(p)))

LEMMA RequestsMoved ==
  ASSUME Typed, TurnedAwayByOther, NEW p \in Procs, Acts(p)
  PROVE  RequestStep(p)
<1>1. /\ Fields
      /\ pc[p] \in Marking => verdict[p] \in Statuses
      /\ verdict[p] = "settled" => pc[p] = "done"
  BY DEF Typed, TypeOK, Fields, Commanded, CommandedOne, TurnedAwayByOther
<1> USE DEF Fields, Marking, RequestStep, Refusals, job, host, At, GoTo
<1>2. CASE Operator(p)
  BY <1>1, <1>2 DEF Operator, Run, Adjust, WakeUp, Approve, Deny, Begin
<1>3. CASE FindSettled(p) \/ Refuse(p) \/ Validate(p)
  BY <1>1, <1>3 DEF FindSettled, Refuse, Validate
<1>4. CASE Mark(p)
  BY <1>1, <1>4 DEF Mark, Audited
<1>5. CASE Audit(p)
  BY <1>1, <1>5 DEF Audit, AppendOr
<1>6. CASE Mirror(p)
  BY <1>1, <1>6 DEF Mirror
<1>7. CASE Unresolved(p) \/ NoChange(p) \/ Cancel(p)
  BY <1>1, <1>7 DEF Unresolved, NoChange, Cancel, Return, Verdict
<1>8. CASE StopFails(p)
  BY <1>1, <1>8 DEF StopFails, Return, Verdict
<1>9. CASE Resolve(p) \/ Confirm(p) \/ Stop(p)
  BY <1>1, <1>9 DEF Resolve, Confirm, Stop
<1>10. CASE Waking(p)
  BY <1>1, <1>10 DEF Waking, Find, Probe, MountMissing
<1>11. CASE TakeOffset(p) \/ LaunchFails(p) \/ LogStart(p) \/ Spawn(p) \/ SpawnFails(p)
  BY <1>1, <1>11 DEF TakeOffset, LaunchFails, Leave, Left, LogStart, Spawn, SpawnFails
<1>12. CASE ClientReturns(p) \/ LimitHit(p) \/ LimitStops(p) \/ MergeEmitted(p) \/ LogEnd(p)
  BY <1>1, <1>12 DEF ClientReturns, LimitHit, LimitStops, MergeEmitted, LogEnd, Left
<1>13. CASE Classify(p)
  BY <1>1, <1>13 DEF Classify, Forget, Return, Verdict
<1>14. CASE Cell(p)
  BY <1>1, <1>14 DEF Cell, Submit, Forge, BoxExits
<1>15. CASE LaunchRaises(p) \/ Crash(p)
  BY <1>1, <1>15 DEF LaunchRaises, Crash, Left
<1> QED BY <1>2, <1>3, <1>4, <1>5, <1>6, <1>7, <1>8, <1>9, <1>10, <1>11, <1>12, <1>13, <1>14, <1>15
        DEF Acts, Work, Request, Adjusting, Launching

LEMMA StoreStep ==
  ASSUME Typed, Settled, NEW p \in Procs, Acts(p)
  PROVE  StoreIsSettled'
<1> SUFFICES ASSUME NEW s \in Procs, store'[s] # "none" PROVE \E q \in Procs : Settles(q, s)'
  BY DEF StoreIsSettled
<1>1. CASE store[s] # "none"
  BY <1>1, SettlesKept DEF Settled, StoreIsSettled
<1>2. CASE store[s] = "none"
  <2>1. /\ Mark(p) /\ s = target[p] /\ pc'[p] \in {"audit", "mirror"}
    BY <1>2, RequestsMoved DEF RequestStep, Settled, Typed, TypeOK
  <2>2. verdict'[p] = verdict[p] /\ target'[p] = target[p] /\ verdict[p] \in Statuses
    BY <2>1 DEF Mark, At, job, Marking, Typed, Commanded, CommandedOne
  <2> QED BY <2>1, <2>2 DEF Settles, Recorded
<1> QED BY <1>1, <1>2

LEMMA TurnedAwayStep ==
  ASSUME Typed, Settled, NEW p \in Procs, Acts(p)
  PROVE  TurnedAwayByOther'
<1> SUFFICES ASSUME NEW r \in Procs, verdict'[r] = "settled"
             PROVE  pc'[r] = "done" /\ \E q \in Procs \ {r} : Settles(q, target[r])'
  BY DEF TurnedAwayByOther
<1> PICK s : s = target'[r]
  OBVIOUS
<1>1. SUFFICES pc'[r] = "done" /\ \E q \in Procs \ {r} : Settles(q, s)'
  BY DEF Settles
<1>2. CASE verdict[r] = "settled" /\ pc'[r] = pc[r] /\ s = target[r]
  <2>1. PICK q \in Procs \ {r} : Settles(q, s)
    BY <1>2 DEF Settled, TurnedAwayByOther
  <2>2. Settles(q, s)'
    BY <2>1, SettlesKept
  <2> QED BY <1>2, <2>2 DEF Settled, TurnedAwayByOther
<1>3. CASE r = p /\ FindSettled(p)
  <2>1. pc[p] = "request" /\ store[target[p]] # "none" /\ target' = target
    BY <1>3 DEF FindSettled, At, HostStatus
  <2>2. s = target[p] /\ s \in Procs
    BY <1>3, <2>1 DEF Typed, Commanded, CommandedOne, Targeting
  <2>3. PICK q \in Procs : Settles(q, s)
    BY <2>1, <2>2 DEF Settled, StoreIsSettled
  <2>4. q # p
    BY <2>1, <2>3 DEF Settles, Recorded
  <2>5. Settles(q, s)'
    BY <2>3, SettlesKept
  <2>6. pc'[p] = "done"
    BY <1>3 DEF FindSettled, GoTo, Typed, TypeOK
  <2> QED BY <1>3, <2>4, <2>5, <2>6
<1>4. CASE r = p /\ verdict[p] = "settled" /\ Cell(p)
  BY <1>2, <1>4 DEF Cell, Submit, Forge, BoxExits, job
<1>5. CASE r # p
  BY <1>2, <1>5, OthersStay DEF Stays
<1>6. RequestStep(p)
  BY RequestsMoved DEF Settled
<1> QED BY <1>3, <1>4, <1>5, <1>6 DEF RequestStep

LEMMA MirrorStep ==
  ASSUME Typed, Settled, NEW p \in Procs, Acts(p)
  PROVE  MirrorIsAudited'
<1> SUFFICES ASSUME NEW q \in Procs, pc'[q] = "mirror", verdict'[q] \in Refusals
             PROVE  LoggedByHost("resolved", target[q])'
  BY DEF MirrorIsAudited
<1> PICK s : s = target'[q]
  OBVIOUS
<1>1. SUFFICES LoggedByHost("resolved", s)'
  BY DEF LoggedByHost
<1>2. CASE pc[q] = "mirror" /\ verdict[q] \in Refusals /\ s = target[q]
  <2>1. LoggedByHost("resolved", s)
    BY <1>2 DEF Settled, MirrorIsAudited
  <2> QED BY <2>1, ResolvedKept
<1>3. CASE q = p /\ Audit(p)
  <2>1. target' = target /\ pc[p] = "audit"
    BY <1>3 DEF Audit, At, job
  <2>2. s \in Procs /\ s = target[p]
    BY <1>3, <2>1 DEF Typed, Commanded, CommandedOne, Targeting
  <2>3. log' = Append(log, Record("resolved", s, p, NoSession))
    <3>1. pc \in [Procs -> Stages]
      BY DEF Typed, TypeOK
    <3> QED BY <1>3, <2>2, <3>1 DEF Audit, AppendOr, GoTo
  <2>4. /\ Len(log) + 1 \in DOMAIN log'
        /\ log'[Len(log) + 1] = Record("resolved", s, p, NoSession)
    <3>1. log \in Seq(Records)
      BY DEF Typed, TypeOK, Records
    <3>2. Record("resolved", s, p, NoSession) \in Records
      BY <2>2, EventsKnown, RecordTyped
    <3> QED BY <2>3, <3>1, <3>2
  <2> QED BY <2>4, ChainConstants DEF LoggedByHost, Record
<1>4. CASE q = p /\ pc[p] = "mirror" /\ Cell(p)
  BY <1>2, <1>4 DEF Cell, Submit, Forge, BoxExits, job
<1>5. CASE q # p
  BY <1>2, <1>5, OthersStay DEF Stays
<1>6. RequestStep(p)
  BY RequestsMoved DEF Settled
<1> QED BY <1>3, <1>4, <1>5, <1>6 DEF RequestStep

LEMMA AuditedStep ==
  ASSUME Typed, Settled, NEW p \in Procs, Acts(p)
  PROVE  RefusalsAreAudited'
<1> SUFFICES ASSUME NEW s \in Procs, file'[s] \in Refusals PROVE LoggedByHost("resolved", s)'
  BY DEF RefusalsAreAudited, Refusals
<1>1. CASE file[s] \in Refusals
  BY <1>1, ResolvedKept DEF Settled, RefusalsAreAudited, Refusals
<1>2. CASE Mirror(p) /\ s = target[p] /\ verdict[p] \in Refusals
  <2>1. LoggedByHost("resolved", s)
    BY <1>2 DEF Mirror, At, Settled, MirrorIsAudited
  <2> QED BY <2>1, ResolvedKept
<1> QED BY <1>1, <1>2, RequestsMoved DEF RequestStep, Settled

LEMMA SettledStep ==
  ASSUME Typed, Settled, NEW p \in Procs, Acts(p)
  PROVE  Settled'
BY StoreStep, TurnedAwayStep, MirrorStep, AuditedStep DEF Settled

-----------------------------------------------------------------------------
(* A session and its replacement *)

\* Over for good: its container does not run, and is not to be spawned.
Gone(s) == pc[s] \in Past /\ box[s] # "running"

BothStruck == {"stop", "daemon"} \subseteq struck

Relaunching(p) ==
  cmd[p] # "run" /\ (pc[p] \in {"relaunch", "launch", "spawn"} \/ box[p] = "running")

\* What the log and docker say of a session tells how far its launch is; when its
\* records are completed it is over, unless docker failed to stop it; and what a
\* command relaunches is over, unless docker failed twice.
ReadyRuns == \A p \in Procs : pc[p] = "ready" => cmd[p] = "run"

BoxesArePast == \A s \in Procs : box[s] # "none" => pc[s] \in Past

MergeIsOver == \A p \in Procs : pc[p] = "merge" => "stop" \in struck \/ Gone(p)

IdleIsOver ==
  \A s \in Procs :
    Logged("end_idle", s) => pc[s] \in Past /\ ("stop" \in struck \/ Gone(s))

TargetIsPast ==
  /\ \A p \in Procs : pc[p] \in {"prompt", "stop", "probe"} => pc[target[p]] \in Past
  /\ \A p \in Procs : pc[p] = "probe" => "stop" \in struck \/ Gone(target[p])

RelaunchesGone == \A p \in Procs : Relaunching(p) => BothStruck \/ Gone(target[p])

Replaced ==
  /\ ReadyRuns
  /\ BoxesArePast
  /\ MergeIsOver
  /\ IdleIsOver
  /\ TargetIsPast
  /\ RelaunchesGone

LEMMA PastKept ==
  ASSUME Typed, NEW p \in Procs, Acts(p), NEW s \in Procs, pc[s] \in Past
  PROVE  pc'[s] \in Past
<1>1. CASE s = p
  BY <1>1, StagesPassed DEF StageStep
<1>2. CASE s # p
  BY <1>2, OthersStay DEF Stays
<1> QED BY <1>1, <1>2

LEMMA GoneKept ==
  ASSUME Typed, NEW p \in Procs, Acts(p), NEW s \in Procs, Gone(s)
  PROVE  Gone(s)'
<1>1. pc'[s] \in Past
  BY PastKept DEF Gone
<1>2. ~ Spawn(s)
  BY DEF Gone, Past, Begun, Over, Recorded, Spawn, At
<1>3. box'[s] # "running"
  BY <1>2, RunsFromSpawn DEF Gone
<1> QED BY <1>1, <1>3 DEF Gone

\* What a step of p does, as far as Replaced is concerned.
ReplaceStep(p) ==
  /\ struck \subseteq struck'
  /\ pc'[p] = "ready" => pc[p] = "ready" /\ cmd'[p] = cmd[p]
  /\ \A s \in Procs : box'[s] # "none" =>
       \/ box[s] # "none"
       \/ s = p /\ pc'[p] \in Past
       \/ s = target[p] /\ pc[p] = "stop"
  /\ pc'[p] = "merge" =>
       \/ pc[p] = "merge" \/ "stop" \in struck' \/ box'[p] = "gone"
       \/ pc[p] = "spawn" /\ box'[p] = box[p]
  /\ pc'[p] \in {"prompt", "stop"} =>
       pc[p] \in {"prompt", "stop"} \/ (box[target[p]] = "running" /\ pc[p] = "resolve")
  /\ pc'[p] = "probe" =>
       pc[p] = "probe" \/ (Logged("end_idle", target[p]) /\ pc[p] = "find")
  /\ pc'[p] \in {"relaunch", "launch", "spawn"} =>
       \/ pc[p] \in {"relaunch", "launch", "spawn"}
       \/ pc[p] = "ready" /\ cmd'[p] = cmd[p]
       \/ pc[p] = "stop" /\ box' = [box EXCEPT ![target[p]] = "gone"]
       \/ pc[p] = "probe" /\ (box[target[p]] # "running" \/ "daemon" \in struck')

\* A wake that goes on has an idle end of its session in the log.
LEMMA FoundIdle ==
  ASSUME NEW s
  PROVE  AnyEndIdle(s) \/ LastEndIdle(s) => Logged("end_idle", s)
BY DEF AnyEndIdle, LastEndIdle, EndsOf, Logged

LEMMA ReplacingMoved ==
  ASSUME Typed, NEW p \in Procs, Acts(p)
  PROVE  ReplaceStep(p)
<1>1. /\ Fields
      /\ cmd[p] # "run" => target[p] \in Procs
      /\ pc[p] \in Targeting => cmd[p] # "run"
  BY DEF Typed, TypeOK, Fields, Commanded, CommandedOne
<1> USE DEF Fields, Targeting, ReplaceStep, Early, Past, Begun, Over, Recorded, job, host, At, GoTo
<1>2. CASE Run(p)
  BY <1>1, <1>2 DEF Run
<1>3. ASSUME NEW t, NEW command,
             NEW stage \in {"resolve", "find", "request"}, Begin(p, t, command, stage)
      PROVE  ReplaceStep(p)
  BY <1>1, <1>3 DEF Begin
<1>4. CASE Operator(p)
  BY <1>2, <1>3, <1>4 DEF Operator, Adjust, WakeUp, Approve, Deny
<1>5. CASE FindSettled(p) \/ Refuse(p) \/ Validate(p)
  BY <1>1, <1>5 DEF FindSettled, Refuse, Validate
<1>6. CASE Mark(p) \/ Audit(p) \/ Mirror(p)
  BY <1>1, <1>6 DEF Mark, Audit, Mirror, AppendOr, Fault
<1>7. CASE Unresolved(p) \/ NoChange(p) \/ Cancel(p)
  BY <1>1, <1>7 DEF Unresolved, NoChange, Cancel, Return, Fault
<1>8. CASE StopFails(p)
  BY <1>1, <1>8 DEF StopFails, Return, Fault
<1>9. CASE Resolve(p) \/ Confirm(p)
  BY <1>1, <1>9 DEF Resolve, Confirm
<1>10. CASE Stop(p)
  BY <1>1, <1>10 DEF Stop
<1>11. CASE Find(p)
  BY <1>1, <1>11, FoundIdle DEF Find
<1>12. CASE Probe(p) \/ MountMissing(p)
  BY <1>1, <1>12 DEF Probe, SeenActive, MountMissing, Fault
<1>13. CASE TakeOffset(p) \/ LaunchFails(p) \/ LogStart(p)
  BY <1>1, <1>13 DEF TakeOffset, LaunchFails, Leave, Left, LogStart
<1>14. CASE Spawn(p) \/ SpawnFails(p)
  BY <1>1, <1>14 DEF Spawn, SpawnFails
<1>15. CASE ClientReturns(p) \/ LimitHit(p) \/ MergeEmitted(p) \/ LogEnd(p)
  BY <1>1, <1>15 DEF ClientReturns, LimitHit, MergeEmitted, LogEnd, Left
<1>16. CASE LimitStops(p)
  BY <1>1, <1>16 DEF LimitStops, Fault
<1>17. CASE Classify(p)
  BY <1>1, <1>17 DEF Classify, Forget, Return, Fault
<1>18. CASE Cell(p)
  BY <1>1, <1>18 DEF Cell, Submit, Forge, BoxExits
<1>19. CASE LaunchRaises(p) \/ Crash(p)
  BY <1>1, <1>19 DEF LaunchRaises, Crash, Left, Fault
<1> QED BY <1>4, <1>5, <1>6, <1>7, <1>8, <1>9, <1>10, <1>11, <1>12, <1>13, <1>14, <1>15, <1>16,
           <1>17, <1>18, <1>19
        DEF Acts, Work, Request, Adjusting, Waking, Launching

LEMMA ReadyStep ==
  ASSUME Typed, ReadyRuns, NEW p \in Procs, Acts(p)
  PROVE  ReadyRuns'
<1> SUFFICES ASSUME NEW q \in Procs, pc'[q] = "ready" PROVE cmd'[q] = "run"
  BY DEF ReadyRuns
<1>1. CASE q = p
  BY <1>1, ReplacingMoved DEF ReplaceStep, ReadyRuns
<1>2. CASE q # p
  BY <1>2, OthersStay DEF Stays, ReadyRuns
<1> QED BY <1>1, <1>2

\* A command in the middle of a stage that needs a session has one.
LEMMA TargetKnown ==
  ASSUME Typed, NEW p \in Procs, pc[p] \in Targeting \/ cmd[p] # "run"
  PROVE  target[p] \in Procs
BY DEF Typed, Commanded, CommandedOne

LEMMA BoxesStep ==
  ASSUME Typed, BoxesArePast, TargetIsPast, NEW p \in Procs, Acts(p)
  PROVE  BoxesArePast'
<1> SUFFICES ASSUME NEW s \in Procs, box'[s] # "none" PROVE pc'[s] \in Past
  BY DEF BoxesArePast
<1>1. CASE box[s] # "none"
  BY <1>1, PastKept DEF BoxesArePast
<1>2. CASE s = target[p] /\ pc[p] = "stop"
  BY <1>2, PastKept DEF TargetIsPast
<1>3. CASE s = p /\ pc'[p] \in Past
  BY <1>3
<1> QED BY <1>1, <1>2, <1>3, ReplacingMoved DEF ReplaceStep

LEMMA MergeStep ==
  ASSUME Typed, BoxesArePast, MergeIsOver, NEW p \in Procs, Acts(p)
  PROVE  MergeIsOver'
<1> SUFFICES ASSUME NEW q \in Procs, pc'[q] = "merge", "stop" \notin struck'
             PROVE  Gone(q)'
  BY DEF MergeIsOver
<1>1. ReplaceStep(p)
  BY ReplacingMoved
<1>2. "stop" \notin struck
  BY <1>1 DEF ReplaceStep
<1>3. CASE pc[q] = "merge"
  BY <1>2, <1>3, GoneKept DEF MergeIsOver
<1>4. CASE q # p
  BY <1>3, <1>4, OthersStay DEF Stays
<1>5. CASE q = p /\ box'[p] = "gone"
  BY <1>5 DEF Gone, Past, Begun
<1>6. CASE q = p /\ pc[p] = "spawn" /\ box'[p] = box[p]
  BY <1>6 DEF BoxesArePast, Gone, Past, Begun, Over, Recorded
<1> QED BY <1>1, <1>3, <1>4, <1>5, <1>6 DEF ReplaceStep

LEMMA IdleStep ==
  ASSUME Typed, MergeIsOver, IdleIsOver, NEW p \in Procs, Acts(p)
  PROVE  IdleIsOver'
<1> SUFFICES ASSUME NEW s \in Procs, Logged("end_idle", s)'
             PROVE  pc'[s] \in Past /\ ("stop" \in struck' \/ Gone(s)')
  BY DEF IdleIsOver
<1>1. struck \subseteq struck'
  BY ReplacingMoved DEF ReplaceStep
<1>2. pc[s] \in Past /\ ("stop" \in struck \/ Gone(s))
  <2>1. PICK i \in DOMAIN log' : log'[i].event = "end_idle" /\ log'[i].sid = s
    BY DEF Logged
  <2>2. CASE i \in DOMAIN log
    BY <2>1, <2>2, LogGrows DEF Logged, IdleIsOver
  <2>3. CASE i \notin DOMAIN log
    <3>1. s = p /\ (LogEnd(p) \/ MergeEmitted(p))
      BY <2>1, <2>3, LogGrows DEF NewRecord
    <3> QED BY <3>1 DEF LogEnd, MergeEmitted, At, MergeIsOver, Past, Begun
  <2> QED BY <2>2, <2>3
<1> QED BY <1>1, <1>2, PastKept, GoneKept

LEMMA TargetStep ==
  ASSUME Typed, BoxesArePast, IdleIsOver, TargetIsPast, NEW p \in Procs, Acts(p)
  PROVE  TargetIsPast'
<1> SUFFICES ASSUME NEW q \in Procs, pc'[q] \in {"prompt", "stop", "probe"}
             PROVE  /\ pc'[target'[q]] \in Past
                    /\ pc'[q] = "probe" => "stop" \in struck' \/ Gone(target[q])'
  BY DEF TargetIsPast
<1> PICK s : s = target'[q]
  OBVIOUS
<1>1. struck \subseteq struck'
  BY ReplacingMoved DEF ReplaceStep
<1>2. SUFFICES /\ s \in Procs /\ pc[s] \in Past
               /\ pc'[q] = "probe" => "stop" \in struck \/ Gone(s)
  BY <1>1, PastKept, GoneKept DEF Gone
<1>3. CASE q = p
  <2>1. pc[p] \in {"prompt", "stop", "probe", "resolve", "find"} /\ s = target[p]
    BY <1>3, ReplacingMoved, StagesPassed DEF ReplaceStep, StageStep
  <2>2. s \in Procs
    BY <2>1, TargetKnown DEF Targeting
  <2>3. pc[s] \in Past
    BY <1>3, <2>1, <2>2, ReplacingMoved DEF ReplaceStep, TargetIsPast, BoxesArePast, IdleIsOver
  <2>4. pc'[q] = "probe" => "stop" \in struck \/ Gone(s)
    BY <1>3, <2>1, <2>2, ReplacingMoved DEF ReplaceStep, TargetIsPast, IdleIsOver
  <2> QED BY <2>2, <2>3, <2>4
<1>4. CASE q # p
  <2>1. pc'[q] = pc[q] /\ s = target[q]
    BY <1>4, OthersStay DEF Stays
  <2>2. s \in Procs
    BY <2>1, TargetKnown DEF Targeting
  <2> QED BY <2>1, <2>2 DEF TargetIsPast
<1> QED BY <1>3, <1>4

LEMMA RelaunchStep ==
  ASSUME Typed, Replaced, NEW p \in Procs, Acts(p)
  PROVE  RelaunchesGone'
<1> SUFFICES ASSUME NEW q \in Procs, Relaunching(q)', ~ BothStruck'
             PROVE  Gone(target[q])'
  BY DEF RelaunchesGone
<1> PICK s : s = target'[q]
  OBVIOUS
<1>1. SUFFICES Gone(s)'
  BY DEF Gone
<1>2. ~ BothStruck
  BY ReplacingMoved DEF ReplaceStep, BothStruck
<1>3. CASE Relaunching(q) /\ s = target[q]
  <2>1. Gone(s)
    BY <1>2, <1>3 DEF Replaced, RelaunchesGone
  <2>2. s \in Procs
    BY <1>3, TargetKnown DEF Relaunching
  <2> QED BY <2>1, <2>2, GoneKept
<1>4. CASE q # p
  <2>1. Stays(q)
    BY <1>4, OthersStay
  <2>2. box'[q] = "running" => box[q] = "running"
    BY <1>4, RunsFromSpawn
  <2> QED BY <1>3, <2>1, <2>2 DEF Stays, Relaunching
<1>5. CASE q = p
  <2>1. pc[p] # "ready"
    BY <1>5, StagesPassed, ReplacingMoved, RunsFromSpawn
       DEF Replaced, ReadyRuns, BoxesArePast, ReplaceStep, StageStep, Relaunching, Past, Begun, Over, Recorded, Spawn, At
  <2>2. s = target[p] /\ cmd[p] # "run"
    BY <1>5, <2>1, StagesPassed DEF StageStep, Relaunching
  <2>3. s \in Procs
    BY <2>2, TargetKnown
  <2>4. CASE pc[p] = "stop" /\ box' = [box EXCEPT ![s] = "gone"]
    <3>1. pc'[s] \in Past
      BY <2>2, <2>3, <2>4, PastKept DEF Replaced, TargetIsPast
    <3>2. box'[s] = "gone"
      BY <2>3, <2>4 DEF Typed, TypeOK
    <3> QED BY <3>1, <3>2 DEF Gone
  <2>5. CASE pc[p] = "probe" /\ box[s] # "running"
    <3>1. Gone(s)
      BY <2>2, <2>5 DEF Replaced, TargetIsPast, Gone
    <3> QED BY <2>3, <3>1, GoneKept
  <2>6. CASE pc[p] = "probe" /\ "daemon" \in struck'
    <3>1. "stop" \notin struck
      BY <2>6, ReplacingMoved DEF ReplaceStep, BothStruck
    <3>2. Gone(s)
      BY <2>2, <2>6, <3>1 DEF Replaced, TargetIsPast
    <3> QED BY <2>3, <3>2, GoneKept
  <2>7. CASE box'[p] = "running"
    <3>1. box[p] = "running" \/ pc[p] = "spawn"
      BY <2>7, RunsFromSpawn DEF Spawn, At
    <3> QED BY <1>3, <1>5, <2>2, <3>1 DEF Relaunching
  <2>8. CASE pc'[p] \in {"relaunch", "launch", "spawn"}
    BY <1>3, <1>5, <2>1, <2>2, <2>4, <2>5, <2>6, <2>8, ReplacingMoved DEF ReplaceStep, Relaunching
  <2> QED BY <1>5, <2>7, <2>8 DEF Relaunching
<1> QED BY <1>4, <1>5

LEMMA ReplacedStep ==
  ASSUME Typed, Replaced, NEW p \in Procs, Acts(p)
  PROVE  Replaced'
BY ReadyStep, BoxesStep, MergeStep, IdleStep, TargetStep, RelaunchStep DEF Replaced

-----------------------------------------------------------------------------
(* The outcome of a relaunch *)

Finished == {"mark", "audit", "mirror", "done"}

\* How a command comes to its end: not having launched, as a plain launch, or
\* through the record of its outcome.
FinishStep(p) ==
  pc'[p] \in Finished =>
    \/ pc[p] \in Finished /\ raised'[p] = raised[p]
    \/ pc[p] \in Early /\ ~ LogStart(p)
    \/ cmd'[p] = "run"
    \/ /\ Classify(p) /\ log' = Append(log, Outcome(p))
       /\ raised'[p] = raised[p] /\ cmd'[p] = cmd[p]

LEMMA FinishMoved ==
  ASSUME Typed, NEW p \in Procs, Acts(p)
  PROVE  FinishStep(p)
<1>1. Fields
  BY DEF Typed, TypeOK, Fields
<1> USE DEF Fields, Finished, Early, FinishStep, job, At, GoTo
<1>2. CASE Operator(p)
  BY <1>1, <1>2 DEF Operator, Run, Adjust, WakeUp, Approve, Deny, Begin, LogStart
<1>3. CASE Request(p)
  BY <1>1, <1>3 DEF Request, FindSettled, Refuse, Validate, Mark, Audit, Mirror, AppendOr, LogStart
<1>4. CASE Adjusting(p) \/ Waking(p)
  BY <1>1, <1>4 DEF Adjusting, Unresolved, NoChange, Cancel, StopFails, Resolve, Confirm, Stop,
     Waking, Find, Probe, MountMissing, LogStart
<1>5. CASE TakeOffset(p) \/ LogStart(p) \/ Spawn(p) \/ SpawnFails(p)
  BY <1>1, <1>5 DEF TakeOffset, LogStart, Spawn, SpawnFails
<1>6. CASE ClientReturns(p) \/ LimitHit(p) \/ LimitStops(p)
  BY <1>1, <1>6 DEF ClientReturns, LimitHit, LimitStops
<1>7. CASE LaunchFails(p) \/ MergeEmitted(p) \/ LogEnd(p)
  BY <1>1, <1>7 DEF LaunchFails, Leave, MergeEmitted, LogEnd, Left
<1>8. CASE Classify(p)
  <2>1. CASE log' = Append(log, Outcome(p))
    <3>1. raised' = raised /\ cmd' = cmd
      BY <1>8 DEF Classify
    <3> QED BY <1>8, <2>1, <3>1
  <2>2. CASE GoTo(p, "dead")
    BY <1>1, <2>2
  <2> QED BY <1>8, <2>1, <2>2 DEF Classify
<1>9. CASE Cell(p) \/ LaunchRaises(p) \/ Crash(p)
  BY <1>1, <1>9 DEF Cell, Submit, Forge, BoxExits, LaunchRaises, Left, Crash
<1> QED BY <1>2, <1>3, <1>4, <1>5, <1>6, <1>7, <1>8, <1>9 DEF Acts, Work, Launching

\* The outcome of q's relaunch is in the log.
RecordedAs(q) == LoggedBy({IF raised[q] THEN Failure(cmd[q]) ELSE Success(cmd[q])}, q)

LEMMA RecordedAsKept ==
  ASSUME Typed, NEW p \in Procs, Acts(p), NEW q, RecordedAs(q),
         raised'[q] = raised[q], cmd'[q] = cmd[q]
  PROVE  RecordedAs(q)'
<1> DEFINE event == IF raised[q] THEN Failure(cmd[q]) ELSE Success(cmd[q])
<1>1. PICK i \in DOMAIN log : log[i].event \in {event} /\ log[i].by = q
  BY DEF RecordedAs, LoggedBy
<1>2. event' = event
  BY DEF Failure, Success
<1>3. i \in DOMAIN log' /\ log'[i] = log[i]
  BY <1>1, LogGrows
<1> QED BY <1>1, <1>2, <1>3 DEF RecordedAs, LoggedBy

\* What find_session_start_after_offset finds is a start behind the offset.
LEMMA FoundStartFound ==
  ASSUME Typed, NEW p \in Procs, StartsAfter(p) # {}
  PROVE  \E j \in StartsAfter(p) : FoundStart(p) = log[j].sid
<1>1. log \in Seq(Records) /\ offset[p] \in Nat
  BY DEF Typed, TypeOK, Records
<1>2. Len(log) \in Nat /\ StartsAfter(p) \subseteq 1 .. Len(log)
  BY <1>1 DEF StartsAfter
<1>3. \E i \in StartsAfter(p) : \A j \in StartsAfter(p) : j <= i
  BY <1>2, LatestExists
<1>4. PICK i \in StartsAfter(p) :
        i = CHOOSE x \in StartsAfter(p) : \A j \in StartsAfter(p) : j <= x
  <2> DEFINE x == CHOOSE x \in StartsAfter(p) : \A j \in StartsAfter(p) : j <= x
  <2>1. x \in StartsAfter(p)
    BY <1>3
  <2> QED BY <2>1
<1> QED BY <1>4 DEF FoundStart

\* A relaunch whose session started finds a start behind its offset.
LEMMA OutcomeOfStarted ==
  ASSUME Typed, Order, NEW p \in Procs, Classify(p), Started(p)
  PROVE  Outcome(p).event = IF raised[p] THEN Failure(cmd[p]) ELSE Success(cmd[p])
<1>1. cmd[p] # "run" /\ pc[p] = "classify"
  BY DEF Typed, Commanded, CommandedOne, Targeting, Classify, At
<1>2. StartsAfter(p) # {}
  BY <1>1 DEF Order, StartsBehindOffset, Started, Logged, StartsAfter
<1>3. PICK j \in StartsAfter(p) : FoundStart(p) = log[j].sid
  BY <1>2, FoundStartFound
<1>4. log[j].sid \in Procs
  <2>1. log \in Seq(Records) /\ j \in DOMAIN log
    BY <1>3 DEF StartsAfter, Typed, TypeOK, Records
  <2>2. log[j] \in Records
    BY <2>1
  <2> QED BY <2>2 DEF Records
<1>5. FoundStart(p) # NoSession
  BY <1>3, <1>4, ChainConstants
<1> QED BY <1>5 DEF Outcome, Record

LEMMA RecordedStep ==
  ASSUME Typed, Order, RelaunchesAreRecorded, NEW p \in Procs, Acts(p)
  PROVE  RelaunchesAreRecorded'
<1>1. ASSUME NEW q \in Procs, cmd'[q] # "run", Started(q)', pc'[q] \in Finished
      PROVE  RecordedAs(q)'
  <2>1. CASE q # p
    <3>1. Stays(q) /\ Started(q)
      BY <2>1, <1>1, OthersStay, StartsKept DEF Order
    <3>2. RecordedAs(q) /\ raised'[q] = raised[q] /\ cmd'[q] = cmd[q]
      BY <1>1, <3>1 DEF Stays, RelaunchesAreRecorded, Finished, RecordedAs
    <3> QED BY <3>2, RecordedAsKept
  <2>2. CASE q = p /\ pc[p] \in Finished /\ raised'[p] = raised[p]
    <3>1. Started(p) /\ cmd'[p] = cmd[p]
      BY <1>1, <2>2, StartsKept, StagesPassed DEF Order, LogStart, At, StageStep, Finished
    <3>2. RecordedAs(p)
      BY <1>1, <2>2, <3>1 DEF RelaunchesAreRecorded, Finished, RecordedAs
    <3> QED BY <2>2, <3>1, <3>2, RecordedAsKept
  <2>3. CASE q = p /\ pc[p] \in Early /\ ~ LogStart(p)
    BY <1>1, <2>3, StartsKept DEF Order, StartedWhenBegun
  <2>4. CASE /\ q = p /\ Classify(p) /\ log' = Append(log, Outcome(p))
             /\ raised'[p] = raised[p] /\ cmd'[p] = cmd[p]
    <3>1. Started(p)
      BY <1>1, <2>4, StartsKept DEF Order, LogStart, Classify, At
    <3>2. Outcome(p).event = (IF raised[p] THEN Failure(cmd[p]) ELSE Success(cmd[p]))
      BY <2>4, <3>1, OutcomeOfStarted
    <3>3. Outcome(p) \in Records
      <4>1. cmd[p] # "run" /\ target[p] \in Procs
        BY <2>4 DEF Typed, Commanded, CommandedOne, Targeting, Classify, At
      <4> QED
        BY <4>1, EventsKnown, RecordTyped, FoundStartType
           DEF Outcome, Failure, Success, Typed
    <3>4. Len(log) + 1 \in DOMAIN log' /\ log'[Len(log) + 1] = Outcome(p)
      BY <2>4, <3>3 DEF Typed, TypeOK, Records
    <3>5. Outcome(p).by = p
      BY DEF Outcome, Record
    <3>6. (IF raised[p] THEN Failure(cmd[p]) ELSE Success(cmd[p]))'
            = IF raised[p] THEN Failure(cmd[p]) ELSE Success(cmd[p])
      BY <2>4 DEF Failure, Success
    <3> QED BY <2>4, <3>2, <3>4, <3>5, <3>6 DEF LoggedBy, RecordedAs
  <2> QED BY <1>1, <2>1, <2>2, <2>3, <2>4, FinishMoved DEF FinishStep
<1>2. ASSUME NEW i \in DOMAIN log', NEW j \in DOMAIN log',
             {log'[i].event, log'[j].event} \subseteq Outcomes,
             log'[i].by = log'[j].by, log'[i].by # NoSession
      PROVE  i = j
  <2>1. ASSUME NEW k \in DOMAIN log, NEW n \in DOMAIN log' \ DOMAIN log,
               {log'[k].event, log'[n].event} \subseteq Outcomes,
               log'[k].by = log'[n].by, log'[n].by # NoSession
        PROVE  FALSE
    <3>1. Classify(p) /\ log'[n].by = p
      BY <2>1, LogGrows DEF NewRecord
    <3>2. LoggedBy(Outcomes, p)
      <4>1. log'[k] = log[k]
        BY <2>1, LogGrows
      <4> QED BY <2>1, <3>1, <4>1 DEF LoggedBy
    <3>3. pc[p] \in Over
      BY <3>2 DEF Order, OutcomeIsOver
    <3> QED BY <3>1, <3>3 DEF Classify, At, Over, Recorded
  <2>2. CASE i \in DOMAIN log /\ j \in DOMAIN log
    BY <1>2, <2>2, LogGrows DEF RelaunchesAreRecorded
  <2>3. CASE i \notin DOMAIN log /\ j \notin DOMAIN log
    BY <2>3, LogGrows
  <2>4. (i \in DOMAIN log) <=> (j \in DOMAIN log)
    BY <1>2, <2>1
  <2> QED BY <2>2, <2>3, <2>4
<1> QED BY <1>1, <1>2 DEF RelaunchesAreRecorded, Finished, RecordedAs

-----------------------------------------------------------------------------
(* The lineage of a session *)

\* The log holds of the session of a command what the command acts on: the
\* start, or for wake the idle end.
OriginKnown(p) == Logged(Origin(cmd[p]), target[p])

WakesDoNotAdjust ==
  \A p \in Procs :
    pc[p] \in {"request", "resolve", "prompt", "stop"} => cmd[p] # "wake"

\* A command has read it before it launches anything.
OriginLogged ==
  \A p \in Procs :
    cmd[p] # "run" /\ (cmd[p] = "wake" => pc[p] \in {"probe", "relaunch"}) => OriginKnown(p)

\* It did so before it took its offset.
OriginBehind(p) == LoggedBefore(offset[p] + 1, Origin(cmd[p]), target[p])

OriginBehindOffset ==
  \A p \in Procs :
    cmd[p] # "run" /\ pc[p] \in Begun \cup {"launch", "classify"} => OriginBehind(p)

\* What the record i names as new was started after what it names as old began.
NewIsYounger(i) ==
  \E j \in DOMAIN log :
    /\ j < i /\ log[j].event = "start" /\ log[j].sid = log[i].new
    /\ LoggedBefore(j, Origin(log[i].event), log[i].sid)

\* So was the session of the command p, if the record i is its start.
StartIsYounger(i, p) == LoggedBefore(i, Origin(cmd[p]), target[p])

Lineage ==
  /\ WakesDoNotAdjust
  /\ OriginLogged
  /\ OriginBehindOffset
  /\ LineageGoesBack

\* What a step of p does, as far as Lineage is concerned.
LineageStep(p) ==
  /\ pc'[p] \in {"request", "resolve", "prompt", "stop"} =>
       pc[p] \in {"request", "resolve", "prompt", "stop"} \/ cmd'[p] # "wake"
  /\ pc[p] = "ready" /\ cmd'[p] # "run" =>
       \/ pc'[p] = "ready" /\ cmd'[p] = cmd[p]
       \/ /\ Started(target'[p]) /\ pc'[p] \in {"find", "resolve", "request"}
          /\ cmd'[p] = "wake" => pc'[p] = "find"
       \/ cmd'[p] = cmd[p] /\ pc'[p] = "launch"
  /\ pc'[p] = "probe" =>
       pc[p] = "probe" \/ (pc[p] = "find" /\ Logged("end_idle", target[p]))
  /\ pc'[p] = "relaunch" => pc[p] \in {"relaunch", "stop", "probe"}
  /\ pc'[p] = "launch" =>
       \/ pc[p] = "launch" /\ offset'[p] = offset[p]
       \/ pc[p] = "relaunch" /\ offset'[p] = Len(log)
       \/ pc[p] = "ready" /\ cmd'[p] = cmd[p]

LEMMA LineageMoved ==
  ASSUME Typed, NEW p \in Procs, Acts(p)
  PROVE  LineageStep(p)
<1>1. Fields
  BY DEF Typed, TypeOK, Fields
<1> USE DEF Fields, LineageStep, job, At, GoTo
<1>2. CASE Run(p)
  BY <1>1, <1>2 DEF Run
<1>3. CASE \E t \in Procs : Adjust(p, t) \/ WakeUp(p, t) \/ Approve(p, t) \/ Deny(p, t)
  BY <1>1, <1>3 DEF Adjust, WakeUp, Approve, Deny, Begin
<1>4. CASE Request(p)
  BY <1>1, <1>4 DEF Request, FindSettled, Refuse, Validate, Mark, Audit, Mirror, AppendOr
<1>5. CASE Unresolved(p) \/ NoChange(p) \/ Cancel(p) \/ StopFails(p)
  BY <1>1, <1>5 DEF Unresolved, NoChange, Cancel, StopFails, Return
<1>6. CASE Resolve(p) \/ Confirm(p) \/ Stop(p)
  BY <1>1, <1>6 DEF Resolve, Confirm, Stop
<1>7. CASE Waking(p)
  BY <1>1, <1>7, FoundIdle DEF Waking, Find, Probe, MountMissing
<1>8. CASE TakeOffset(p) \/ LaunchFails(p) \/ LogStart(p) \/ Spawn(p) \/ SpawnFails(p)
  BY <1>1, <1>8 DEF TakeOffset, LaunchFails, Leave, Left, LogStart, Spawn, SpawnFails
<1>9. CASE ClientReturns(p) \/ LimitHit(p) \/ LimitStops(p) \/ MergeEmitted(p) \/ LogEnd(p)
  BY <1>1, <1>9 DEF ClientReturns, LimitHit, LimitStops, MergeEmitted, LogEnd, Left
<1>10. CASE Classify(p)
  BY <1>1, <1>10 DEF Classify, Forget, Return
<1>11. CASE Cell(p) \/ LaunchRaises(p) \/ Crash(p)
  BY <1>1, <1>11 DEF Cell, Submit, Forge, BoxExits, LaunchRaises, Left, Crash
<1> QED BY <1>2, <1>3, <1>4, <1>5, <1>6, <1>7, <1>8, <1>9, <1>10, <1>11
        DEF Acts, Operator, Work, Adjusting, Launching

LEMMA OriginKnownKept ==
  ASSUME Typed, NEW p \in Procs, Acts(p), NEW q, cmd'[q] = cmd[q], target'[q] = target[q]
  PROVE  /\ OriginKnown(q) => OriginKnown(q)'
         /\ offset'[q] = offset[q] /\ OriginBehind(q) => OriginBehind(q)'
         /\ \A n : StartIsYounger(n, q) => StartIsYounger(n, q)'
<1>1. Origin(cmd[q])' = Origin(cmd[q])
  BY DEF Origin
<1> QED BY <1>1, LogGrows DEF OriginKnown, OriginBehind, StartIsYounger, Logged, LoggedBefore

LEMMA WakesStep ==
  ASSUME Typed, WakesDoNotAdjust, NEW p \in Procs, Acts(p)
  PROVE  WakesDoNotAdjust'
<1> SUFFICES ASSUME NEW q \in Procs, pc'[q] \in {"request", "resolve", "prompt", "stop"}
             PROVE  cmd'[q] # "wake"
  BY DEF WakesDoNotAdjust
<1>1. CASE q = p
  BY <1>1, LineageMoved, StagesPassed DEF LineageStep, StageStep, WakesDoNotAdjust
<1>2. CASE q # p
  BY <1>2, OthersStay DEF Stays, WakesDoNotAdjust
<1> QED BY <1>1, <1>2

LEMMA OriginLoggedStep ==
  ASSUME Typed, WakesDoNotAdjust, OriginLogged, ReadyRuns, NEW p \in Procs, Acts(p)
  PROVE  OriginLogged'
<1> SUFFICES ASSUME NEW q \in Procs, cmd'[q] # "run",
                    cmd'[q] = "wake" => pc'[q] \in {"probe", "relaunch"}
             PROVE  OriginKnown(q)'
  BY DEF OriginLogged
<1>0. cmd[q] \in Commands
  BY DEF Typed, TypeOK
<1>1. CASE q # p
  <2>1. Stays(q)
    BY <1>1, OthersStay
  <2>2. OriginKnown(q) /\ cmd'[q] = cmd[q] /\ target'[q] = target[q]
    BY <2>1 DEF Stays, OriginLogged
  <2> QED BY <2>2, OriginKnownKept
<1>2. CASE q = p /\ pc[p] = "ready"
  <2>1. Started(target'[p]) /\ cmd'[p] # "wake"
    BY <1>2, LineageMoved DEF LineageStep, ReadyRuns
  <2>2. cmd'[p] \in Commands
    BY NextTyped DEF Typed, TypeOK
  <2>3. Origin(cmd[p])' = "start"
    BY <2>1, <2>2 DEF Origin, Commands
  <2>4. PICK s : s = target'[p] /\ Started(s)
    BY <2>1
  <2>5. PICK i \in DOMAIN log : log[i].event = "start" /\ log[i].sid = s
    BY <2>4 DEF Started, Logged
  <2>6. i \in DOMAIN log' /\ log'[i] = log[i]
    BY <2>5, LogGrows
  <2> QED BY <1>2, <2>3, <2>4, <2>5, <2>6 DEF OriginKnown, Logged
<1>3. CASE q = p /\ pc[p] # "ready"
  <2>1. cmd'[p] = cmd[p] /\ target'[p] = target[p]
    BY <1>3, StagesPassed DEF StageStep
  <2>2. CASE cmd[p] = "wake" /\ pc[p] = "find" /\ Logged("end_idle", target[p])
    <3>1. OriginKnown(p)
      BY <2>2 DEF Origin, EndEvent, OriginKnown
    <3> QED BY <1>3, <2>1, <3>1, OriginKnownKept
  <2>3. CASE cmd[p] = "wake" => pc[p] \in {"probe", "relaunch"}
    <3>1. OriginKnown(p)
      BY <1>3, <2>1, <2>3 DEF OriginLogged
    <3> QED BY <1>3, <2>1, <3>1, OriginKnownKept
  <2> QED BY <1>3, <2>1, <2>2, <2>3, LineageMoved DEF LineageStep, WakesDoNotAdjust
<1> QED BY <1>1, <1>2, <1>3

LEMMA OriginBehindStep ==
  ASSUME Typed, ReadyRuns, OriginLogged, OriginBehindOffset, NEW p \in Procs, Acts(p)
  PROVE  OriginBehindOffset'
<1> SUFFICES ASSUME NEW q \in Procs, cmd'[q] # "run",
                    pc'[q] \in Begun \cup {"launch", "classify"}
             PROVE  OriginBehind(q)'
  BY DEF OriginBehindOffset
<1>1. CASE q # p
  <2>1. Stays(q)
    BY <1>1, OthersStay
  <2>2. OriginBehind(q) /\ cmd'[q] = cmd[q] /\ target'[q] = target[q] /\ offset'[q] = offset[q]
    BY <2>1 DEF Stays, OriginBehindOffset
  <2> QED BY <2>2, OriginKnownKept
<1>2. CASE q = p
  <2>1. pc[p] # "ready" /\ cmd'[p] = cmd[p] /\ target'[p] = target[p]
    BY <1>2, StagesPassed, LineageMoved DEF StageStep, LineageStep, ReadyRuns, Begun
  <2>2. CASE pc[p] = "relaunch" /\ offset'[p] = Len(log)
    <3>1. PICK i \in DOMAIN log : log[i].event = Origin(cmd[p]) /\ log[i].sid = target[p]
      BY <1>2, <2>1, <2>2 DEF OriginLogged, OriginKnown, Logged
    <3>2. i < Len(log) + 1 /\ i \in DOMAIN log' /\ log'[i] = log[i]
      BY <3>1, LogGrows
    <3>3. Origin(cmd[p])' = Origin(cmd[p])
      BY <2>1 DEF Origin
    <3> QED BY <1>2, <2>1, <2>2, <3>1, <3>2, <3>3 DEF OriginBehind, LoggedBefore
  <2>3. CASE pc[p] \in Begun \cup {"launch", "classify"} /\ offset'[p] = offset[p]
    <3>1. OriginBehind(p)
      BY <1>2, <2>1, <2>3 DEF OriginBehindOffset
    <3> QED BY <1>2, <2>1, <2>3, <3>1, OriginKnownKept
  <2>4. pc'[p] # "launch" =>
          pc[p] \in Begun \cup {"launch", "classify"} /\ offset'[p] = offset[p]
    BY <1>2, StagesPassed DEF StageStep, LogStart, At
  <2> QED BY <1>2, <2>1, <2>2, <2>3, <2>4, LineageMoved DEF LineageStep
<1> QED BY <1>1, <1>2

LEMMA GoesBackStep ==
  ASSUME Typed, Order, Lineage, NEW p \in Procs, Acts(p)
  PROVE  LineageGoesBack'
<1> USE DEF Lineage
<1>0. /\ Len(log) \in Nat /\ DOMAIN log = 1 .. Len(log)
      /\ offset[p] \in Nat /\ offset[p] <= Len(log)
      /\ cmd[p] \in Commands
  BY LogGrows DEF Typed, TypeOK, Order, OffsetsPassed
<1>1. ASSUME NEW i \in DOMAIN log', log'[i].event \in {"adjusted", "woken"},
             log'[i].by # NoSession
      PROVE  NewIsYounger(i)'
  <2>1. CASE i \in DOMAIN log
    <3>1. log'[i] = log[i]
      BY <2>1, LogGrows
    <3>2. PICK j \in DOMAIN log :
            /\ j < i /\ log[j].event = "start" /\ log[j].sid = log[i].new
            /\ LoggedBefore(j, Origin(log[i].event), log[i].sid)
      BY <1>1, <2>1, <3>1 DEF LineageGoesBack, NewIsYounger
    <3>3. j \in DOMAIN log' /\ log'[j] = log[j]
      BY LogGrows, <1>0
    <3>4. PICK k \in DOMAIN log :
            k < j /\ log[k].event = Origin(log[i].event) /\ log[k].sid = log[i].sid
      BY <3>2 DEF LoggedBefore
    <3>5. k \in DOMAIN log' /\ log'[k] = log[k]
      BY <3>4, LogGrows
    <3>6. Origin(log[i].event)' = Origin(log[i].event)
      BY <3>1 DEF Origin
    <3> QED BY <3>1, <3>2, <3>3, <3>4, <3>5, <3>6 DEF NewIsYounger, LoggedBefore
  <2>2. CASE i \notin DOMAIN log
    <3>1. /\ i = Len(log) + 1 /\ Classify(p) /\ log'[i] = Outcome(p)
      BY <1>1, <2>2, LogGrows DEF NewRecord, Outcomes
    <3>2. /\ FoundStart(p) # NoSession
          /\ Outcome(p) = Record(Success(cmd[p]), target[p], p, FoundStart(p))
      BY <1>1, <3>1 DEF Outcome, Record, Failure
    <3>3. /\ log'[i].new = FoundStart(p) /\ log'[i].sid = target[p]
          /\ log'[i].event = Success(cmd[p])
      BY <3>1, <3>2 DEF Record
    <3>4. PICK j \in StartsAfter(p) : FoundStart(p) = log[j].sid
      <4>1. StartsAfter(p) # {}
        BY <3>2 DEF FoundStart
      <4> QED BY <4>1, FoundStartFound
    <3>5. Origin(log[i].event)' = Origin(cmd[p])
      BY <1>0, <3>3 DEF Origin, Success, Commands
    <3>6. OriginBehind(p)
      BY <3>1 DEF OriginBehindOffset, Typed, Commanded, CommandedOne, Targeting, Classify, At
    <3>7. PICK k \in DOMAIN log :
            /\ k < offset[p] + 1
            /\ log[k].event = Origin(cmd[p]) /\ log[k].sid = target[p]
      BY <3>6 DEF OriginBehind, LoggedBefore
    <3>8. k \in DOMAIN log' /\ k < j /\ log'[k] = log[k]
      BY <1>0, <3>4, <3>7, LogGrows DEF StartsAfter
    <3>9. j \in DOMAIN log' /\ j < i /\ log'[j] = log[j] /\ log[j].event = "start"
      BY <1>0, <3>1, <3>4, LogGrows DEF StartsAfter
    <3> QED BY <3>3, <3>4, <3>5, <3>7, <3>8, <3>9 DEF NewIsYounger, LoggedBefore
  <2> QED BY <2>1, <2>2
<1>2. ASSUME NEW i \in DOMAIN log', log'[i].event = "start",
             NEW q \in Procs, q = log'[i].sid, cmd'[q] # "run"
      PROVE  StartIsYounger(i, q)'
  <2>1. CASE i \in DOMAIN log
    <3>1. log'[i] = log[i]
      BY <2>1, LogGrows
    <3>2. pc[q] \notin Early
      BY <1>2, <2>1, <3>1 DEF Order, StartedWhenBegun, Started, Logged
    <3>3. cmd'[q] = cmd[q] /\ target'[q] = target[q]
      <4>1. CASE q = p
        BY <3>2, <4>1, StagesPassed DEF StageStep, Early
      <4>2. CASE q # p
        BY <4>2, OthersStay DEF Stays
      <4> QED BY <4>1, <4>2
    <3>4. StartIsYounger(i, q)
      BY <1>2, <2>1, <3>1, <3>3 DEF LineageGoesBack, StartIsYounger
    <3> QED BY <3>3, <3>4, OriginKnownKept
  <2>2. CASE i \notin DOMAIN log
    <3>1. i = Len(log) + 1 /\ (LogStart(p) \/ MergeEmitted(p)) /\ q = p
      BY <1>2, <2>2, LogGrows DEF NewRecord
    <3>2. pc[p] \in {"launch", "merge"} /\ cmd' = cmd /\ target' = target
      BY <3>1 DEF LogStart, MergeEmitted, At, job
    <3>3. OriginBehind(p)
      BY <1>2, <3>1, <3>2 DEF OriginBehindOffset, Begun
    <3>4. StartIsYounger(i, p)
      BY <1>0, <3>1, <3>3 DEF OriginBehind, StartIsYounger, LoggedBefore
    <3> QED BY <3>1, <3>2, <3>4, OriginKnownKept
  <2> QED BY <2>1, <2>2
<1> QED BY <1>1, <1>2 DEF LineageGoesBack, NewIsYounger, StartIsYounger

-----------------------------------------------------------------------------
(* What a command leaves behind when it is over *)

\* An outcome is of the session its command was given.
OutcomesNameTargets ==
  \A i \in DOMAIN log :
    log[i].event \in Outcomes /\ log[i].by # NoSession => log[i].sid = target[log[i].by]

\* Only wake looks for idle ends, and deny goes from the request to its record.
Assigned ==
  \A p \in Procs :
    /\ pc[p] \in {"find", "probe"} => cmd[p] = "wake"
    /\ cmd[p] = "deny" => pc[p] \in {"request"} \cup Over

Decided(p) == cmd[p] \in {"approve", "deny"} /\ pc[p] \in Recorded \ {"dead"}

DecidedIsStored == \A p \in Procs : Decided(p) => store[target[p]] # "none"

Closing == OutcomesNameTargets /\ Assigned /\ DecidedIsStored

LEMMA OutcomesNameTargetsStep ==
  ASSUME Typed, Order, OutcomesNameTargets, NEW p \in Procs, Acts(p)
  PROVE  OutcomesNameTargets'
<1> SUFFICES ASSUME NEW i \in DOMAIN log', log'[i].event \in Outcomes,
                    log'[i].by # NoSession
             PROVE  log'[i].sid = target'[log'[i].by]
  BY DEF OutcomesNameTargets
<1>1. CASE i \in DOMAIN log
  <2>1. log'[i] = log[i]
    BY <1>1, LogGrows
  <2> DEFINE q == log[i].by
  <2>2. q \in Procs
    <3>1. log \in Seq(Records)
      BY DEF Typed, TypeOK, Records
    <3>2. log[i] \in Records
      BY <1>1, <3>1
    <3> QED BY <2>1, <3>2 DEF Records
  <2>3. pc[q] \in Over
    BY <1>1, <2>1, <2>2 DEF Order, OutcomeIsOver, LoggedBy
  <2>4. target'[q] = target[q]
    <3>1. CASE q = p
      BY <2>3, <3>1, StagesPassed DEF StageStep, Over, Recorded
    <3>2. CASE q # p
      BY <2>2, <3>2, OthersStay DEF Stays
    <3> QED BY <3>1, <3>2
  <2> QED BY <1>1, <2>1, <2>4 DEF OutcomesNameTargets
<1>2. CASE i \notin DOMAIN log
  <2>1. Classify(p) /\ log'[i] = Outcome(p)
    BY <1>2, LogGrows DEF NewRecord
  <2>2. Outcome(p).sid = target[p] /\ Outcome(p).by = p
    BY DEF Outcome, Record
  <2> QED BY <2>1, <2>2 DEF Classify
<1> QED BY <1>1, <1>2

\* How a command comes to its stage, and an approve or a deny behind its record.
ClosingStep(p) ==
  /\ pc'[p] = "probe" => pc[p] = "probe" \/ Find(p)
  /\ pc'[p] \in {"find", "probe"} => cmd'[p] = "wake"
  /\ cmd'[p] = "deny" => pc'[p] \in {"request"} \cup Over
  /\ Decided(p)' =>
       \/ Decided(p) /\ target'[p] = target[p]
       \/ Mark(p) /\ store' = [store EXCEPT ![target[p]] = verdict[p]]
       \/ FindSettled(p)

LEMMA ClosingMoved ==
  ASSUME Typed, ReadyRuns, Assigned, NEW p \in Procs, Acts(p)
  PROVE  ClosingStep(p)
<1>1. /\ Fields
      /\ pc[p] = "ready" => cmd[p] = "run"
      /\ pc[p] \in {"find", "probe"} => cmd[p] = "wake"
      /\ cmd[p] = "deny" => pc[p] \in {"request"} \cup Over
  BY DEF Typed, TypeOK, Fields, ReadyRuns, Assigned
<1> USE DEF Fields, ClosingStep, Decided, Over, Recorded, job, At, GoTo
<1>2. CASE Operator(p)
  BY <1>1, <1>2 DEF Operator, Run, Adjust, WakeUp, Approve, Deny, Begin
<1>3. CASE FindSettled(p) \/ Refuse(p) \/ Validate(p)
  BY <1>1, <1>3 DEF FindSettled, Refuse, Validate
<1>4. CASE Mark(p) \/ Audit(p) \/ Mirror(p)
  BY <1>1, <1>4 DEF Mark, Audit, Mirror, AppendOr
<1>5. CASE Unresolved(p) \/ NoChange(p) \/ Cancel(p) \/ StopFails(p)
  BY <1>1, <1>5 DEF Unresolved, NoChange, Cancel, StopFails, Return
<1>6. CASE Resolve(p) \/ Confirm(p) \/ Stop(p)
  BY <1>1, <1>6 DEF Resolve, Confirm, Stop
<1>7. CASE Waking(p)
  BY <1>1, <1>7 DEF Waking, Find, Probe, MountMissing
<1>8. CASE TakeOffset(p) \/ LaunchFails(p) \/ LogStart(p) \/ Spawn(p) \/ SpawnFails(p)
  BY <1>1, <1>8 DEF TakeOffset, LaunchFails, Leave, Left, LogStart, Spawn, SpawnFails
<1>9. CASE ClientReturns(p) \/ LimitHit(p) \/ LimitStops(p) \/ MergeEmitted(p) \/ LogEnd(p)
  BY <1>1, <1>9 DEF ClientReturns, LimitHit, LimitStops, MergeEmitted, LogEnd, Left
<1>10. CASE Classify(p)
  BY <1>1, <1>10 DEF Classify, Forget, Return
<1>11. CASE Cell(p) \/ LaunchRaises(p) \/ Crash(p)
  BY <1>1, <1>11 DEF Cell, Submit, Forge, BoxExits, LaunchRaises, Left, Crash
<1> QED BY <1>2, <1>3, <1>4, <1>5, <1>6, <1>7, <1>8, <1>9, <1>10, <1>11
        DEF Acts, Work, Request, Adjusting, Launching

LEMMA AssignedStep ==
  ASSUME Typed, ReadyRuns, Assigned, NEW p \in Procs, Acts(p)
  PROVE  Assigned'
BY ClosingMoved, OthersStay DEF ClosingStep, Assigned, Stays

\* A status in the host's store is never taken back.
LEMMA StatusStays ==
  ASSUME Typed, Settled, NEW p \in Procs, Acts(p), NEW s, store[s] # "none"
  PROVE  store'[s] # "none"
<1>1. CASE store' = store
  BY <1>1
<1>2. CASE Mark(p) /\ store' = [store EXCEPT ![target[p]] = verdict[p]]
  <2>1. verdict[p] \in Statuses
    BY <1>2 DEF Mark, At, Marking, Typed, Commanded, CommandedOne
  <2> QED BY <1>2, <2>1 DEF Typed, TypeOK, Statuses
<1> QED BY <1>1, <1>2, RequestsMoved DEF RequestStep, Settled

LEMMA DecidedStep ==
  ASSUME Typed, Settled, ReadyRuns, Assigned, DecidedIsStored, NEW p \in Procs, Acts(p)
  PROVE  DecidedIsStored'
<1> SUFFICES ASSUME NEW q \in Procs, Decided(q)' PROVE store'[target'[q]] # "none"
  BY DEF DecidedIsStored
<1>1. CASE Decided(q) /\ target'[q] = target[q]
  BY <1>1, StatusStays DEF DecidedIsStored
<1>2. CASE q = p /\ Mark(p) /\ store' = [store EXCEPT ![target[p]] = verdict[p]]
  <2>1. /\ verdict[p] \in Statuses /\ target[p] \in Procs /\ target' = target
    BY <1>2 DEF Mark, At, job, Marking, Targeting, Typed, Commanded, CommandedOne
  <2> QED BY <1>2, <2>1 DEF Typed, TypeOK, Statuses
<1>3. CASE q = p /\ FindSettled(p)
  BY <1>3, StatusStays DEF FindSettled, HostStatus
<1>4. CASE q # p
  BY <1>1, <1>4, OthersStay DEF Stays, Decided
<1> QED BY <1>1, <1>2, <1>3, <1>4, ClosingMoved DEF ClosingStep

LEMMA ClosingKept ==
  ASSUME Typed, Order, Settled, ReadyRuns, Closing, NEW p \in Procs, Acts(p)
  PROVE  Closing'
BY OutcomesNameTargetsStep, AssignedStep, DecidedStep DEF Closing

-----------------------------------------------------------------------------
(* The theorems *)

IInv == Typed /\ Order /\ Settled /\ Replaced /\ RelaunchesAreRecorded /\ Lineage /\ Closing

LEMMA InitIInv == Init => IInv
<1> SUFFICES ASSUME Init PROVE IInv
  OBVIOUS
<1>1. Typed
  BY InitTyped
<1>2. /\ \A p \in Procs : /\ ~ Started(p)
                          /\ ~ LoggedBy(Failures, p) /\ ~ LoggedBy(Outcomes, p)
      /\ \A s \in Procs : ~ Logged("end_idle", s)
  BY DEF Init, Started, Logged, LoggedBy
<1>3. Order
  <2>1. StartedWhenBegun /\ StartsBehindOffset
    BY <1>2 DEF Init, StartedWhenBegun, StartsBehindOffset, Begun
  <2>2. RunningIsLogged /\ OffsetsPassed
    BY DEF Init, RunningIsLogged, OffsetsPassed
  <2>3. OutcomeIsOver /\ FailureIsTrue
    BY <1>2 DEF OutcomeIsOver, FailureIsTrue, Failures
  <2> QED BY <2>1, <2>2, <2>3 DEF Order
<1>4. Settled
  BY DEF Init, Settled, StoreIsSettled, TurnedAwayByOther, MirrorIsAudited, RefusalsAreAudited
<1>5. Replaced
  <2>1. ReadyRuns /\ BoxesArePast /\ MergeIsOver /\ TargetIsPast
    BY DEF Init, ReadyRuns, BoxesArePast, MergeIsOver, TargetIsPast
  <2>2. IdleIsOver
    BY <1>2 DEF IdleIsOver
  <2>3. RelaunchesGone
    BY DEF Init, RelaunchesGone, Relaunching
  <2> QED BY <2>1, <2>2, <2>3 DEF Replaced
<1>6. RelaunchesAreRecorded /\ Lineage
  BY DEF Init, RelaunchesAreRecorded, Lineage, WakesDoNotAdjust, OriginLogged,
     OriginBehindOffset, LineageGoesBack
<1>7. Closing
  BY DEF Init, Closing, OutcomesNameTargets, Assigned, DecidedIsStored, Decided
<1> QED BY <1>1, <1>3, <1>4, <1>5, <1>6, <1>7 DEF IInv

LEMMA NextIInv == IInv /\ [Next]_vars => IInv'
<1> SUFFICES ASSUME IInv, [Next]_vars PROVE IInv'
  OBVIOUS
<1>1. CASE UNCHANGED vars
  <2> USE <1>1 DEF vars
  <2>1. Typed'
    BY DEF IInv, Typed, TypeOK, Commanded, CommandedOne
  <2>2. Order'
    BY DEF IInv, Order, StartedWhenBegun, RunningIsLogged, OffsetsPassed, StartsBehindOffset,
           OutcomeIsOver, FailureIsTrue, Started, Logged, LoggedBy
  <2>3. Settled'
    BY DEF IInv, Settled, StoreIsSettled, TurnedAwayByOther, MirrorIsAudited,
           RefusalsAreAudited, Settles, LoggedByHost
  <2>4. Replaced'
    BY DEF IInv, Replaced, ReadyRuns, BoxesArePast, MergeIsOver, IdleIsOver,
           TargetIsPast, RelaunchesGone, Relaunching, BothStruck, Gone, Logged
  <2>5. RelaunchesAreRecorded' /\ Lineage'
    BY DEF IInv, RelaunchesAreRecorded, Lineage, WakesDoNotAdjust, OriginLogged,
           OriginBehindOffset, OriginKnown, OriginBehind, LineageGoesBack, Origin,
           Success, Failure, LoggedBefore, LoggedBy, Started, Logged
  <2>6. Closing'
    BY DEF IInv, Closing, OutcomesNameTargets, Assigned, DecidedIsStored, Decided
  <2> QED BY <2>1, <2>2, <2>3, <2>4, <2>5, <2>6 DEF IInv
<1>2. CASE Next
  <2>1. PICK p \in Procs : Acts(p)
    BY <1>2 DEF Next, Acts
  <2>2. Lineage'
    BY <2>1, WakesStep, OriginLoggedStep, OriginBehindStep, GoesBackStep
       DEF IInv, Lineage, Replaced
  <2>3. Closing'
    BY <2>1, ClosingKept DEF IInv, Replaced
  <2> QED BY <2>1, <2>2, <2>3, NextTyped, OrderStep, SettledStep, ReplacedStep, RecordedStep DEF IInv
<1> QED BY <1>1, <1>2

\* What holds of every reachable state: the types, and what the stages, the log,
\* the store and docker say of each other.
LEMMA ChainInvariant == Spec => []IInv
BY InitIInv, NextIInv, PTL DEF Spec

\* Every part of the state keeps its type: no command acts on a session it does
\* not have, and every record appended has its fields.
THEOREM TypeCorrect == Spec => []TypeOK
<1>1. IInv => TypeOK
  BY DEF IInv, Typed
<1> QED BY <1>1, ChainInvariant, PTL

\* A running container has its session_start in the log, whatever became of the
\* command that launched it (docker_cmd.run_shell).
THEOREM RunningIsAlwaysLogged == Spec => []RunningIsLogged
<1>1. IInv => RunningIsLogged
  BY DEF IInv, Order
<1> QED BY <1>1, ChainInvariant, PTL

\* A relaunch that returned is recorded as failed only if its session never
\* started: the search after the offset cannot overlook the start, however many
\* other commands append to the log (session_log.find_session_start_after_offset).
THEOREM FailuresAreTrue == Spec => []FailureIsTrue
<1>1. IInv => FailureIsTrue
  BY DEF IInv, Order
<1> QED BY <1>1, ChainInvariant, PTL

\* Only a command that another operator gave can take a request away from
\* review, whatever the cells write into their files (requests._load_request).
THEOREM OperatorsSettle == Spec => []OnlyOperatorsSettle
<1>1. IInv => OnlyOperatorsSettle
  BY DEF IInv, Settled, TurnedAwayByOther, Settles, OnlyOperatorsSettle
<1> QED BY <1>1, ChainInvariant, PTL

\* No cell reads a denial or an error that the host has not put into the audit log,
\* whatever the cells emit into it, also when several commands work on one request
\* (requests.mark_resolved).
THEOREM RefusalsAlwaysAudited == Spec => []RefusalsAreAudited
<1>1. IInv => RefusalsAreAudited
  BY DEF IInv, Settled
<1> QED BY <1>1, ChainInvariant, PTL

\* A session never runs beside the one that replaces it, unless docker failed
\* both to stop it and to say that it runs: no other faults, and no number of
\* overlapping commands, bring it about (adjust_session, find_wakeable).
THEOREM ReplacedNeverRunsOn == Spec => [](BothStruck \/ NeverBoth)
<1>1. IInv => BothStruck \/ NeverBoth
  BY DEF IInv, Replaced, RelaunchesGone, Relaunching, Gone, NeverBoth
<1> QED BY <1>1, ChainInvariant, PTL

\* A relaunch that is over is in the log as what it was, once by the host, before
\* its request's status is written, whatever else is appended meanwhile, cells'
\* records included: only death or a failed append keeps it out (adjust_session,
\* resume_session).
THEOREM RelaunchesAlwaysRecorded == Spec => []RelaunchesAreRecorded
<1>1. IInv => RelaunchesAreRecorded
  BY DEF IInv
<1> QED BY <1>1, ChainInvariant, PTL

\* What the host's records say of replacements never runs in a circle, nor ahead of
\* the sessions they name, and only sessions the log has as ended idle are woken:
\* also where concurrent launches make a record name the wrong session, or where
\* the idle end is one the cell emitted.
THEOREM LineagesGoBack == Spec => []LineageGoesBack
<1>1. IInv => LineageGoesBack
  BY DEF IInv, Lineage
<1> QED BY <1>1, ChainInvariant, PTL

\* An approve or a deny that comes to its end, by whichever way, leaves the
\* request a status in the host's store (requests.process_request).
THEOREM DecisionsAreStored == Spec => []DoneIsSettled
<1>1. IInv => DoneIsSettled
  BY DEF IInv, Closing, DecidedIsStored, Decided, DoneIsSettled, At, Recorded
<1> QED BY <1>1, ChainInvariant, PTL

\* However many wakes are given, one finds what another that is over resumed:
\* only two under way at once, an exception in the launch or death before the
\* record let a session be resumed twice (wake.find_wakeable, resume_session).
THEOREM WakesInTurnResumeOnce == Spec => WakesInTurn
<1>1. IInv /\ [Next]_vars => [LaterWakeRefused]_vars
  <2> SUFFICES ASSUME IInv, [Next]_vars, NEW p \in Procs, NEW q \in Procs,
                      At(p, "find"), pc'[p] = "probe",
                      cmd[q] = "wake", target[q] = target[p], Started(q),
                      At(q, "done"), ~ raised[q]
               PROVE  FALSE
    BY DEF LaterWakeRefused
  <2>1. LoggedBy({"woken"}, q)
    BY DEF IInv, RelaunchesAreRecorded, At, Success
  <2>2. PICK i \in DOMAIN log : log[i].event = "woken" /\ log[i].by = q
    BY <2>1 DEF LoggedBy
  <2>3. log[i].sid = target[p]
    BY <2>2, ChainConstants DEF IInv, Closing, OutcomesNameTargets, Outcomes
  <2>4. Logged("woken", target[p])
    BY <2>2, <2>3 DEF Logged
  <2>5. PICK r \in Procs : Acts(r)
    BY DEF Next, Acts, vars, At
  <2>6. r = p
    BY <2>5, OthersStay DEF IInv, Stays, At
  <2>7. Find(p)
    BY <2>5, <2>6, ClosingMoved DEF ClosingStep, IInv, Closing, Replaced, At
  <2> QED BY <2>4, <2>7 DEF Find, GoTo, IInv, Typed, TypeOK
<1> QED BY <1>1, InitIInv, NextIInv, PTL DEF Spec, WakesInTurn

=============================================================================
