-------------------------- MODULE EgressRouteProofs --------------------------
(***************************************************************************)
(* Proofs about EgressRoute, for any set of launchers, any number of       *)
(* faults and any timing constants with StartWindow + ProbeGap <= Grace.   *)
(***************************************************************************)
EXTENDS EgressRoute, TLAPS

-----------------------------------------------------------------------------
(* Facts about the constant tables *)

\* The plan of a mode is a non-empty sequence.
LEMMA PlanIsSequence ==
  ASSUME NEW m \in Modes
  PROVE  /\ Len(Plan[m]) \in Nat \ {0}
         /\ DOMAIN Plan[m] = 1 .. Len(Plan[m])
<1>1. CASE m = "mediated"
  BY <1>1 DEF Plan
<1>2. CASE m = "onecli"
  BY <1>2 DEF Plan
<1>3. CASE m = "hybrid"
  BY <1>3 DEF Plan
<1> QED BY <1>1, <1>2, <1>3 DEF Modes

\* Every resource of a mode's route has its step in the mode's plan.
LEMMA PlanCoversRoute ==
  ASSUME NEW m \in Modes, NEW r \in Route[m]
  PROVE  \E i \in 1 .. Len(Plan[m]) : Plan[m][i] = r
<1>1. CASE m = "mediated"
  <2>1. r \in {"key", "int", "egress", "broker", "brokerOnEgress"}
    BY <1>1 DEF Route, BrokerResources
  <2>2. /\ Len(Plan[m]) = 8
        /\ Plan[m][3] = "key" /\ Plan[m][4] = "int" /\ Plan[m][5] = "egress"
        /\ Plan[m][6] = "broker" /\ Plan[m][7] = "brokerOnEgress"
    BY <1>1 DEF Plan
  <2> QED BY <2>1, <2>2
<1>2. CASE m = "onecli"
  <2>1. r \in {"link", "gwOnLink", "shim", "shimOnLink", "oc"}
    BY <1>2 DEF Route, ShimResources
  <2>2. /\ Len(Plan[m]) = 9
        /\ Plan[m][2] = "oc" /\ Plan[m][5] = "link" /\ Plan[m][6] = "gwOnLink"
        /\ Plan[m][7] = "shim" /\ Plan[m][8] = "shimOnLink"
    BY <1>2 DEF Plan
  <2> QED BY <2>1, <2>2
<1>3. CASE m = "hybrid"
  <2>1. r \in {"key", "int", "egress", "broker", "brokerOnEgress",
               "link", "gwOnLink", "shim", "shimOnLink"}
    BY <1>3 DEF Route, BrokerResources, ShimResources
  <2>2. /\ Len(Plan[m]) = 15
        /\ Plan[m][3] = "key" /\ Plan[m][4] = "int" /\ Plan[m][5] = "egress"
        /\ Plan[m][6] = "broker" /\ Plan[m][7] = "brokerOnEgress"
        /\ Plan[m][11] = "link" /\ Plan[m][12] = "gwOnLink"
        /\ Plan[m][13] = "shim" /\ Plan[m][14] = "shimOnLink"
    BY <1>3 DEF Plan
  <2> QED BY <2>1, <2>2
<1> QED BY <1>1, <1>2, <1>3 DEF Modes

\* What a sweep removes are resources.
LEMMA SweepOrderIsResources ==
  ASSUME NEW k \in ReapSteps
  PROVE  Elements(SweepOrder[k]) \subseteq Resources
  BY DEF ReapSteps, SweepOrder, Elements, Resources, BrokerResources, ShimResources

LEMMA RouteIsResources ==
  ASSUME NEW m \in Modes
  PROVE  Route[m] \subseteq Resources
  BY DEF Modes, Route, Resources, BrokerResources, ShimResources

-----------------------------------------------------------------------------
(* Type correctness *)

\* Sweeps deal with sessions, and clean-ups with resources.
LEMMA ActorsAreKnown ==
  ASSUME TypeOK, NEW s \in Sessions
  PROVE  /\ sweep[s].todo \subseteq Sessions /\ sweep[s].victim \subseteq Sessions
         /\ sweep[s].left \subseteq Resources
         /\ undo[s] \subseteq Resources
  BY DEF TypeOK, SweepStates

LEMMA InitTypeOK == Init => TypeOK
<1> SUFFICES ASSUME Init PROVE TypeOK
  OBVIOUS
<1> QED
  BY ConstantsAssumption
     DEF Init, TypeOK, SweepStates, NoSweep, Fresh, NeverStarted, Modes, Anchors

LEMMA AdvanceType ==
  ASSUME TypeOK, NEW s \in Sessions, pc[s] = "bring", Advance(s)
  PROVE  /\ pc' \in [Sessions -> {"idle", "bring", "start", "cell", "down", "done", "crashed"}]
         /\ step' \in [Sessions -> Nat \ {0}]
         /\ \A t \in Sessions : pc'[t] = "bring" => step'[t] \in DOMAIN Plan[mode[t]]
<1>1. /\ Len(Plan[mode[s]]) \in Nat \ {0}
      /\ \A t \in Sessions : DOMAIN Plan[mode[t]] = 1 .. Len(Plan[mode[t]])
  BY PlanIsSequence DEF TypeOK
<1>2. step[s] \in 1 .. Len(Plan[mode[s]])
  BY <1>1 DEF TypeOK
<1>3. CASE step[s] = Len(Plan[mode[s]])
  BY <1>3 DEF Advance, TypeOK
<1>4. CASE step[s] # Len(Plan[mode[s]])
  <2>1. step[s] + 1 \in 1 .. Len(Plan[mode[s]])
    BY <1>1, <1>2, <1>4
  <2>2. pc' = pc /\ step' = [step EXCEPT ![s] = @ + 1] /\ step \in [Sessions -> Nat \ {0}]
    BY <1>4 DEF Advance, TypeOK
  <2>3. step' \in [Sessions -> Nat \ {0}] /\ step'[s] = step[s] + 1
    BY <2>2
  <2>4. \A t \in Sessions : pc'[t] = "bring" => step'[t] \in DOMAIN Plan[mode[t]]
    BY <1>1, <2>1, <2>2, <2>3 DEF TypeOK
  <2> QED
    BY <2>2, <2>3, <2>4 DEF TypeOK
<1> QED BY <1>3, <1>4

LEMMA TearDownType ==
  ASSUME TypeOK, NEW s \in Sessions, TearDown(s)
  PROVE  /\ pc' \in [Sessions -> {"idle", "bring", "start", "cell", "down", "done", "crashed"}]
         /\ step' \in [Sessions -> Nat \ {0}]
         /\ \A t \in Sessions : pc'[t] = "bring" => step'[t] \in DOMAIN Plan[mode[t]]
         /\ made' \in [Sessions -> SUBSET Resources]
         /\ undo' \in [Sessions -> SUBSET Resources]
  BY DEF TearDown, TypeOK

\* A removal takes away at most what is there.
LEMMA RemovedShrinks ==
  ASSUME NEW t \in Sessions, NEW r \in Resources
  PROVE  Removed(t, r) \subseteq res[t]
  BY DEF Removed

LEMMA RemovedType ==
  ASSUME res \in [Sessions -> SUBSET Resources], NEW t \in Sessions, NEW r \in Resources,
         \/ res' = res
         \/ res' = [res EXCEPT ![t] = Removed(t, r)]
  PROVE  res' \in [Sessions -> SUBSET Resources]
<1>1. Removed(t, r) \in SUBSET Resources
  BY RemovedShrinks
<1> QED BY <1>1

\* A removal changes one session's resources, and only to remove some.
LEMMA RemoveType ==
  ASSUME TypeOK, NEW t \in Sessions, NEW r \in Resources, Remove(t, r)
  PROVE  /\ res' \in [Sessions -> SUBSET Resources]
         /\ res'[t] \subseteq res[t]
         /\ \A u \in Sessions \ {t} : res'[u] = res[u]
         /\ faults' \in 0 .. MaxFaults
<1>1. CASE res' = [res EXCEPT ![t] = Removed(t, r)] /\ faults' = faults
  BY <1>1, RemovedShrinks DEF TypeOK
<1>2. CASE res' = res /\ Fault("rm")
  BY <1>2, ConstantsAssumption DEF TypeOK, Fault
<1> QED BY <1>1, <1>2 DEF Remove

LEMMA NextTypeOK == TypeOK /\ [Next]_vars => TypeOK'
<1> SUFFICES ASSUME TypeOK, [Next]_vars PROVE TypeOK'
  OBVIOUS
<1> USE ConstantsAssumption DEF TypeOK, SweepStates
<1>1. ASSUME NEW s \in Sessions, NEW m \in Modes, Launch(s, m) PROVE TypeOK'
  BY <1>1, PlanIsSequence DEF Launch
<1>2. ASSUME NEW s \in Sessions, Check(s) PROVE TypeOK'
  BY <1>2, AdvanceType DEF Check, AtStep
<1>3. ASSUME NEW s \in Sessions, Create(s) PROVE TypeOK'
  BY <1>3, AdvanceType DEF Create, AtStep, NeverStarted
<1>4. ASSUME NEW s \in Sessions, StepFails(s) PROVE TypeOK'
  BY <1>4, TearDownType DEF StepFails
<1>5. ASSUME NEW s \in Sessions, CreateFailsLate(s) PROVE TypeOK'
  <2>1. PICK born \in {0, NeverStarted} :
          age' = IF Step(s) \in Anchors THEN [age EXCEPT ![s][Step(s)] = born] ELSE age
    BY <1>5 DEF CreateFailsLate
  <2>2. age' \in [Sessions -> [Anchors -> 0 .. NeverStarted]]
    BY <2>1 DEF NeverStarted
  <2> QED BY <1>5, <2>2, TearDownType DEF CreateFailsLate, AtStep, Fault
<1>6. ASSUME NEW s \in Sessions, ReapList(s) PROVE TypeOK'
  BY <1>6 DEF ReapList, Probing, Fault
<1>7. ASSUME NEW s \in Sessions, NEW t \in Sessions, ReapProbe(s, t) PROVE TypeOK'
  BY <1>7 DEF ReapProbe, Probing, Holding, Fault
<1>8. ASSUME NEW s \in Sessions, NEW t \in Sessions, ReapAge(s, t) PROVE TypeOK'
  <2>1. Step(s) \in ReapSteps
    BY <1>8 DEF ReapAge, AtStep
  <2>2. Elements(SweepOrder[Step(s)]) \in SUBSET Resources
    BY <2>1, SweepOrderIsResources
  <2>3. /\ Probing(sweep[s].todo) \in SweepStates
        /\ Removing(sweep[s].todo, t, Elements(SweepOrder[Step(s)])) \in SweepStates
    BY <2>2 DEF Probing, Removing
  <2>4. sweep' \in [Sessions -> SweepStates]
    <3>1. \/ sweep' = [sweep EXCEPT ![s] = Probing(sweep[s].todo)]
          \/ sweep' = [sweep EXCEPT ![s] =
               Removing(sweep[s].todo, t, Elements(SweepOrder[Step(s)]))]
      BY <1>8 DEF ReapAge
    <3>2. sweep \in [Sessions -> SweepStates]
      BY DEF TypeOK
    <3> HIDE DEF SweepStates
    <3> QED BY <2>3, <3>1, <3>2
  <2>5. /\ mode' = mode /\ pc' = pc /\ step' = step /\ made' = made /\ undo' = undo
        /\ lost' = lost /\ res' = res /\ cell' = cell /\ age' = age /\ faults' = faults
    <3> HIDE DEF TypeOK, SweepStates
    <3> QED BY <1>8 DEF ReapAge
  <2> HIDE DEF SweepStates
  <2> QED BY <2>4, <2>5
<1>9. ASSUME NEW s \in Sessions, NEW t \in Sessions, NEW r \in Resources,
             ReapRemove(s, t, r)
      PROVE  TypeOK'
  <2>1. /\ Probing(sweep[s].todo) \in SweepStates
        /\ Removing(sweep[s].todo, t, sweep[s].left \ {r}) \in SweepStates
    BY DEF Probing, Removing
  <2>2. sweep' \in [Sessions -> SweepStates]
    BY <1>9, <2>1 DEF ReapRemove
  <2> QED BY <1>9, <2>2, RemoveType DEF ReapRemove
<1>10. ASSUME NEW s \in Sessions, ReapEnd(s) PROVE TypeOK'
  BY <1>10, AdvanceType DEF ReapEnd, AtStep, NoSweep
<1>11. ASSUME NEW s \in Sessions, ReapTimesOut(s) PROVE TypeOK'
  <2>1. res' \in [Sessions -> SUBSET Resources]
    <3>1. sweep[s].victim \subseteq Sessions
      OBVIOUS
    <3>2. ASSUME NEW t \in sweep[s].victim, NEW r \in Resources \ {"key"},
                 res' = [res EXCEPT ![t] = Removed(t, r)]
          PROVE  res' \in [Sessions -> SUBSET Resources]
      BY <3>1, <3>2, RemovedShrinks
    <3> QED BY <1>11, <3>2 DEF ReapTimesOut
  <2>2. sweep' \in [Sessions -> SweepStates]
    BY <1>11 DEF ReapTimesOut, NoSweep
  <2> QED BY <1>11, <2>1, <2>2, AdvanceType DEF ReapTimesOut, AtStep, Fault
<1>12. ASSUME NEW s \in Sessions, StartCell(s) PROVE TypeOK'
  BY <1>12 DEF StartCell
<1>13. ASSUME NEW s \in Sessions, RunShellFails(s) PROVE TypeOK'
  BY <1>13, TearDownType DEF RunShellFails
<1>14. ASSUME NEW s \in Sessions, NEW r \in Resources, Undo(s, r) PROVE TypeOK'
  <2>1. res' \in [Sessions -> SUBSET Resources]
    <3>1. res' = res \/ res' = [res EXCEPT ![s] = Removed(s, r)]
      BY <1>14 DEF Undo
    <3> QED BY <3>1, RemovedType
  <2>2. lost' \in [Sessions -> SUBSET Resources]
    <3>1. lost' = lost \/ lost' = [lost EXCEPT ![s] = @ \cup ({r} \cap res[s])]
      <4> HIDE DEF TypeOK, SweepStates
      <4> QED BY <1>14 DEF Undo
    <3>2. lost \in [Sessions -> SUBSET Resources]
      OBVIOUS
    <3> HIDE DEF TypeOK, SweepStates
    <3> QED BY <3>1, <3>2
  <2> QED BY <1>14, <2>1, <2>2 DEF Undo, Fault
<1>15. ASSUME NEW s \in Sessions, NEW r \in Resources, UndoTimesOut(s, r) PROVE TypeOK'
  <2>1. res' \in [Sessions -> SUBSET Resources]
    BY <1>15, RemovedType DEF UndoTimesOut
  <2>2. PICK cut \in SUBSET Resources : /\ undo' = [undo EXCEPT ![s] = @ \ cut]
                                        /\ lost' = [lost EXCEPT ![s] = @ \cup (cut \cap res'[s])]
    <3>1. undo[s] \in SUBSET Resources /\ {r} \in SUBSET Resources
      OBVIOUS
    <3> HIDE DEF TypeOK, SweepStates
    <3> QED BY <1>15, <3>1 DEF UndoTimesOut
  <2>3. undo' \in [Sessions -> SUBSET Resources] /\ lost' \in [Sessions -> SUBSET Resources]
    <3>1. undo \in [Sessions -> SUBSET Resources] /\ lost \in [Sessions -> SUBSET Resources]
      OBVIOUS
    <3> HIDE DEF TypeOK, SweepStates
    <3> QED BY <2>1, <2>2, <3>1
  <2>4. /\ UNCHANGED << mode, pc, step, made, cell, age, sweep >>
        /\ faults' = faults + 1 /\ faults < MaxFaults
    <3> HIDE DEF TypeOK, SweepStates
    <3> QED BY <1>15 DEF UndoTimesOut, Fault
  <2> QED BY <2>1, <2>3, <2>4
<1>16. ASSUME NEW s \in Sessions, Finish(s) PROVE TypeOK'
  BY <1>16 DEF Finish
<1>17. ASSUME NEW s \in Sessions, CellExit(s) PROVE TypeOK'
  <2>1. CASE pc[s] = "cell"
    BY <1>17, <2>1, TearDownType DEF CellExit
  <2>2. CASE pc[s] # "cell"
    BY <1>17, <2>2 DEF CellExit
  <2> QED BY <2>1, <2>2
<1>18. ASSUME NEW s \in Sessions, Abandon(s) PROVE TypeOK'
  <2>1. CellNet[mode[s]] \in Resources
    BY DEF CellNet, Modes, Resources, BrokerResources
  <2> QED BY <1>18, <2>1, TearDownType DEF Abandon, Fault
<1>19. ASSUME NEW s \in Sessions, Crash(s) PROVE TypeOK'
  BY <1>19 DEF Crash, NoSweep, Fault
<1>20. ASSUME NEW s \in Sessions, Retire(s) PROVE TypeOK'
  BY <1>20 DEF Retire, Fresh, NeverStarted, Modes
<1>21. CASE Tick
  <2>1. \A n \in 0 .. NeverStarted : Older(n) \in 0 .. NeverStarted
    BY DEF Older, NeverStarted
  <2>2. age' \in [Sessions -> [Anchors -> 0 .. NeverStarted]]
    BY <1>21, <2>1 DEF Tick
  <2>3. ASSUME NEW s \in Sessions, sweep[s].phase = "age"
        PROVE  Waiting(sweep[s]) \in SweepStates
    <3>1. sweep[s].gap + 1 \in 0 .. ProbeGap
      BY <1>21, <2>3 DEF Tick
    <3> QED BY <3>1, sweep[s] \in SweepStates DEF Waiting
  <2>4. sweep' \in [Sessions -> SweepStates]
    BY <1>21, <2>3 DEF Tick
  <2> QED BY <1>21, <2>2, <2>4 DEF Tick
<1>22. CASE UNCHANGED vars
  BY <1>22 DEF vars
<1>23. ASSUME NEW s \in Sessions, StepRaises(s) PROVE TypeOK'
  BY <1>23 DEF StepRaises, Fault
<1> QED
  BY <1>1, <1>2, <1>3, <1>4, <1>5, <1>6, <1>7, <1>8, <1>9, <1>10, <1>11,
     <1>12, <1>13, <1>14, <1>15, <1>16, <1>17, <1>18, <1>19, <1>20, <1>21,
     <1>22, <1>23, ActorsAreKnown DEF Next, Launcher, Reap

\* Every variable keeps its type.
THEOREM TypeCorrect == Spec => []TypeOK
  BY InitTypeOK, NextTypeOK, PTL DEF Spec

-----------------------------------------------------------------------------
(* What one step does to one session *)

Same(t) ==
  /\ pc'[t] = pc[t] /\ mode'[t] = mode[t] /\ step'[t] = step[t]
  /\ cell'[t] => cell[t]
  /\ pc[t] = "cell" => cell'[t] = cell[t]

Launched(t) ==
  /\ pc[t] = "idle" /\ pc'[t] = "bring" /\ step'[t] = 1
  /\ cell'[t] => cell[t]

Advanced(t) ==
  /\ pc[t] = "bring" /\ mode'[t] = mode[t] /\ cell'[t] = cell[t]
  /\ Step(t) \in Resources => Step(t) \in res'[t]
  /\ \/ pc'[t] = "start" /\ step[t] = Len(Plan[mode[t]])
     \/ pc'[t] = "bring" /\ step'[t] = step[t] + 1

CellStarted(t) ==
  pc[t] = "start" /\ pc'[t] = "cell" /\ mode'[t] = mode[t] /\ cell'[t]

Ended(t) ==
  /\ pc[t] \in {"bring", "start", "cell", "down"}
  /\ pc'[t] \in {"down", "done", "crashed"} /\ mode'[t] = mode[t]
  /\ cell'[t] => cell[t]

Retired(t) ==
  /\ pc[t] \in {"done", "crashed"} /\ pc'[t] = "idle"
  /\ res'[t] = {} /\ ~ cell'[t]
  /\ \A u \in Sessions : /\ sweep'[u] = sweep[u]
                        /\ t \notin sweep[u].todo \cup sweep[u].victim

LifeStep(t) ==
  \/ Same(t) \/ Launched(t) \/ Advanced(t)
  \/ CellStarted(t) \/ Ended(t) \/ Retired(t)

\* A step that advances s moves no other session.
LEMMA AdvanceIsLifeStep ==
  ASSUME TypeOK, NEW s \in Sessions, pc[s] = "bring", Advance(s),
         mode' = mode, cell' = cell,
         Step(s) \in Resources => Step(s) \in res'[s]
  PROVE  \A t \in Sessions : LifeStep(t)
<1> SUFFICES ASSUME NEW t \in Sessions PROVE LifeStep(t)
  OBVIOUS
<1>1. CASE t = s
  BY <1>1 DEF TypeOK, Advance, Advanced, LifeStep
<1>2. CASE t # s
  BY <1>2 DEF TypeOK, Advance, Same, LifeStep
<1> QED BY <1>1, <1>2

\* A step that begins the clean-up of s moves no other session.
LEMMA TearDownIsLifeStep ==
  ASSUME TypeOK, NEW s \in Sessions, pc[s] \in {"bring", "start", "cell"},
         TearDown(s), mode' = mode,
         \/ cell' = cell
         \/ cell' = [cell EXCEPT ![s] = FALSE]
  PROVE  \A t \in Sessions : LifeStep(t)
<1> SUFFICES ASSUME NEW t \in Sessions PROVE LifeStep(t)
  OBVIOUS
<1>1. CASE t = s
  BY <1>1 DEF TypeOK, TearDown, Ended, LifeStep
<1>2. CASE t # s
  BY <1>2 DEF TypeOK, TearDown, Same, LifeStep
<1> QED BY <1>1, <1>2

LEMMA NextIsLifeStep ==
  ASSUME TypeOK, [Next]_vars
  PROVE  \A t \in Sessions : LifeStep(t)
<1> DEFINE Goal == \A t \in Sessions : LifeStep(t)
<1>1. ASSUME NEW s \in Sessions, NEW m \in Modes, Launch(s, m) PROVE Goal
  BY <1>1 DEF TypeOK, Launch, LifeStep, Launched, Same
<1>2. ASSUME NEW s \in Sessions, Check(s) PROVE Goal
  <2>1. Step(s) \notin Resources
    BY <1>2 DEF Check, AtStep, CheckSteps, Resources, BrokerResources, ShimResources
  <2> QED BY <1>2, <2>1, AdvanceIsLifeStep DEF Check, AtStep
<1>3. ASSUME NEW s \in Sessions, Create(s) PROVE Goal
  <2>1. Step(s) \in res'[s]
    BY <1>3 DEF Create, TypeOK
  <2> QED BY <1>3, <2>1, AdvanceIsLifeStep DEF Create, AtStep
<1>4. ASSUME NEW s \in Sessions, StepFails(s) PROVE Goal
  BY <1>4, TearDownIsLifeStep DEF StepFails, AtStep
<1>5. ASSUME NEW s \in Sessions, CreateFailsLate(s) PROVE Goal
  BY <1>5, TearDownIsLifeStep DEF CreateFailsLate, AtStep
<1>6. ASSUME NEW s \in Sessions, ReapList(s) PROVE Goal
  BY <1>6 DEF ReapList, LifeStep, Same
<1>7. ASSUME NEW s \in Sessions, NEW t \in Sessions, ReapProbe(s, t) PROVE Goal
  BY <1>7 DEF ReapProbe, LifeStep, Same
<1>8. ASSUME NEW s \in Sessions, NEW t \in Sessions, ReapAge(s, t) PROVE Goal
  BY <1>8 DEF ReapAge, LifeStep, Same
<1>9. ASSUME NEW s \in Sessions, NEW t \in Sessions, NEW r \in Resources,
             ReapRemove(s, t, r)
      PROVE  Goal
  BY <1>9 DEF ReapRemove, LifeStep, Same
<1>10. ASSUME NEW s \in Sessions, ReapEnd(s) PROVE Goal
  <2>1. Step(s) \notin Resources
    BY <1>10 DEF ReapEnd, AtStep, ReapSteps, Resources, BrokerResources, ShimResources
  <2> QED BY <1>10, <2>1, AdvanceIsLifeStep DEF ReapEnd, AtStep
<1>11. ASSUME NEW s \in Sessions, ReapTimesOut(s) PROVE Goal
  <2>1. Step(s) \notin Resources
    BY <1>11 DEF ReapTimesOut, AtStep, Resources, BrokerResources, ShimResources
  <2> QED BY <1>11, <2>1, AdvanceIsLifeStep DEF ReapTimesOut, AtStep
<1>12. ASSUME NEW s \in Sessions, StartCell(s) PROVE Goal
  BY <1>12 DEF TypeOK, StartCell, LifeStep, CellStarted, Same
<1>13. ASSUME NEW s \in Sessions, RunShellFails(s) PROVE Goal
  BY <1>13, TearDownIsLifeStep DEF RunShellFails
<1>14. ASSUME NEW s \in Sessions, NEW r \in Resources, Undo(s, r) PROVE Goal
  BY <1>14 DEF Undo, LifeStep, Same
<1>15. ASSUME NEW s \in Sessions, NEW r \in Resources, UndoTimesOut(s, r) PROVE Goal
  BY <1>15 DEF UndoTimesOut, LifeStep, Same
<1>16. ASSUME NEW s \in Sessions, Finish(s) PROVE Goal
  BY <1>16 DEF TypeOK, Finish, LifeStep, Ended, Same
<1>17. ASSUME NEW s \in Sessions, CellExit(s) PROVE Goal
  <2>1. CASE pc[s] = "cell"
    BY <1>17, <2>1, TearDownIsLifeStep DEF CellExit
  <2>2. CASE pc[s] # "cell"
    BY <1>17, <2>2 DEF TypeOK, CellExit, LifeStep, Same
  <2> QED BY <2>1, <2>2
<1>18. ASSUME NEW s \in Sessions, Abandon(s) PROVE Goal
  BY <1>18, TearDownIsLifeStep DEF Abandon
<1>19. ASSUME NEW s \in Sessions, Crash(s) PROVE Goal
  BY <1>19 DEF TypeOK, Crash, LifeStep, Ended, Same
<1>20. ASSUME NEW s \in Sessions, Retire(s) PROVE Goal
  BY <1>20 DEF TypeOK, Retire, LifeStep, Retired, Same
<1>21. CASE Tick
  BY <1>21 DEF Tick, LifeStep, Same
<1>22. CASE UNCHANGED vars
  BY <1>22 DEF vars, LifeStep, Same
<1>23. ASSUME NEW s \in Sessions, StepRaises(s) PROVE Goal
  BY <1>23 DEF TypeOK, StepRaises, AtStep, LifeStep, Ended, Same
<1> QED
  BY <1>1, <1>2, <1>3, <1>4, <1>5, <1>6, <1>7, <1>8, <1>9, <1>10, <1>11,
     <1>12, <1>13, <1>14, <1>15, <1>16, <1>17, <1>18, <1>19, <1>20, <1>21,
     <1>22, <1>23, ActorsAreKnown DEF Next, Launcher, Reap

-----------------------------------------------------------------------------
(* What one step does to what exists *)

\* Resources appear only in a bring-up, and disappear only in a clean-up or
\* under a sweep that holds the session.
ResStep(t) ==
  /\ res'[t] \subseteq res[t] \/ pc[t] = "bring"
  /\ \/ res[t] \subseteq res'[t]
     \/ pc[t] = "down"
     \/ \E s \in Sessions : sweep[s].phase = "rm" /\ t \in sweep[s].victim

LEMMA NextIsResStep ==
  ASSUME TypeOK, [Next]_vars
  PROVE  \A t \in Sessions : ResStep(t)
<1> DEFINE Goal == \A t \in Sessions : ResStep(t)
<1>1. ASSUME NEW s \in Sessions, NEW m \in Modes, Launch(s, m) PROVE Goal
  BY <1>1 DEF Launch, ResStep
<1>2. ASSUME NEW s \in Sessions, Check(s) PROVE Goal
  BY <1>2 DEF Check, ResStep
<1>3. ASSUME NEW s \in Sessions, Create(s) PROVE Goal
  BY <1>3 DEF Create, AtStep, ResStep, TypeOK
<1>4. ASSUME NEW s \in Sessions, StepFails(s) PROVE Goal
  BY <1>4 DEF StepFails, ResStep
<1>5. ASSUME NEW s \in Sessions, CreateFailsLate(s) PROVE Goal
  BY <1>5 DEF CreateFailsLate, AtStep, ResStep, TypeOK
<1>6. ASSUME NEW s \in Sessions, ReapList(s) PROVE Goal
  BY <1>6 DEF ReapList, ResStep
<1>7. ASSUME NEW s \in Sessions, NEW t \in Sessions, ReapProbe(s, t) PROVE Goal
  BY <1>7 DEF ReapProbe, ResStep
<1>8. ASSUME NEW s \in Sessions, NEW t \in Sessions, ReapAge(s, t) PROVE Goal
  BY <1>8 DEF ReapAge, ResStep
<1>9. ASSUME NEW s \in Sessions, NEW t \in Sessions, NEW r \in Resources,
             ReapRemove(s, t, r)
      PROVE Goal
  BY <1>9, RemoveType DEF ReapRemove, ResStep
<1>10. ASSUME NEW s \in Sessions, ReapEnd(s) PROVE Goal
  BY <1>10 DEF ReapEnd, ResStep
<1>11. ASSUME NEW s \in Sessions, ReapTimesOut(s) PROVE Goal
  <2>1. CASE res' = res
    BY <2>1 DEF ResStep
  <2>2. ASSUME NEW u \in sweep[s].victim, NEW r \in Resources, sweep[s].phase = "rm",
               res' = [res EXCEPT ![u] = Removed(u, r)]
        PROVE  Goal
    <3>1. u \in Sessions
      BY DEF TypeOK, SweepStates
    <3> QED BY <2>2, <3>1, RemovedShrinks DEF ResStep, TypeOK
  <2> QED BY <1>11, <2>1, <2>2 DEF ReapTimesOut
<1>12. ASSUME NEW s \in Sessions, StartCell(s) PROVE Goal
  BY <1>12 DEF StartCell, ResStep
<1>13. ASSUME NEW s \in Sessions, RunShellFails(s) PROVE Goal
  BY <1>13 DEF RunShellFails, ResStep
<1>14. ASSUME NEW s \in Sessions, NEW r \in Resources, Undo(s, r) PROVE Goal
  BY <1>14, RemovedShrinks DEF Undo, ResStep, TypeOK
<1>15. ASSUME NEW s \in Sessions, NEW r \in Resources, UndoTimesOut(s, r) PROVE Goal
  <2>1. Removed(s, r) \subseteq res[s]
    BY RemovedShrinks
  <2> QED BY <1>15, <2>1 DEF UndoTimesOut, ResStep, TypeOK
<1>16. ASSUME NEW s \in Sessions, Finish(s) PROVE Goal
  BY <1>16 DEF Finish, ResStep
<1>17. ASSUME NEW s \in Sessions, CellExit(s) PROVE Goal
  BY <1>17 DEF CellExit, ResStep
<1>18. ASSUME NEW s \in Sessions, Abandon(s) PROVE Goal
  BY <1>18 DEF Abandon, ResStep
<1>19. ASSUME NEW s \in Sessions, Crash(s) PROVE Goal
  BY <1>19 DEF Crash, ResStep
<1>20. ASSUME NEW s \in Sessions, Retire(s) PROVE Goal
  BY <1>20 DEF Retire, ResStep
<1>21. CASE Tick
  BY <1>21 DEF Tick, ResStep
<1>22. CASE UNCHANGED vars
  BY <1>22 DEF vars, ResStep
<1>23. ASSUME NEW s \in Sessions, StepRaises(s) PROVE Goal
  BY <1>23 DEF StepRaises, ResStep
<1> QED
  BY <1>1, <1>2, <1>3, <1>4, <1>5, <1>6, <1>7, <1>8, <1>9, <1>10, <1>11,
     <1>12, <1>13, <1>14, <1>15, <1>16, <1>17, <1>18, <1>19, <1>20, <1>21,
     <1>22, <1>23, ActorsAreKnown DEF Next, Launcher, Reap

\* A session in use loses nothing: no sweep removes from under it.
LEMMA ResourcesKept ==
  ASSUME TypeOK, SweepOnlyOrphans, [Next]_vars,
         NEW t \in Sessions, pc[t] \in {"bring", "start", "cell"}
  PROVE  res[t] \subseteq res'[t]
  BY NextIsResStep DEF ResStep, SweepOnlyOrphans, Orphan

-----------------------------------------------------------------------------
(* What one step does to a sweep *)

Swept(s) ==
  /\ sweep'[s].phase \in {"off", "probe"} /\ sweep'[s].victim = {}
  /\ \A t \in sweep'[s].todo : t \in sweep[s].todo \/ res[t] # {}

Held(s) ==
  /\ sweep'[s].phase = "age" /\ sweep'[s].gap = 0
  /\ sweep'[s].todo \subseteq sweep[s].todo
  /\ \A t \in sweep'[s].victim : t \in sweep[s].todo /\ ~ cell[t]
  /\ UNCHANGED << pc, cell, res, age >>

Condemned(s) ==
  /\ sweep[s].phase = "age" /\ sweep'[s].phase = "rm"
  /\ sweep'[s].todo = sweep[s].todo
  /\ \A t \in sweep'[s].victim :
       /\ t \in sweep[s].victim
       /\ \E a \in Anchors \cap res[t] : OlderThanGrace(t, a)
  /\ UNCHANGED << pc, cell >>

Removes(s) ==
  /\ sweep[s].phase = "rm" /\ sweep'[s].phase = "rm"
  /\ sweep'[s].todo = sweep[s].todo
  /\ sweep'[s].victim \subseteq sweep[s].victim

Waited(s) ==
  /\ sweep[s].phase = "age" /\ sweep'[s].phase = "age"
  /\ sweep'[s].todo = sweep[s].todo /\ sweep'[s].victim = sweep[s].victim
  /\ sweep'[s].gap = sweep[s].gap + 1

SweepStep(s) ==
  \/ sweep'[s] = sweep[s]
  \/ Swept(s) \/ Held(s) \/ Condemned(s) \/ Removes(s) \/ Waited(s)

\* With probes that answer, a sweep holds only sessions without a cell and
\* condemns only those with an anchor older than the grace.
LEMMA NextIsSweepStep ==
  ASSUME TypeOK, "probe" \notin Faults, [Next]_vars
  PROVE  \A s \in Sessions : SweepStep(s)
<1> DEFINE Goal == \A u \in Sessions : SweepStep(u)
<1>1. ASSUME NEW s \in Sessions, NEW m \in Modes, Launch(s, m) PROVE Goal
  BY <1>1 DEF Launch, SweepStep
<1>2. ASSUME NEW s \in Sessions, Check(s) PROVE Goal
  BY <1>2 DEF Check, SweepStep
<1>3. ASSUME NEW s \in Sessions, Create(s) PROVE Goal
  BY <1>3 DEF Create, SweepStep
<1>4. ASSUME NEW s \in Sessions, StepFails(s) PROVE Goal
  BY <1>4 DEF StepFails, SweepStep
<1>5. ASSUME NEW s \in Sessions, CreateFailsLate(s) PROVE Goal
  BY <1>5 DEF CreateFailsLate, SweepStep
<1>6. ASSUME NEW s \in Sessions, ReapList(s) PROVE Goal
  <2>1. /\ sweep' = [sweep EXCEPT ![s] = Probing({u \in Sessions : AnchorOf(s) \in res[u]})]
    BY <1>6 DEF ReapList, Fault
  <2>2. Swept(s)
    BY <2>1 DEF Swept, Probing, TypeOK
  <2> QED BY <2>1, <2>2 DEF SweepStep, TypeOK
<1>7. ASSUME NEW s \in Sessions, NEW t \in Sessions, ReapProbe(s, t) PROVE Goal
  <2>1. CASE cell[t]
    <3>1. sweep' = [sweep EXCEPT ![s] = Probing(sweep[s].todo \ {t})]
      BY <1>7, <2>1 DEF ReapProbe, SeenLive, Fault, TypeOK
    <3>2. Swept(s)
      BY <3>1 DEF Swept, Probing, TypeOK
    <3> QED BY <3>1, <3>2 DEF SweepStep, TypeOK
  <2>2. CASE ~ cell[t]
    <3>1. sweep' = [sweep EXCEPT ![s] = Holding(sweep[s].todo \ {t}, t)]
      BY <1>7, <2>2 DEF ReapProbe, SeenLive, TypeOK
    <3>2. Held(s)
      BY <1>7, <2>2, <3>1 DEF ReapProbe, Held, Holding, TypeOK
    <3> QED BY <3>1, <3>2 DEF SweepStep, TypeOK
  <2> QED BY <2>1, <2>2
<1>8. ASSUME NEW s \in Sessions, NEW t \in Sessions, ReapAge(s, t) PROVE Goal
  <2>1. AnchorOf(s) \in Anchors
    BY DEF AnchorOf, Anchors
  <2>2. CASE /\ OlderThanGrace(t, AnchorOf(s)) /\ AnchorOf(s) \in res[t]
             /\ sweep' = [sweep EXCEPT ![s] =
                  Removing(sweep[s].todo, t, Elements(SweepOrder[Step(s)]))]
    <3>1. Condemned(s)
      BY <1>8, <2>1, <2>2 DEF ReapAge, Condemned, Removing, TypeOK
    <3> QED BY <2>2, <3>1 DEF SweepStep, TypeOK
  <2>3. CASE sweep' = [sweep EXCEPT ![s] = Probing(sweep[s].todo)]
    <3>1. Swept(s)
      BY <2>3 DEF Swept, Probing, TypeOK
    <3> QED BY <2>3, <3>1 DEF SweepStep, TypeOK
  <2> QED BY <1>8, <2>2, <2>3 DEF ReapAge
<1>9. ASSUME NEW s \in Sessions, NEW t \in Sessions, NEW r \in Resources,
             ReapRemove(s, t, r)
      PROVE Goal
  <2>1. CASE sweep' = [sweep EXCEPT ![s] = Probing(sweep[s].todo)]
    <3>1. Swept(s)
      BY <2>1 DEF Swept, Probing, TypeOK
    <3> QED BY <2>1, <3>1 DEF SweepStep, TypeOK
  <2>2. CASE sweep' = [sweep EXCEPT ![s] = Removing(sweep[s].todo, t, sweep[s].left \ {r})]
    <3>1. Removes(s)
      BY <1>9, <2>2 DEF ReapRemove, Removes, Removing, TypeOK
    <3> QED BY <2>2, <3>1 DEF SweepStep, TypeOK
  <2> QED BY <1>9, <2>1, <2>2 DEF ReapRemove, TypeOK
<1>10. ASSUME NEW s \in Sessions, ReapEnd(s) PROVE Goal
  BY <1>10 DEF ReapEnd, NoSweep, Swept, SweepStep, TypeOK
<1>11. ASSUME NEW s \in Sessions, ReapTimesOut(s) PROVE Goal
  BY <1>11 DEF ReapTimesOut, NoSweep, Swept, SweepStep, TypeOK
<1>12. ASSUME NEW s \in Sessions, StartCell(s) PROVE Goal
  BY <1>12 DEF StartCell, SweepStep
<1>13. ASSUME NEW s \in Sessions, RunShellFails(s) PROVE Goal
  BY <1>13 DEF RunShellFails, SweepStep
<1>14. ASSUME NEW s \in Sessions, NEW r \in Resources, Undo(s, r) PROVE Goal
  BY <1>14 DEF Undo, SweepStep
<1>15. ASSUME NEW s \in Sessions, NEW r \in Resources, UndoTimesOut(s, r) PROVE Goal
  BY <1>15 DEF UndoTimesOut, SweepStep
<1>16. ASSUME NEW s \in Sessions, Finish(s) PROVE Goal
  BY <1>16 DEF Finish, SweepStep
<1>17. ASSUME NEW s \in Sessions, CellExit(s) PROVE Goal
  BY <1>17 DEF CellExit, SweepStep
<1>18. ASSUME NEW s \in Sessions, Abandon(s) PROVE Goal
  BY <1>18 DEF Abandon, SweepStep
<1>19. ASSUME NEW s \in Sessions, Crash(s) PROVE Goal
  BY <1>19 DEF Crash, NoSweep, Swept, SweepStep, TypeOK
<1>20. ASSUME NEW s \in Sessions, Retire(s) PROVE Goal
  BY <1>20 DEF Retire, SweepStep
<1>21. CASE Tick
  <2> SUFFICES ASSUME NEW s \in Sessions PROVE SweepStep(s)
    OBVIOUS
  <2>1. CASE sweep[s].phase = "age"
    <3>1. sweep'[s] = Waiting(sweep[s])
      BY <1>21, <2>1 DEF Tick
    <3>2. Waited(s)
      BY <2>1, <3>1 DEF Waited, Waiting
    <3> QED BY <3>2 DEF SweepStep
  <2>2. CASE sweep[s].phase # "age"
    BY <1>21, <2>2 DEF Tick, SweepStep
  <2> QED BY <2>1, <2>2
<1>22. CASE UNCHANGED vars
  BY <1>22 DEF vars, SweepStep
<1>23. ASSUME NEW s \in Sessions, StepRaises(s) PROVE Goal
  BY <1>23 DEF StepRaises, SweepStep
<1> QED
  BY <1>1, <1>2, <1>3, <1>4, <1>5, <1>6, <1>7, <1>8, <1>9, <1>10, <1>11,
     <1>12, <1>13, <1>14, <1>15, <1>16, <1>17, <1>18, <1>19, <1>20, <1>21,
     <1>22, <1>23, ActorsAreKnown DEF Next, Launcher, Reap

-----------------------------------------------------------------------------
(* What one step does to the age of an anchor *)

\* Time passed: not beyond the start window, and every waiting sweep noticed.
Ticked(t, a) ==
  /\ a \in res[t] /\ age'[t][a] <= age[t][a] + 1
  /\ pc[t] \in {"bring", "start"} => age[t][a] < StartWindow
  /\ UNCHANGED << pc, cell >>
  /\ \A s \in Sessions : sweep[s].phase = "age" => Waited(s)
  /\ \A s \in Sessions : sweep[s].phase # "age" => sweep'[s] = sweep[s]

\* The command that creates the anchor fails, and the bring-up with it.
Aborted(t) == pc[t] = "bring" /\ pc'[t] = "down" /\ cell'[t] = cell[t]

AgeStep(t) ==
  \A a \in Anchors \cap res'[t] :
    \/ a \in res[t] /\ age'[t][a] = age[t][a]
    \/ age'[t][a] = 0
    \/ Aborted(t)
    \/ Ticked(t, a)

LEMMA NextIsAgeStep ==
  ASSUME TypeOK, [Next]_vars
  PROVE  \A t \in Sessions : AgeStep(t)
<1> DEFINE Goal == \A t \in Sessions : AgeStep(t)
<1>1. ASSUME NEW s \in Sessions, NEW m \in Modes, Launch(s, m) PROVE Goal
  BY <1>1 DEF Launch, AgeStep
<1>2. ASSUME NEW s \in Sessions, Check(s) PROVE Goal
  BY <1>2 DEF Check, AgeStep
<1>3. ASSUME NEW s \in Sessions, Create(s) PROVE Goal
  <2> SUFFICES ASSUME NEW t \in Sessions, NEW a \in Anchors \cap res'[t]
               PROVE  (a \in res[t] /\ age'[t][a] = age[t][a]) \/ age'[t][a] = 0
    BY DEF AgeStep
  <2>1. CASE t = s /\ a = Step(s)
    BY <1>3, <2>1 DEF Create, TypeOK
  <2>2. CASE t # s \/ a # Step(s)
    <3>1. a \in res[t]
      BY <1>3, <2>2 DEF Create, TypeOK
    <3>2. age'[t][a] = age[t][a]
      BY <1>3, <2>2 DEF Create, TypeOK
    <3> QED BY <3>1, <3>2
  <2> QED BY <2>1, <2>2
<1>4. ASSUME NEW s \in Sessions, StepFails(s) PROVE Goal
  BY <1>4 DEF StepFails, AgeStep
<1>5. ASSUME NEW s \in Sessions, CreateFailsLate(s) PROVE Goal
  <2> SUFFICES ASSUME NEW t \in Sessions, NEW a \in Anchors \cap res'[t]
               PROVE  (a \in res[t] /\ age'[t][a] = age[t][a]) \/ Aborted(t)
    BY DEF AgeStep
  <2>1. CASE t = s
    BY <1>5, <2>1 DEF CreateFailsLate, AtStep, TearDown, Aborted, TypeOK
  <2>2. CASE t # s
    <3>1. a \in res[t]
      BY <1>5, <2>2 DEF CreateFailsLate, TypeOK
    <3>2. age'[t] = age[t]
      BY <1>5, <2>2 DEF CreateFailsLate, TypeOK
    <3> QED BY <3>1, <3>2
  <2> QED BY <2>1, <2>2
<1>6. ASSUME NEW s \in Sessions, ReapList(s) PROVE Goal
  BY <1>6 DEF ReapList, AgeStep
<1>7. ASSUME NEW s \in Sessions, NEW t \in Sessions, ReapProbe(s, t) PROVE Goal
  BY <1>7 DEF ReapProbe, AgeStep
<1>8. ASSUME NEW s \in Sessions, NEW t \in Sessions, ReapAge(s, t) PROVE Goal
  BY <1>8 DEF ReapAge, AgeStep
<1>9. ASSUME NEW s \in Sessions, NEW t \in Sessions, NEW r \in Resources,
             ReapRemove(s, t, r)
      PROVE Goal
  BY <1>9, RemoveType DEF ReapRemove, AgeStep
<1>10. ASSUME NEW s \in Sessions, ReapEnd(s) PROVE Goal
  BY <1>10 DEF ReapEnd, AgeStep
<1>11. ASSUME NEW s \in Sessions, ReapTimesOut(s) PROVE Goal
  <2>1. \A t \in Sessions : res'[t] \subseteq res[t]
    <3>1. ASSUME NEW u \in sweep[s].victim, NEW r \in Resources,
                 res' = [res EXCEPT ![u] = Removed(u, r)]
          PROVE  \A t \in Sessions : res'[t] \subseteq res[t]
      <4>1. u \in Sessions
        BY DEF TypeOK, SweepStates
      <4> QED BY <3>1, <4>1, RemovedShrinks DEF TypeOK
    <3> QED BY <1>11, <3>1 DEF ReapTimesOut
  <2> QED BY <1>11, <2>1 DEF ReapTimesOut, AgeStep
<1>12. ASSUME NEW s \in Sessions, StartCell(s) PROVE Goal
  BY <1>12 DEF StartCell, AgeStep
<1>13. ASSUME NEW s \in Sessions, RunShellFails(s) PROVE Goal
  BY <1>13 DEF RunShellFails, AgeStep
<1>14. ASSUME NEW s \in Sessions, NEW r \in Resources, Undo(s, r) PROVE Goal
  BY <1>14, RemovedShrinks DEF Undo, AgeStep, TypeOK
<1>15. ASSUME NEW s \in Sessions, NEW r \in Resources, UndoTimesOut(s, r) PROVE Goal
  <2>1. \A t \in Sessions : res'[t] \subseteq res[t]
    <3>1. CASE res' = res
      BY <3>1
    <3>2. CASE res' = [res EXCEPT ![s] = Removed(s, r)]
      BY <3>2, RemovedShrinks DEF TypeOK
    <3> QED BY <1>15, <3>1, <3>2 DEF UndoTimesOut
  <2> QED BY <1>15, <2>1 DEF UndoTimesOut, AgeStep
<1>16. ASSUME NEW s \in Sessions, Finish(s) PROVE Goal
  BY <1>16 DEF Finish, AgeStep
<1>17. ASSUME NEW s \in Sessions, CellExit(s) PROVE Goal
  BY <1>17 DEF CellExit, AgeStep
<1>18. ASSUME NEW s \in Sessions, Abandon(s) PROVE Goal
  BY <1>18 DEF Abandon, AgeStep
<1>19. ASSUME NEW s \in Sessions, Crash(s) PROVE Goal
  BY <1>19 DEF Crash, AgeStep
<1>20. ASSUME NEW s \in Sessions, Retire(s) PROVE Goal
  BY <1>20 DEF Retire, AgeStep, Fresh, TypeOK
<1>21. CASE Tick
  <2> SUFFICES ASSUME NEW t \in Sessions, NEW a \in Anchors \cap res'[t]
               PROVE  Ticked(t, a)
    BY DEF AgeStep
  <2>1. a \in res[t] /\ age'[t][a] = Older(age[t][a])
    BY <1>21 DEF Tick
  <2>2. age[t][a] \in Nat
    BY <2>1, ConstantsAssumption DEF TypeOK, NeverStarted
  <2>3. age'[t][a] <= age[t][a] + 1
    BY <2>1, <2>2, ConstantsAssumption DEF Older
  <2>4. pc[t] \in {"bring", "start"} => age[t][a] < StartWindow
    BY <1>21, <2>1 DEF Tick
  <2>5. ASSUME NEW s \in Sessions, sweep[s].phase = "age" PROVE Waited(s)
    <3>1. sweep'[s] = Waiting(sweep[s])
      BY <1>21, <2>5 DEF Tick
    <3> QED BY <2>5, <3>1 DEF Waited, Waiting
  <2>6. \A s \in Sessions : sweep[s].phase # "age" => sweep'[s] = sweep[s]
    BY <1>21 DEF Tick
  <2> QED BY <1>21, <2>1, <2>3, <2>4, <2>5, <2>6 DEF Ticked, Tick
<1>22. CASE UNCHANGED vars
  BY <1>22 DEF vars, AgeStep
<1>23. ASSUME NEW s \in Sessions, StepRaises(s) PROVE Goal
  BY <1>23 DEF StepRaises, AgeStep
<1> QED
  BY <1>1, <1>2, <1>3, <1>4, <1>5, <1>6, <1>7, <1>8, <1>9, <1>10, <1>11,
     <1>12, <1>13, <1>14, <1>15, <1>16, <1>17, <1>18, <1>19, <1>20, <1>21,
     <1>22, <1>23, ActorsAreKnown DEF Next, Launcher, Reap

-----------------------------------------------------------------------------
(* The inductive invariant *)

LEMMA InitIInv == Init => IInv
<1> SUFFICES ASSUME Init PROVE IInv
  OBVIOUS
<1>1. \A s \in Sessions : /\ pc[s] = "idle" /\ res[s] = {}
                          /\ sweep[s].phase = "off"
                          /\ sweep[s].todo = {} /\ sweep[s].victim = {}
  BY DEF Init, NoSweep
<1>2. /\ RouteIntact /\ SweepOnlyOrphans /\ BringUpProgress /\ CellRuns
      /\ CellOnlyAfterStart /\ IdleIsFresh /\ StartsInTime /\ SweepsKnownSessions
      /\ ProbedIsOrphanOrYoung
  BY <1>1 DEF Init, RouteIntact, SweepOnlyOrphans, BringUpProgress, CellRuns,
     CellOnlyAfterStart, IdleIsFresh, StartsInTime, SweepsKnownSessions, ProbedIsOrphanOrYoung
<1> QED BY <1>2, InitTypeOK DEF IInv

\* What the plan has passed is there, and stays.
LEMMA BringUpKept == IInv /\ [Next]_vars => BringUpProgress'
<1> SUFFICES ASSUME IInv, [Next]_vars, NEW s \in Sessions, pc'[s] = "bring",
                    NEW i \in 1 .. step'[s] - 1, Plan[mode'[s]][i] \in Resources
             PROVE  Plan[mode'[s]][i] \in res'[s]
  BY DEF BringUpProgress
<1> USE DEF IInv
<1>1. LifeStep(s)
  BY NextIsLifeStep
<1>2. CASE Same(s)
  BY <1>2, ResourcesKept DEF Same, BringUpProgress
<1>3. CASE Launched(s)
  BY <1>3 DEF Launched
<1>4. CASE Advanced(s)
  <2>1. step'[s] = step[s] + 1 /\ step[s] \in Nat \ {0} /\ mode'[s] = mode[s]
    BY <1>4 DEF Advanced, TypeOK
  <2>2. CASE i = step[s]
    BY <1>4, <2>1, <2>2 DEF Advanced, Step
  <2>3. CASE i # step[s]
    <3>1. i \in 1 .. step[s] - 1
      BY <2>1, <2>3
    <3> QED BY <1>4, <2>1, <3>1, ResourcesKept DEF Advanced, BringUpProgress
  <2> QED BY <2>2, <2>3
<1> QED BY <1>1, <1>2, <1>3, <1>4 DEF LifeStep, CellStarted, Ended, Retired

\* A route complete when run_shell is called stays complete while the cell runs.
LEMMA RouteKept == IInv /\ [Next]_vars => RouteIntact'
<1> SUFFICES ASSUME IInv, [Next]_vars, NEW s \in Sessions, pc'[s] \in {"start", "cell"},
                    NEW r \in Route[mode'[s]]
             PROVE  r \in res'[s]
  BY DEF RouteIntact
<1> USE DEF IInv
<1>1. LifeStep(s)
  BY NextIsLifeStep
<1>2. CASE Same(s)
  BY <1>2, ResourcesKept DEF Same, RouteIntact
<1>3. CASE Advanced(s)
  <2>1. /\ pc[s] = "bring" /\ mode'[s] = mode[s] /\ mode[s] \in Modes
        /\ step[s] = Len(Plan[mode[s]])
    BY <1>3 DEF Advanced, TypeOK
  <2>2. PICK i \in 1 .. Len(Plan[mode[s]]) : Plan[mode[s]][i] = r
    BY <2>1, PlanCoversRoute
  <2>3. r \in Resources
    BY <2>1, RouteIsResources
  <2>4. CASE i = step[s]
    BY <1>3, <2>2, <2>3, <2>4 DEF Advanced, Step
  <2>5. CASE i # step[s]
    <3>1. i \in 1 .. step[s] - 1
      BY <2>1, <2>5, PlanIsSequence
    <3>2. r \in res[s]
      BY <2>1, <2>2, <2>3, <3>1 DEF BringUpProgress
    <3> QED BY <2>1, <3>2, ResourcesKept
  <2> QED BY <2>4, <2>5
<1>4. CASE CellStarted(s)
  BY <1>4, ResourcesKept DEF CellStarted, RouteIntact
<1> QED BY <1>1, <1>2, <1>3, <1>4 DEF LifeStep, Launched, Ended, Retired

LEMMA CellRunsKept == IInv /\ [Next]_vars => CellRuns'
<1> SUFFICES ASSUME IInv, [Next]_vars, NEW s \in Sessions, pc'[s] = "cell" PROVE cell'[s]
  BY DEF CellRuns
<1>1. LifeStep(s)
  BY NextIsLifeStep DEF IInv
<1> QED
  BY <1>1 DEF IInv, CellRuns, LifeStep, Same, Launched, Advanced, CellStarted, Ended, Retired

\* A cell runs only once its launcher has come to start it.
LEMMA CellOnlyKept == IInv /\ [Next]_vars => CellOnlyAfterStart'
<1> SUFFICES ASSUME IInv, [Next]_vars, NEW s \in Sessions, cell'[s]
             PROVE  pc'[s] \in {"cell", "down", "done", "crashed"}
  BY DEF CellOnlyAfterStart
<1>1. LifeStep(s)
  BY NextIsLifeStep DEF IInv
<1> QED
  BY <1>1 DEF IInv, TypeOK, CellOnlyAfterStart, LifeStep, Same, Launched, Advanced,
     CellStarted, Ended, Retired

LEMMA FreshKept == TypeOK /\ IdleIsFresh /\ [Next]_vars => IdleIsFresh'
<1> SUFFICES ASSUME TypeOK, IdleIsFresh, [Next]_vars,
                    NEW s \in Sessions, pc'[s] = "idle"
             PROVE  res'[s] = {}
  BY DEF IdleIsFresh
<1>1. LifeStep(s) /\ ResStep(s)
  BY NextIsLifeStep, NextIsResStep
<1>2. CASE Retired(s)
  BY <1>2 DEF Retired
<1>3. CASE Same(s)
  BY <1>1, <1>3 DEF Same, ResStep, IdleIsFresh
<1> QED
  BY <1>1, <1>2, <1>3 DEF LifeStep, Launched, Advanced, CellStarted, Ended

\* An anchor of a session that is still starting is within the start window.
LEMMA StartKept == IInv /\ [Next]_vars => StartsInTime'
<1> SUFFICES ASSUME IInv, [Next]_vars, NEW s \in Sessions, pc'[s] \in {"bring", "start"},
                    NEW a \in Anchors \cap res'[s]
             PROVE  age'[s][a] <= StartWindow
  BY DEF StartsInTime, YoungerThan
<1> USE DEF IInv
<1>1. LifeStep(s) /\ ResStep(s) /\ AgeStep(s)
  BY NextIsLifeStep, NextIsResStep, NextIsAgeStep
<1>2. CASE pc[s] = "idle"
  BY <1>1, <1>2 DEF ResStep, IdleIsFresh
<1>3. CASE pc[s] \in {"bring", "start"}
  <2>1. CASE a \in res[s] /\ age'[s][a] = age[s][a]
    BY <1>3, <2>1 DEF StartsInTime, YoungerThan
  <2>2. CASE age'[s][a] = 0
    BY <2>2, ConstantsAssumption
  <2>3. CASE Ticked(s, a)
    <3>1. age[s][a] \in Nat /\ age'[s][a] \in Nat
      BY NextTypeOK, ConstantsAssumption DEF TypeOK, NeverStarted
    <3> QED BY <1>3, <2>3, <3>1, ConstantsAssumption DEF Ticked
  <2> QED BY <1>1, <2>1, <2>2, <2>3 DEF AgeStep, Aborted
<1> QED BY <1>1, <1>2, <1>3
        DEF LifeStep, Same, Launched, Advanced, CellStarted, Ended, Retired

\* A slot is not recycled while a sweep still refers to it.
LEMMA KnownKept ==
  IInv /\ "probe" \notin Faults /\ [Next]_vars => SweepsKnownSessions'
<1> SUFFICES ASSUME IInv, "probe" \notin Faults, [Next]_vars,
                    NEW s \in Sessions, NEW t \in Sessions,
                    t \in sweep'[s].todo \cup sweep'[s].victim
             PROVE  pc'[t] # "idle"
  BY DEF SweepsKnownSessions
<1> USE DEF IInv
<1>1. LifeStep(t) /\ SweepStep(s)
  BY NextIsLifeStep, NextIsSweepStep
<1>2. t \in sweep[s].todo \cup sweep[s].victim \/ res[t] # {}
  BY <1>1 DEF SweepStep, Swept, Held, Condemned, Removes, Waited
<1>3. pc[t] # "idle"
  BY <1>2 DEF SweepsKnownSessions, IdleIsFresh
<1>4. ~ Retired(t)
  BY DEF Retired
<1> QED BY <1>1, <1>3, <1>4 DEF LifeStep, Same, Launched, Advanced, CellStarted, Ended

\* An orphan that a sweep refers to stays one.
LEMMA OrphanKept ==
  ASSUME IInv, [Next]_vars, NEW s \in Sessions, NEW t \in Sessions,
         Orphan(t), t \in sweep'[s].victim
  PROVE  Orphan(t)'
<1>1. LifeStep(t)
  BY NextIsLifeStep DEF IInv
<1>2. ~ Retired(t)
  BY DEF Retired
<1> QED BY <1>1, <1>2
        DEF LifeStep, Same, Launched, Advanced, CellStarted, Ended, Orphan

\* Time enough: what a sweep holds is an orphan, or stays too young to condemn.
LEMMA ProbedKept ==
  IInv /\ "probe" \notin Faults /\ [Next]_vars => ProbedIsOrphanOrYoung'
<1> SUFFICES ASSUME IInv, "probe" \notin Faults, [Next]_vars,
                    NEW s \in Sessions, NEW t \in Sessions,
                    sweep'[s].phase = "age", t \in sweep'[s].victim,
                    ~ Orphan(t)'
             PROVE  YoungerThan(t, StartWindow + sweep[s].gap)'
  BY DEF ProbedIsOrphanOrYoung
<1> USE DEF IInv
<1>1. LifeStep(t) /\ AgeStep(t) /\ SweepStep(s) /\ TypeOK'
  BY NextIsLifeStep, NextIsAgeStep, NextIsSweepStep, NextTypeOK
<1>2. ~ Orphan(t)
  BY OrphanKept
<1>3. /\ sweep[s].gap \in Nat /\ sweep'[s].gap \in Nat
      /\ \A a \in Anchors : age[t][a] \in Nat /\ age'[t][a] \in Nat
  BY <1>1, ConstantsAssumption DEF TypeOK, SweepStates, NeverStarted
<1>4. CASE Held(s)
  <2>1. t \in sweep[s].todo /\ ~ cell[t] /\ sweep'[s].gap = 0
    BY <1>4 DEF Held
  <2>2. pc[t] \in {"bring", "start"}
    BY <1>2, <2>1 DEF SweepsKnownSessions, CellRuns, Orphan, TypeOK
  <2>3. YoungerThan(t, StartWindow)
    BY <2>2 DEF StartsInTime
  <2> QED BY <1>4, <2>1, <2>3, ConstantsAssumption DEF YoungerThan, Held
<1>5. CASE sweep[s].phase = "age" /\ t \in sweep[s].victim
           /\ (sweep'[s] = sweep[s] \/ Waited(s))
  <2>1. YoungerThan(t, StartWindow + sweep[s].gap)
    BY <1>2, <1>5 DEF ProbedIsOrphanOrYoung
  <2>2. sweep[s].gap <= sweep'[s].gap
    BY <1>3, <1>5 DEF Waited
  <2> SUFFICES ASSUME NEW a \in Anchors \cap res'[t]
               PROVE  age'[t][a] <= StartWindow + sweep'[s].gap
    BY DEF YoungerThan
  <2>3. CASE a \in res[t] /\ age'[t][a] = age[t][a]
    BY <1>3, <2>1, <2>2, <2>3, ConstantsAssumption DEF YoungerThan
  <2>4. CASE age'[t][a] = 0
    BY <1>3, <2>4, ConstantsAssumption
  <2>5. CASE Ticked(t, a)
    <3>1. sweep'[s].gap = sweep[s].gap + 1
      BY <1>5, <2>5 DEF Ticked, Waited
    <3>2. age[t][a] <= StartWindow + sweep[s].gap
      BY <2>1, <2>5 DEF YoungerThan, Ticked
    <3> QED BY <1>3, <2>5, <3>1, <3>2, ConstantsAssumption DEF Ticked
  <2>6. ~ Aborted(t)
    BY DEF Aborted, CellOnlyAfterStart, Orphan
  <2> QED BY <1>1, <2>3, <2>4, <2>5, <2>6 DEF AgeStep
<1>6. \/ Held(s)
      \/ sweep[s].phase = "age" /\ t \in sweep[s].victim
         /\ (sweep'[s] = sweep[s] \/ Waited(s))
  BY <1>1 DEF SweepStep, Swept, Condemned, Removes, Waited
<1> QED BY <1>4, <1>5, <1>6

\* The grace outlasts the start window and the gap between the two queries, so
\* only orphans are condemned.
LEMMA SweepKept ==
  IInv /\ GraceCoversStart /\ [Next]_vars => SweepOnlyOrphans'
<1> SUFFICES ASSUME IInv, GraceCoversStart, [Next]_vars,
                    NEW s \in Sessions, sweep'[s].phase = "rm",
                    NEW t \in sweep'[s].victim
             PROVE  Orphan(t)'
  BY DEF SweepOnlyOrphans
<1> USE DEF IInv
<1>1. TypeOK' /\ SweepStep(s)
  BY NextTypeOK, NextIsSweepStep DEF GraceCoversStart
<1>2. t \in Sessions
  BY <1>1 DEF TypeOK, SweepStates
<1>3. CASE Condemned(s)
  <2>1. t \in sweep[s].victim
    BY <1>3 DEF Condemned
  <2>2. PICK a \in Anchors \cap res[t] : OlderThanGrace(t, a)
    BY <1>3 DEF Condemned
  <2>3. /\ sweep[s].gap \in Nat /\ sweep[s].gap <= ProbeGap
        /\ age[t][a] \in Nat
    BY <1>2, ConstantsAssumption DEF TypeOK, SweepStates, NeverStarted
  <2>4. ~ YoungerThan(t, StartWindow + sweep[s].gap)
    BY <2>2, <2>3, ConstantsAssumption
       DEF YoungerThan, OlderThanGrace, GraceCoversStart
  <2>5. Orphan(t)
    BY <1>2, <1>3, <2>1, <2>4 DEF ProbedIsOrphanOrYoung, Condemned
  <2> QED BY <1>2, <2>5, OrphanKept
<1>4. CASE sweep[s].phase = "rm" /\ t \in sweep[s].victim
  BY <1>2, <1>4, OrphanKept DEF SweepOnlyOrphans
<1> QED BY <1>1, <1>3, <1>4 DEF SweepStep, Swept, Held, Removes, Waited

LEMMA NextIInv == IInv /\ GraceCoversStart /\ [Next]_vars => IInv'
  BY NextTypeOK, RouteKept, SweepKept, BringUpKept, CellRunsKept, CellOnlyKept,
     FreshKept, StartKept, KnownKept, ProbedKept DEF IInv, GraceCoversStart

\* With a grace that covers the start window and the sweep's own delay, and
\* queries that answer, no interleaving of launches, crashes, failed removals
\* and timeouts leaves a cell on half a route.
THEOREM RouteStaysIntact ==
  ASSUME GraceCoversStart
  PROVE  Spec => []RouteIntact
<1>1. IInv /\ [Next]_vars => IInv'
  BY NextIInv
<1>2. IInv => RouteIntact
  BY DEF IInv
<1> QED BY InitIInv, <1>1, <1>2, PTL DEF Spec

\* Under the same assumption a sweep takes only from sessions that are over.
THEOREM SweepSparesTheLiving ==
  ASSUME GraceCoversStart
  PROVE  Spec => []SweepOnlyOrphans
<1>1. IInv /\ [Next]_vars => IInv'
  BY NextIInv
<1>2. IInv => SweepOnlyOrphans
  BY DEF IInv
<1> QED BY InitIInv, <1>1, <1>2, PTL DEF Spec

-----------------------------------------------------------------------------
(* The refinement of RouteLease *)

\* A session whose route and cell a step leaves as they are.
Untouched(t) == (Whole(t)' <=> Whole(t)) /\ CellState(t)' = CellState(t)

\* What RouteLease allows with the one session a step may touch.
LeaseStep(s) ==
  \/ CellState(s) # "served" /\ CellState(s)' = CellState(s)
  \/ CellState(s) = "none" /\ CellState(s)' = "served" /\ Whole(s) /\ Whole(s)'
  \/ CellState(s) # "none" /\ CellState(s)' = "none" /\ (Whole(s)' <=> Whole(s))
  \/ CellState(s) = "served" /\ CellState(s)' = "stray" /\ (Whole(s)' <=> Whole(s))

OneTouched ==
  \/ \A t \in Sessions : Untouched(t)
  \/ \E s \in Sessions :
       LeaseStep(s) /\ \A t \in Sessions \ {s} : Untouched(t)

\* A step that changes neither resources nor modes, and no cell from served.
LEMMA QuietStep ==
  ASSUME NEW s \in Sessions, TypeOK, res' = res, mode' = mode, cell' = cell,
         pc[s] # "cell", pc'[s] # "cell",
         \A t \in Sessions \ {s} : pc'[t] = pc[t]
  PROVE  OneTouched
  BY DEF OneTouched, Untouched, Whole, CellState

\* A step that changes the resources of one session without a served cell.
LEMMA ResourceStep ==
  ASSUME NEW s \in Sessions, TypeOK, mode' = mode, cell' = cell,
         ~ cell[s] \/ (pc[s] # "cell" /\ pc'[s] # "cell"),
         \A t \in Sessions \ {s} : res'[t] = res[t] /\ pc'[t] = pc[t]
  PROVE  OneTouched
<1>1. LeaseStep(s)
  BY DEF LeaseStep, CellState
<1>2. \A t \in Sessions \ {s} : Untouched(t)
  BY DEF Untouched, Whole, CellState
<1> QED BY <1>1, <1>2 DEF OneTouched

\* A served session's launcher lets go of it, the container still running.
LEMMA LetGoStep ==
  ASSUME NEW s \in Sessions, TypeOK, res' = res, mode' = mode, cell' = cell,
         pc'[s] # "cell", \A t \in Sessions \ {s} : pc'[t] = pc[t]
  PROVE  OneTouched
<1>1. Untouched(s) \/ LeaseStep(s)
  BY DEF Untouched, LeaseStep, Whole, CellState
<1>2. \A t \in Sessions \ {s} : Untouched(t)
  BY DEF Untouched, Whole, CellState
<1> QED BY <1>1, <1>2 DEF OneTouched

LEMMA NextIsLeaseStep ==
  ASSUME IInv, [Next]_vars
  PROVE  OneTouched
<1> USE DEF IInv
<1>1. ASSUME NEW s \in Sessions, NEW m \in Modes, Launch(s, m) PROVE OneTouched
  <2>1. CellState(s) = "none" /\ CellState(s)' = "none"
    BY <1>1 DEF Launch, TypeOK, CellOnlyAfterStart, CellState
  <2>2. \A t \in Sessions \ {s} : Untouched(t)
    BY <1>1 DEF Launch, TypeOK, Untouched, Whole, CellState
  <2> QED BY <2>1, <2>2 DEF OneTouched, LeaseStep
<1>2. ASSUME NEW s \in Sessions, Check(s) PROVE OneTouched
  BY <1>2, QuietStep DEF Check, AtStep, Advance, TypeOK
<1>3. ASSUME NEW s \in Sessions, Create(s) PROVE OneTouched
  BY <1>3, ResourceStep DEF Create, AtStep, Advance, TypeOK
<1>4. ASSUME NEW s \in Sessions, StepFails(s) PROVE OneTouched
  BY <1>4, QuietStep DEF StepFails, AtStep, TearDown, TypeOK
<1>5. ASSUME NEW s \in Sessions, CreateFailsLate(s) PROVE OneTouched
  BY <1>5, ResourceStep DEF CreateFailsLate, AtStep, TearDown, TypeOK
<1>6. ASSUME NEW s \in Sessions, ReapList(s) PROVE OneTouched
  BY <1>6, QuietStep DEF ReapList, AtStep
<1>7. ASSUME NEW s \in Sessions, NEW t \in Sessions, ReapProbe(s, t) PROVE OneTouched
  BY <1>7, QuietStep DEF ReapProbe, AtStep
<1>8. ASSUME NEW s \in Sessions, NEW t \in Sessions, ReapAge(s, t) PROVE OneTouched
  BY <1>8, QuietStep DEF ReapAge, AtStep
<1>9. ASSUME NEW s \in Sessions, NEW t \in Sessions, NEW r \in Resources,
             ReapRemove(s, t, r)
      PROVE  OneTouched
  <2>1. ~ cell[t]
    BY <1>9 DEF ReapRemove, SweepOnlyOrphans, Orphan
  <2>2. mode' = mode /\ pc' = pc /\ cell' = cell
    BY <1>9 DEF ReapRemove
  <2>3. \A u \in Sessions \ {t} : res'[u] = res[u] /\ pc'[u] = pc[u]
    <3>1. \/ res' = res
          \/ res' = [res EXCEPT ![t] = Removed(t, r)]
      BY <1>9 DEF ReapRemove, Remove
    <3> QED BY <2>2, <3>1 DEF TypeOK
  <2> QED BY <2>1, <2>2, <2>3, ResourceStep
<1>10. ASSUME NEW s \in Sessions, ReapEnd(s) PROVE OneTouched
  BY <1>10, QuietStep DEF ReapEnd, AtStep, Advance, TypeOK
<1>11. ASSUME NEW s \in Sessions, ReapTimesOut(s) PROVE OneTouched
  <2>1. CASE res' = res
    <3>1. pc[s] = "bring" /\ Advance(s) /\ mode' = mode /\ cell' = cell
      BY <1>11 DEF ReapTimesOut, AtStep
    <3>2. pc'[s] # "cell" /\ \A t \in Sessions \ {s} : pc'[t] = pc[t]
      BY <3>1 DEF Advance, TypeOK
    <3> QED BY <2>1, <3>1, <3>2, QuietStep
  <2>2. ASSUME NEW t \in sweep[s].victim, NEW r \in Resources, sweep[s].phase = "rm",
               res' = [res EXCEPT ![t] = Removed(t, r)]
        PROVE  OneTouched
    <3>1. t \in Sessions
      BY DEF TypeOK, SweepStates
    <3>2. t # s /\ ~ cell[t]
      BY <1>11, <2>2 DEF ReapTimesOut, AtStep, SweepOnlyOrphans, Orphan
    <3>3. LeaseStep(t)
      BY <1>11, <3>1, <3>2 DEF ReapTimesOut, LeaseStep, CellState
    <3>4. \A u \in Sessions \ {t} : Untouched(u)
      <4> SUFFICES ASSUME NEW u \in Sessions \ {t} PROVE Untouched(u)
        OBVIOUS
      <4>1. res'[u] = res[u]
        BY <2>2 DEF TypeOK
      <4>2. CASE u = s
        BY <1>11, <4>1, <4>2 DEF ReapTimesOut, AtStep, Advance, TypeOK, Untouched,
           Whole, CellState
      <4>3. CASE u # s
        BY <1>11, <4>1, <4>3 DEF ReapTimesOut, Advance, TypeOK, Untouched, Whole,
           CellState
      <4> QED BY <4>2, <4>3
    <3> QED BY <3>1, <3>3, <3>4 DEF OneTouched
  <2> QED BY <1>11, <2>1, <2>2 DEF ReapTimesOut
<1>12. ASSUME NEW s \in Sessions, StartCell(s) PROVE OneTouched
  <2>1. Whole(s) /\ Whole(s)'
    BY <1>12 DEF StartCell, RouteIntact, Whole
  <2>2. CellState(s) = "none" /\ CellState(s)' = "served"
    BY <1>12 DEF StartCell, CellOnlyAfterStart, CellState, TypeOK
  <2>3. \A t \in Sessions \ {s} : Untouched(t)
    BY <1>12 DEF StartCell, TypeOK, Untouched, Whole, CellState
  <2> QED BY <2>1, <2>2, <2>3 DEF OneTouched, LeaseStep
<1>13. ASSUME NEW s \in Sessions, RunShellFails(s) PROVE OneTouched
  BY <1>13, QuietStep DEF RunShellFails, TearDown, TypeOK
<1>14. ASSUME NEW s \in Sessions, NEW r \in Resources, Undo(s, r) PROVE OneTouched
  BY <1>14, ResourceStep DEF Undo, TypeOK
<1>15. ASSUME NEW s \in Sessions, NEW r \in Resources, UndoTimesOut(s, r) PROVE OneTouched
  BY <1>15, ResourceStep DEF UndoTimesOut, TypeOK
<1>16. ASSUME NEW s \in Sessions, Finish(s) PROVE OneTouched
  BY <1>16, QuietStep DEF Finish, TypeOK
<1>17. ASSUME NEW s \in Sessions, CellExit(s) PROVE OneTouched
  <2>1. CellState(s) # "none" /\ CellState(s)' = "none" /\ (Whole(s)' <=> Whole(s))
    BY <1>17 DEF CellExit, CellState, Whole, TypeOK
  <2>2. \A t \in Sessions \ {s} : Untouched(t)
    BY <1>17 DEF CellExit, TearDown, TypeOK, Untouched, Whole, CellState
  <2> QED BY <2>1, <2>2 DEF OneTouched, LeaseStep
<1>18. ASSUME NEW s \in Sessions, Abandon(s) PROVE OneTouched
  BY <1>18, LetGoStep DEF Abandon, TearDown, TypeOK
<1>19. ASSUME NEW s \in Sessions, Crash(s) PROVE OneTouched
  BY <1>19, LetGoStep DEF Crash, TypeOK
<1>20. ASSUME NEW s \in Sessions, Retire(s) PROVE OneTouched
  <2>1. CellState(s) = "none" /\ CellState(s)' = "none"
    BY <1>20 DEF Retire, CellState
  <2>2. \A t \in Sessions \ {s} : Untouched(t)
    BY <1>20 DEF Retire, TypeOK, Untouched, Whole, CellState
  <2> QED BY <2>1, <2>2 DEF OneTouched, LeaseStep
<1>21. CASE Tick
  BY <1>21 DEF Tick, OneTouched, Untouched, Whole, CellState
<1>22. CASE UNCHANGED vars
  BY <1>22 DEF vars, OneTouched, Untouched, Whole, CellState
<1>23. ASSUME NEW s \in Sessions, StepRaises(s) PROVE OneTouched
  BY <1>23, QuietStep DEF StepRaises, AtStep, TypeOK
<1> QED
  BY <1>1, <1>2, <1>3, <1>4, <1>5, <1>6, <1>7, <1>8, <1>9, <1>10, <1>11,
     <1>12, <1>13, <1>14, <1>15, <1>16, <1>17, <1>18, <1>19, <1>20, <1>21,
     <1>22, <1>23, ActorsAreKnown DEF Next, Launcher, Reap

LEMMA LeaseStepIsNext == OneTouched => [Lease!Next]_(Lease!vars)
<1> DEFINE route == {s \in Sessions : Whole(s)}
           states == [s \in Sessions |-> CellState(s)]
<1>1. CASE \A t \in Sessions : Untouched(t)
  <2>1. route' = route /\ states' = states
    BY <1>1 DEF Untouched
  <2> QED BY <2>1 DEF Lease!vars
<1>2. ASSUME NEW s \in Sessions, LeaseStep(s),
             \A t \in Sessions \ {s} : Untouched(t)
      PROVE  [Lease!Next]_(Lease!vars)
  <2>1. states' = [states EXCEPT ![s] = CellState(s)']
    BY <1>2 DEF Untouched
  <2>2. /\ route' \in {route \cup {s}, route \ {s}}
        /\ (Whole(s)' <=> Whole(s)) => route' = route
    <3>1. CASE Whole(s)'
      <4>1. route' = route \cup {s}
        BY <1>2, <3>1 DEF Untouched
      <4> QED BY <3>1, <4>1
    <3>2. CASE ~ Whole(s)'
      <4>1. route' = route \ {s}
        BY <1>2, <3>2 DEF Untouched
      <4> QED BY <3>2, <4>1
    <3> QED BY <3>1, <3>2
  <2>3. CASE CellState(s) # "served" /\ CellState(s)' = CellState(s)
    <3>1. states' = states
      BY <2>1, <2>3
    <3> QED BY <2>2, <2>3, <3>1 DEF Lease!Next, Lease!Change
  <2>4. CASE /\ CellState(s) = "none" /\ CellState(s)' = "served"
             /\ Whole(s) /\ Whole(s)'
    BY <2>1, <2>2, <2>4 DEF Lease!Next, Lease!Serve
  <2>5. CASE /\ CellState(s) # "none" /\ CellState(s)' = "none"
             /\ (Whole(s)' <=> Whole(s))
    BY <2>1, <2>2, <2>5 DEF Lease!Next, Lease!End
  <2>6. CASE /\ CellState(s) = "served" /\ CellState(s)' = "stray"
             /\ (Whole(s)' <=> Whole(s))
    BY <2>1, <2>2, <2>6 DEF Lease!Next, Lease!LetGo
  <2> QED BY <1>2, <2>3, <2>4, <2>5, <2>6 DEF LeaseStep
<1> QED BY <1>1, <1>2 DEF OneTouched

LEMMA InitLease == Init => Lease!Init
<1> SUFFICES ASSUME Init PROVE Lease!Init
  OBVIOUS
<1>1. \A s \in Sessions : ~ Whole(s)
  <2>1. ASSUME NEW s \in Sessions PROVE mode[s] = "mediated" /\ res[s] = {}
    BY DEF Init
  <2>2. "key" \in Route["mediated"]
    BY DEF Route, BrokerResources
  <2> QED BY <2>1, <2>2 DEF Whole
<1>2. \A s \in Sessions : CellState(s) = "none"
  BY DEF Init, CellState
<1> QED BY <1>1, <1>2 DEF Lease!Init

\* Under the same assumption the launchers of EgressRoute, however many and
\* however they fail, implement RouteLease: a cell is served by a whole route
\* only, and the route stays whole until the cell ends or is let go.
THEOREM LeaseKept ==
  ASSUME GraceCoversStart
  PROVE  Spec => KeepsLease
<1>1. Init => Lease!Init /\ IInv
  BY InitLease, InitIInv
<1>2. IInv /\ [Next]_vars => IInv' /\ [Lease!Next]_(Lease!vars)
  BY NextIInv, NextIsLeaseStep, LeaseStepIsNext
<1> QED BY <1>1, <1>2, PTL DEF Spec, KeepsLease, Lease!Spec

-----------------------------------------------------------------------------
(* What one step does to what a launcher knows of its own resources *)

Unaware(t) ==
  /\ pc'[t] = pc[t] /\ made'[t] = made[t] /\ undo'[t] = undo[t]
  /\ lost'[t] = lost[t] /\ mode'[t] = mode[t]
  /\ res'[t] \subseteq res[t]
  /\ cell'[t] => cell[t]

Begins(t) ==
  pc[t] = "idle" /\ pc'[t] = "bring" /\ res'[t] = res[t] /\ cell'[t] = cell[t]

Records(t) ==
  /\ pc[t] = "bring" /\ pc'[t] \in {"bring", "start"} /\ cell'[t] = cell[t]
  /\ \E new \in SUBSET Resources :
       res'[t] \subseteq res[t] \cup new /\ made'[t] = made[t] \cup new

Serves(t) ==
  pc[t] = "start" /\ pc'[t] = "cell" /\ res'[t] = res[t] /\ made'[t] = made[t]

TearsDown(t) ==
  /\ pc[t] \in {"bring", "start", "cell"} /\ pc'[t] = "down" /\ mode'[t] = mode[t]
  /\ res'[t] \subseteq res[t] \cup lost'[t]
  /\ made[t] \cap Removables \subseteq undo'[t] \cup lost'[t]
  /\ cell'[t] => cell[t] /\ (pc[t] = "cell" => CellNet[mode[t]] \in lost'[t])

Undoes(t) ==
  /\ pc[t] = "down" /\ pc'[t] = "down" /\ cell'[t] = cell[t] /\ mode'[t] = mode[t]
  /\ lost[t] \subseteq lost'[t]
  /\ \E r \in Resources :
       /\ IsFirst(r, undo[t], TeardownOrder)
       /\ undo[t] \cap res'[t] \subseteq undo'[t] \cup lost'[t] \cup {r}
       /\ \/ res'[t] = Removed(t, r)
          \/ res'[t] = res[t] /\ (r \in res'[t] => r \in lost'[t])

Finishes(t) ==
  /\ pc[t] = "down" /\ pc'[t] = "done" /\ undo[t] = {}
  /\ res'[t] = res[t] /\ undo'[t] = undo[t] /\ cell'[t] = cell[t]
  /\ lost'[t] = lost[t] /\ mode'[t] = mode[t]

Leaves(t) == pc'[t] = "crashed" \/ (pc'[t] = "idle" /\ ~ cell'[t])

AccountStep(t) ==
  \/ Unaware(t) \/ Begins(t) \/ Records(t) \/ Serves(t)
  \/ TearsDown(t) \/ Undoes(t) \/ Finishes(t) \/ Leaves(t)

\* A step of s that starts the clean-up of all it has recorded.
LEMMA TearDownIsAccountStep ==
  ASSUME TypeOK, NEW s \in Sessions, pc[s] \in {"bring", "start", "cell"},
         TearDown(s), mode' = mode,
         res'[s] \subseteq res[s] \cup lost'[s],
         \A t \in Sessions \ {s} : res'[t] = res[t] /\ lost'[t] = lost[t],
         \/ cell' = cell /\ (pc[s] = "cell" => CellNet[mode[s]] \in lost'[s])
         \/ cell' = [cell EXCEPT ![s] = FALSE]
  PROVE  \A t \in Sessions : AccountStep(t)
<1> SUFFICES ASSUME NEW t \in Sessions PROVE AccountStep(t)
  OBVIOUS
<1>1. CASE t = s
  BY <1>1 DEF TypeOK, TearDown, TearsDown, Removables, AccountStep
<1>2. CASE t # s
  BY <1>2 DEF TypeOK, TearDown, Unaware, AccountStep
<1> QED BY <1>1, <1>2

\* A step of the bring-up of s: what it adds to the host, if anything, it
\* records.
LEMMA AdvanceIsAccountStep ==
  ASSUME TypeOK, NEW s \in Sessions, pc[s] = "bring", Advance(s),
         NEW new \in SUBSET Resources,
         res' = [res EXCEPT ![s] = @ \cup new],
         made' = [made EXCEPT ![s] = @ \cup new],
         undo' = undo, lost' = lost, mode' = mode, cell' = cell
  PROVE  \A t \in Sessions : AccountStep(t)
<1> SUFFICES ASSUME NEW t \in Sessions PROVE AccountStep(t)
  OBVIOUS
<1>1. CASE t = s
  BY <1>1 DEF TypeOK, Advance, Records, AccountStep
<1>2. CASE t # s
  BY <1>2 DEF TypeOK, Advance, Unaware, AccountStep
<1> QED BY <1>1, <1>2

\* The sweep of s takes from other sessions while s advances past it.
LEMMA CutSweepIsAccountStep ==
  ASSUME TypeOK, NEW s \in Sessions, pc[s] = "bring", Advance(s),
         \A t \in Sessions : res'[t] \subseteq res[t],
         made' = made, undo' = undo, lost' = lost, mode' = mode, cell' = cell
  PROVE  \A t \in Sessions : AccountStep(t)
<1> SUFFICES ASSUME NEW t \in Sessions PROVE AccountStep(t)
  OBVIOUS
<1>1. CASE t = s
  <2>1. res'[s] \subseteq res[s] \cup {} /\ made'[s] = made[s] \cup {} /\ {} \in SUBSET Resources
    OBVIOUS
  <2> QED BY <1>1, <2>1 DEF TypeOK, Advance, Records, AccountStep
<1>2. CASE t # s
  BY <1>2 DEF TypeOK, Advance, Unaware, AccountStep
<1> QED BY <1>1, <1>2

\* A step that changes nothing a launcher knows, and at most takes from res.
LEMMA SweepIsAccountStep ==
  ASSUME pc' = pc, made' = made, undo' = undo, lost' = lost, mode' = mode,
         cell' = cell, \A t \in Sessions : res'[t] \subseteq res[t]
  PROVE  \A t \in Sessions : AccountStep(t)
  BY DEF AccountStep, Unaware

\* A step of the clean-up of s that moves no other session.
LEMMA UndoIsAccountStep ==
  ASSUME TypeOK, NEW s \in Sessions, Undoes(s), mode' = mode, cell' = cell,
         \A t \in Sessions \ {s} :
           /\ pc'[t] = pc[t] /\ made'[t] = made[t] /\ undo'[t] = undo[t]
           /\ lost'[t] = lost[t] /\ res'[t] = res[t]
  PROVE  \A t \in Sessions : AccountStep(t)
  BY DEF AccountStep, Unaware

LEMMA NextIsAccountStep ==
  ASSUME TypeOK, [Next]_vars
  PROVE  \A t \in Sessions : AccountStep(t)
<1> DEFINE Goal == \A t \in Sessions : AccountStep(t)
<1>1. ASSUME NEW s \in Sessions, NEW m \in Modes, Launch(s, m) PROVE Goal
  BY <1>1 DEF TypeOK, Launch, AccountStep, Begins, Unaware
<1>2. ASSUME NEW s \in Sessions, Check(s) PROVE Goal
  <2>1. /\ res' = [res EXCEPT ![s] = @ \cup {}]
        /\ made' = [made EXCEPT ![s] = @ \cup {}]
    BY <1>2 DEF TypeOK, Check
  <2>2. {} \in SUBSET Resources
    OBVIOUS
  <2> QED BY <1>2, <2>1, <2>2, AdvanceIsAccountStep DEF Check, AtStep
<1>3. ASSUME NEW s \in Sessions, Create(s) PROVE Goal
  <2>1. {Step(s)} \in SUBSET Resources
    BY <1>3 DEF Create, AtStep
  <2> QED BY <1>3, <2>1, AdvanceIsAccountStep DEF Create, AtStep
<1>4. ASSUME NEW s \in Sessions, StepFails(s) PROVE Goal
  BY <1>4, TearDownIsAccountStep DEF StepFails, AtStep
<1>5. ASSUME NEW s \in Sessions, CreateFailsLate(s) PROVE Goal
  <2>1. /\ res'[s] \subseteq res[s] \cup lost'[s]
        /\ \A t \in Sessions \ {s} : res'[t] = res[t] /\ lost'[t] = lost[t]
    BY <1>5 DEF CreateFailsLate, TypeOK
  <2>2. pc[s] = "bring" /\ TearDown(s) /\ mode' = mode /\ cell' = cell
    BY <1>5 DEF CreateFailsLate, AtStep
  <2> QED BY <2>1, <2>2, TearDownIsAccountStep
<1>6. ASSUME NEW s \in Sessions, ReapList(s) PROVE Goal
  BY <1>6, SweepIsAccountStep DEF ReapList
<1>7. ASSUME NEW s \in Sessions, NEW t \in Sessions, ReapProbe(s, t) PROVE Goal
  BY <1>7, SweepIsAccountStep DEF ReapProbe
<1>8. ASSUME NEW s \in Sessions, NEW t \in Sessions, ReapAge(s, t) PROVE Goal
  BY <1>8, SweepIsAccountStep DEF ReapAge
<1>9. ASSUME NEW s \in Sessions, NEW t \in Sessions, NEW r \in Resources,
             ReapRemove(s, t, r)
      PROVE  Goal
  <2>1. \A u \in Sessions : res'[u] \subseteq res[u]
    BY <1>9, RemoveType DEF ReapRemove
  <2> QED BY <1>9, <2>1, SweepIsAccountStep DEF ReapRemove
<1>10. ASSUME NEW s \in Sessions, ReapEnd(s) PROVE Goal
  BY <1>10, CutSweepIsAccountStep DEF ReapEnd, AtStep
<1>11. ASSUME NEW s \in Sessions, ReapTimesOut(s) PROVE Goal
  <2>1. \A t \in Sessions : res'[t] \subseteq res[t]
    <3>1. CASE res' = res
      BY <3>1
    <3>2. ASSUME NEW u \in sweep[s].victim, NEW r \in Resources,
                 res' = [res EXCEPT ![u] = Removed(u, r)]
          PROVE  \A t \in Sessions : res'[t] \subseteq res[t]
      BY <3>2, ActorsAreKnown, RemovedShrinks DEF TypeOK
    <3> QED BY <1>11, <3>1, <3>2 DEF ReapTimesOut
  <2> QED BY <1>11, <2>1, CutSweepIsAccountStep DEF ReapTimesOut, AtStep
<1>12. ASSUME NEW s \in Sessions, StartCell(s) PROVE Goal
  BY <1>12 DEF TypeOK, StartCell, AccountStep, Serves, Unaware
<1>13. ASSUME NEW s \in Sessions, RunShellFails(s) PROVE Goal
  BY <1>13, TearDownIsAccountStep DEF RunShellFails
<1>14. ASSUME NEW s \in Sessions, NEW r \in Resources, Undo(s, r) PROVE Goal
  <2>1. lost[s] \subseteq lost'[s] /\ undo'[s] = undo[s] \ {r}
    BY <1>14 DEF Undo, TypeOK
  <2>2. \/ res'[s] = Removed(s, r)
        \/ res'[s] = res[s] /\ (r \in res'[s] => r \in lost'[s])
    BY <1>14 DEF Undo, TypeOK
  <2>3. Undoes(s)
    BY <1>14, <2>1, <2>2 DEF Undo, Undoes
  <2> QED BY <1>14, <2>3, UndoIsAccountStep DEF Undo, TypeOK
<1>15. ASSUME NEW s \in Sessions, NEW r \in Resources, UndoTimesOut(s, r) PROVE Goal
  <2>1. /\ lost[s] \subseteq lost'[s] /\ (r \in res'[s] => r \in lost'[s])
        /\ undo[s] \cap res'[s] \subseteq undo'[s] \cup lost'[s] \cup {r}
    BY <1>15 DEF UndoTimesOut, TypeOK, IsFirst
  <2>2. res'[s] = Removed(s, r) \/ res'[s] = res[s]
    BY <1>15 DEF UndoTimesOut, TypeOK
  <2>3. Undoes(s)
    BY <1>15, <2>1, <2>2 DEF UndoTimesOut, Undoes
  <2> QED BY <1>15, <2>3, UndoIsAccountStep DEF UndoTimesOut, TypeOK
<1>16. ASSUME NEW s \in Sessions, Finish(s) PROVE Goal
  BY <1>16 DEF TypeOK, Finish, AccountStep, Finishes, Unaware
<1>17. ASSUME NEW s \in Sessions, CellExit(s) PROVE Goal
  <2>1. CASE pc[s] = "cell"
    BY <1>17, <2>1, TearDownIsAccountStep DEF CellExit
  <2>2. CASE pc[s] # "cell"
    BY <1>17, <2>2 DEF TypeOK, CellExit, Unaware, AccountStep
  <2> QED BY <2>1, <2>2
<1>18. ASSUME NEW s \in Sessions, Abandon(s) PROVE Goal
  <2>1. /\ CellNet[mode[s]] \in lost'[s]
        /\ \A t \in Sessions \ {s} : res'[t] = res[t] /\ lost'[t] = lost[t]
    BY <1>18 DEF Abandon, TypeOK
  <2> QED BY <1>18, <2>1, TearDownIsAccountStep DEF Abandon
<1>19. ASSUME NEW s \in Sessions, Crash(s) PROVE Goal
  BY <1>19 DEF TypeOK, Crash, AccountStep, Leaves, Unaware
<1>20. ASSUME NEW s \in Sessions, Retire(s) PROVE Goal
  BY <1>20 DEF TypeOK, Retire, AccountStep, Leaves, Unaware
<1>21. CASE Tick
  BY <1>21, SweepIsAccountStep DEF Tick
<1>22. CASE UNCHANGED vars
  BY <1>22, SweepIsAccountStep DEF vars
<1>23. ASSUME NEW s \in Sessions, StepRaises(s) PROVE Goal
  <2> SUFFICES ASSUME NEW t \in Sessions PROVE AccountStep(t)
    OBVIOUS
  <2>1. CASE t = s
    <3>1. /\ undo'[s] = (made[s] \cap Removables) \ BrokerResources
          /\ lost'[s] = made[s] \cap BrokerResources
      BY <1>23 DEF StepRaises, Removables, TypeOK
    <3>2. pc[s] = "bring" /\ pc'[s] = "down" /\ mode' = mode /\ res' = res /\ cell' = cell
      BY <1>23 DEF StepRaises, AtStep, TypeOK
    <3> QED BY <2>1, <3>1, <3>2 DEF TearsDown, AccountStep
  <2>2. CASE t # s
    BY <1>23, <2>2 DEF TypeOK, StepRaises, Unaware, AccountStep
  <2> QED BY <2>1, <2>2
<1> QED
  BY <1>1, <1>2, <1>3, <1>4, <1>5, <1>6, <1>7, <1>8, <1>9, <1>10, <1>11,
     <1>12, <1>13, <1>14, <1>15, <1>16, <1>17, <1>18, <1>19, <1>20, <1>21,
     <1>22, <1>23, ActorsAreKnown DEF Next, Launcher, Reap

-----------------------------------------------------------------------------
(* Only what was lost is left behind *)

\* Whatever exists is removed by name or goes with its container.
LEMMA OnlyEndpointsAreCarried ==
  Resources = Removables \cup {"brokerOnEgress", "shimOnLink"}
<1>1. Removables = {"shim", "gwOnLink", "link", "oc", "broker", "egress", "int", "key"}
  BY DEF Removables, Elements, TeardownOrder
<1> QED BY <1>1 DEF Resources, BrokerResources, ShimResources

\* A lost container keeps its endpoint and the networks it is on; nothing else
\* keeps a container.
LEMMA RemnantIsClosed ==
  ASSUME TypeOK, NEW t \in Sessions
  PROVE  /\ lost[t] \subseteq Remnant(t)
         /\ "broker" \in Remnant(t) => {"brokerOnEgress", "egress", "int"} \subseteq Remnant(t)
         /\ "shim" \in Remnant(t) => {"shimOnLink", "link", "oc", "int"} \subseteq Remnant(t)
         /\ "gwOnLink" \in Remnant(t) => "link" \in Remnant(t)
<1>1. lost[t] \subseteq Resources
  BY DEF TypeOK
<1>2. \A r \in Resources : r \in StaysWith[r]
  BY DEF StaysWith
<1>3. \A r \in lost[t] : StaysWith[r] \subseteq Remnant(t)
  BY DEF Remnant
<1>4. /\ "broker" \in Resources /\ "shim" \in Resources /\ "gwOnLink" \in Resources
  BY DEF Resources, BrokerResources, ShimResources
<1>5. \A r \in Resources :
        /\ "broker" \in StaysWith[r] => r = "broker"
        /\ "shim" \in StaysWith[r] => r = "shim"
        /\ "gwOnLink" \in StaysWith[r] => r = "gwOnLink"
  BY DEF StaysWith
<1>6. /\ "broker" \in Remnant(t) => "broker" \in lost[t]
      /\ "shim" \in Remnant(t) => "shim" \in lost[t]
      /\ "gwOnLink" \in Remnant(t) => "gwOnLink" \in lost[t]
  BY <1>1, <1>5 DEF Remnant
<1>7. /\ StaysWith["broker"] = {"broker", "brokerOnEgress", "egress", "int"}
      /\ StaysWith["shim"] = {"shim", "shimOnLink", "link", "oc", "int"}
      /\ StaysWith["gwOnLink"] = {"gwOnLink", "link"}
  BY <1>4 DEF StaysWith
<1> QED BY <1>1, <1>2, <1>3, <1>6, <1>7

LEMMA RemnantGrows ==
  ASSUME NEW t \in Sessions, lost[t] \subseteq lost'[t]
  PROVE  Remnant(t) \subseteq Remnant(t)'
  BY DEF Remnant

\* A clean-up in TeardownOrder meets a network still in use only where what
\* uses it was lost.
LEMMA OnlyLostBlocks ==
  ASSUME TypeOK, NEW t \in Sessions, NEW r \in Resources,
         cell[t] => CellNet[mode[t]] \in lost[t],
         "brokerOnEgress" \in res[t] => "broker" \in res[t],
         "shimOnLink" \in res[t] => "shim" \in res[t],
         res[t] \cap Removables \subseteq undo[t] \cup Remnant(t),
         IsFirst(r, undo[t], TeardownOrder),
         Blocked(t, r)
  PROVE  r \in Remnant(t)
<1>1. PICK i \in 1 .. 8 : /\ TeardownOrder[i] = r
                          /\ \A j \in 1 .. i - 1 : TeardownOrder[j] \notin undo[t]
  BY DEF IsFirst, TeardownOrder
<1>2. \A j \in 1 .. i - 1 : TeardownOrder[j] \in res[t] => TeardownOrder[j] \in Remnant(t)
  <2>1. \A j \in 1 .. 8 : TeardownOrder[j] \in Removables
    BY DEF Removables, Elements, TeardownOrder
  <2> QED BY <1>1, <2>1
<1>3. TeardownOrder =
        << "shim", "gwOnLink", "link", "oc", "broker", "egress", "int", "key" >>
  BY DEF TeardownOrder
<1>4. mode[t] \in Modes
  BY DEF TypeOK
<1>5. CASE r = "int"
  <2>1. i = 7
    BY <1>1, <1>3, <1>5
  <2>2. /\ "shim" \in res[t] => "shim" \in Remnant(t)
        /\ "broker" \in res[t] => "broker" \in Remnant(t)
    BY <1>2, <1>3, <2>1
  <2>3. mode[t] # "onecli" /\ cell[t] => "int" \in lost[t]
    BY <1>4 DEF CellNet, Modes
  <2> QED BY <1>5, <2>2, <2>3, RemnantIsClosed DEF Blocked, Started
<1>6. CASE r = "egress"
  <2>1. i = 6
    BY <1>1, <1>3, <1>6
  <2>2. "broker" \in res[t] => "broker" \in Remnant(t)
    BY <1>2, <1>3, <2>1
  <2> QED BY <1>6, <2>2, RemnantIsClosed DEF Blocked
<1>7. CASE r = "oc"
  <2>1. i = 4
    BY <1>1, <1>3, <1>7
  <2>2. "shim" \in res[t] => "shim" \in Remnant(t)
    BY <1>2, <1>3, <2>1
  <2>3. mode[t] = "onecli" /\ cell[t] => "oc" \in lost[t]
    BY DEF CellNet
  <2> QED BY <1>7, <2>2, <2>3, RemnantIsClosed DEF Blocked, Started
<1>8. CASE r = "link"
  <2>1. i = 3
    BY <1>1, <1>3, <1>8
  <2>2. /\ "shim" \in res[t] => "shim" \in Remnant(t)
        /\ "gwOnLink" \in res[t] => "gwOnLink" \in Remnant(t)
    BY <1>2, <1>3, <2>1
  <2> QED BY <1>8, <2>2, RemnantIsClosed DEF Blocked
<1> QED BY <1>5, <1>6, <1>7, <1>8 DEF Blocked

\* Between a resource's creation and its removal its launcher knows of it.
LEMMA AccountedKept ==
  ResidueInv /\ [Next]_vars => Accounted'
<1> SUFFICES ASSUME ResidueInv, [Next]_vars, NEW t \in Sessions
             PROVE  /\ pc'[t] \in {"bring", "start", "cell"} =>
                         res'[t] \cap Removables \subseteq made'[t]
                    /\ pc'[t] \in {"down", "done"} =>
                         res'[t] \cap Removables \subseteq undo'[t] \cup Remnant(t)'
                    /\ pc'[t] = "done" => undo'[t] = {}
  BY DEF Accounted
<1> USE DEF ResidueInv
<1>1. AccountStep(t)
  BY NextIsAccountStep
<1>2. CASE Unaware(t)
  BY <1>2, RemnantGrows DEF Unaware, Accounted
<1>3. CASE Begins(t)
  BY <1>3 DEF Begins, IdleIsFresh
<1>4. CASE Records(t)
  BY <1>4 DEF Records, Accounted
<1>5. CASE Serves(t)
  BY <1>5 DEF Serves, Accounted
<1>6. CASE TearsDown(t)
  <2>1. lost'[t] \subseteq Remnant(t)'
    <3>1. lost'[t] \subseteq Resources
      BY NextTypeOK DEF TypeOK
    <3> QED BY <3>1 DEF Remnant, StaysWith
  <2> QED BY <1>6, <2>1 DEF TearsDown, Accounted
<1>7. CASE Undoes(t)
  <2>1. PICK r \in Resources : /\ IsFirst(r, undo[t], TeardownOrder)
                               /\ undo[t] \cap res'[t] \subseteq undo'[t] \cup lost'[t] \cup {r}
                               /\ \/ res'[t] = Removed(t, r)
                                  \/ res'[t] = res[t] /\ (r \in res'[t] => r \in lost'[t])
    BY <1>7 DEF Undoes
  <2>2. lost'[t] \subseteq Remnant(t)' /\ Remnant(t) \subseteq Remnant(t)'
    <3>1. lost'[t] \subseteq Resources
      BY NextTypeOK DEF TypeOK
    <3>2. lost[t] \subseteq lost'[t]
      BY <1>7 DEF Undoes
    <3>3. lost'[t] \subseteq Remnant(t)'
      BY <3>1 DEF Remnant, StaysWith
    <3> QED BY <3>2, <3>3, RemnantGrows
  <2>3. /\ res[t] \cap Removables \subseteq undo[t] \cup Remnant(t)
        /\ cell[t] => CellNet[mode[t]] \in lost[t]
    BY <1>7 DEF Undoes, CellHasLauncher, Accounted
  <2>4. r \in res'[t] => r \in Remnant(t)'
    <3>1. CASE Blocked(t, r)
      BY <2>1, <2>2, <2>3, <3>1, OnlyLostBlocks DEF EndpointsHaveContainers
    <3>2. CASE ~ Blocked(t, r)
      BY <2>1, <2>2, <3>2 DEF Removed, Carried
    <3> QED BY <3>1, <3>2
  <2>5. res'[t] \subseteq res[t]
    BY <2>1, RemovedShrinks
  <2> QED BY <1>7, <2>1, <2>2, <2>3, <2>4, <2>5 DEF Undoes
<1>8. CASE Finishes(t)
  BY <1>8, RemnantGrows DEF Finishes, Accounted
<1>9. CASE Leaves(t)
  BY <1>9 DEF Leaves
<1> QED BY <1>1, <1>2, <1>3, <1>4, <1>5, <1>6, <1>7, <1>8, <1>9 DEF AccountStep

LEMMA CellHasLauncherKept ==
  ResidueInv /\ [Next]_vars => CellHasLauncher'
<1> SUFFICES ASSUME ResidueInv, [Next]_vars, NEW t \in Sessions, cell'[t]
             PROVE  \/ pc'[t] \in {"cell", "crashed"}
                    \/ pc'[t] \in {"down", "done"} /\ CellNet[mode'[t]] \in lost'[t]
  BY DEF CellHasLauncher
<1>1. AccountStep(t)
  BY NextIsAccountStep DEF ResidueInv
<1> QED
  BY <1>1 DEF ResidueInv, CellHasLauncher, AccountStep, Unaware, Begins, Records,
     Serves, TearsDown, Undoes, Finishes, Leaves

\* docker removes an endpoint with its container, and never adds one without.
LEMMA EndpointsKept ==
  ASSUME TypeOK, EndpointsHaveContainers, [Next]_vars
  PROVE  EndpointsHaveContainers'
<1> DEFINE Whole1(set) == /\ "brokerOnEgress" \in set => "broker" \in set
                          /\ "shimOnLink" \in set => "shim" \in set
<1>0. \A t \in Sessions, r \in Resources : Whole1(Removed(t, r))
  BY DEF Removed, Carried, EndpointsHaveContainers
<1>1. ASSUME NEW s \in Sessions, Step(s) \in Resources, Needs[Step(s)] \subseteq res[s]
      PROVE  Whole1(res[s] \cup {Step(s)})
  BY <1>1 DEF Needs, EndpointsHaveContainers
<1>2. CASE res' = res
  BY <1>2 DEF EndpointsHaveContainers
<1>3. CASE \E t \in Sessions, r \in Resources : res' = [res EXCEPT ![t] = Removed(t, r)]
  BY <1>0, <1>3 DEF TypeOK, EndpointsHaveContainers
<1>4. CASE \E s \in Sessions : /\ Step(s) \in Resources /\ Needs[Step(s)] \subseteq res[s]
                               /\ res' = [res EXCEPT ![s] = @ \cup {Step(s)}]
  BY <1>1, <1>4 DEF TypeOK, EndpointsHaveContainers
<1>5. \/ res' = res
      \/ \E t \in Sessions, r \in Resources : res' = [res EXCEPT ![t] = Removed(t, r)]
      \/ \E s \in Sessions : /\ Step(s) \in Resources /\ Needs[Step(s)] \subseteq res[s]
                             /\ res' = [res EXCEPT ![s] = @ \cup {Step(s)}]
  <2>1. \A s \in Sessions : sweep[s].victim \subseteq Sessions
    BY DEF TypeOK, SweepStates
  <2>2. ASSUME NEW s \in Sessions, ReapTimesOut(s)
        PROVE  \/ res' = res
               \/ \E t \in Sessions, r \in Resources : res' = [res EXCEPT ![t] = Removed(t, r)]
    BY <2>1, <2>2 DEF ReapTimesOut
  <2>3. ASSUME NEW s \in Sessions, Reap(s)
        PROVE  \/ res' = res
               \/ \E t \in Sessions, r \in Resources : res' = [res EXCEPT ![t] = Removed(t, r)]
    BY <2>2, <2>3, ActorsAreKnown
       DEF Reap, ReapList, ReapProbe, ReapAge, ReapRemove, Remove, ReapEnd
  <2>4. ASSUME NEW s \in Sessions, Create(s) \/ CreateFailsLate(s)
        PROVE  /\ Step(s) \in Resources /\ Needs[Step(s)] \subseteq res[s]
               /\ res' = [res EXCEPT ![s] = @ \cup {Step(s)}]
    BY <2>4 DEF Create, CreateFailsLate, AtStep
  <2>5. ASSUME NEW s \in Sessions, NEW r \in Resources, Undo(s, r) \/ UndoTimesOut(s, r)
        PROVE  \/ res' = res
               \/ res' = [res EXCEPT ![s] = Removed(s, r)]
    BY <2>5 DEF Undo, UndoTimesOut
  <2> QED
    BY <2>3, <2>4, <2>5, ActorsAreKnown
       DEF Next, vars, Launcher, Launch, Check, StepFails, StepRaises, StartCell, RunShellFails,
           Finish, CellExit, Abandon, Crash, Retire, Tick
<1> QED BY <1>2, <1>3, <1>4, <1>5

\* Whatever fails and however the sweeps of other launchers interleave, killed
\* ones included, a launcher that was not killed leaves what failed itself and
\* what docker keeps under it, and nothing else: no order of its clean-up keeps a
\* network alive, and nothing it made slips from its record on the way.
THEOREM OnlyLostIsLeftBehind == Spec => []OnlyLostIsLeft
<1>1. Init => ResidueInv
  <2> SUFFICES ASSUME Init PROVE ResidueInv
    OBVIOUS
  <2>1. \A s \in Sessions : pc[s] = "idle" /\ res[s] = {} /\ ~ cell[s]
    BY DEF Init
  <2> QED
    BY <2>1, InitTypeOK DEF ResidueInv, IdleIsFresh, Accounted,
       EndpointsHaveContainers, CellHasLauncher
<1>2. ResidueInv /\ [Next]_vars => ResidueInv'
  BY NextTypeOK, FreshKept, AccountedKept, EndpointsKept, CellHasLauncherKept
     DEF ResidueInv
<1>3. ResidueInv => OnlyLostIsLeft
  <2> SUFFICES ASSUME ResidueInv, NEW s \in Sessions, pc[s] = "done"
               PROVE  res[s] \subseteq Remnant(s)
    BY DEF OnlyLostIsLeft
  <2>1. res[s] \cap Removables \subseteq Remnant(s) /\ res[s] \subseteq Resources
    BY DEF ResidueInv, Accounted, TypeOK
  <2>2. "broker" \in Removables /\ "shim" \in Removables
    BY DEF Removables, Elements, TeardownOrder
  <2> QED
    BY <2>1, <2>2, OnlyEndpointsAreCarried, RemnantIsClosed
       DEF ResidueInv, EndpointsHaveContainers
<1> QED BY <1>1, <1>2, <1>3, PTL DEF Spec

-----------------------------------------------------------------------------
(* A sweep that gets through leaves nothing *)

\* A launcher in the middle of its sweep stays at that step of its plan.
StaysPut(s) ==
  /\ sweep'[s] = sweep[s]
  /\ AtStep(s, ReapSteps) =>
       pc'[s] = pc[s] /\ step'[s] = step[s] /\ mode'[s] = mode[s]

\* How a sweep comes to remove, goes on removing, or stops.
RemovalStep(s) ==
  \/ StaysPut(s)
  \/ sweep'[s].phase \in {"off", "age"}
  \/ sweep'[s].phase = "probe" /\ sweep[s].phase # "rm"
  \/ \E t \in Sessions : ReapAge(s, t)
  \/ \E t \in Sessions, r \in Resources : ReapRemove(s, t, r)

\* A step that touches no sweep, by a launcher that is not at one.
LEMMA OthersStayPut ==
  ASSUME TypeOK, NEW s \in Sessions, sweep' = sweep, ~ AtStep(s, ReapSteps),
         \A u \in Sessions \ {s} :
           pc'[u] = pc[u] /\ step'[u] = step[u] /\ mode'[u] = mode[u]
  PROVE  \A u \in Sessions : RemovalStep(u)
  BY DEF RemovalStep, StaysPut

\* A step of the sweep of s that moves no launcher.
LEMMA OneSweepMoves ==
  ASSUME TypeOK, NEW s \in Sessions, RemovalStep(s),
         \A u \in Sessions \ {s} : /\ sweep'[u] = sweep[u] /\ pc'[u] = pc[u]
                                   /\ step'[u] = step[u] /\ mode'[u] = mode[u]
  PROVE  \A u \in Sessions : RemovalStep(u)
  BY DEF RemovalStep, StaysPut

LEMMA StepsAreApart ==
  ReapSteps \cap (CheckSteps \cup Resources) = {}
  BY DEF ReapSteps, CheckSteps, Resources, BrokerResources, ShimResources

LEMMA NextIsRemovalStep ==
  ASSUME TypeOK, [Next]_vars
  PROVE  \A u \in Sessions : RemovalStep(u)
<1> DEFINE Goal == \A u \in Sessions : RemovalStep(u)
<1> USE StepsAreApart
<1>1. ASSUME NEW s \in Sessions, NEW m \in Modes, Launch(s, m) PROVE Goal
  BY <1>1, OthersStayPut DEF TypeOK, Launch, AtStep
<1>2. ASSUME NEW s \in Sessions, Check(s) PROVE Goal
  BY <1>2, OthersStayPut DEF TypeOK, Check, AtStep, Advance
<1>3. ASSUME NEW s \in Sessions, Create(s) PROVE Goal
  BY <1>3, OthersStayPut DEF TypeOK, Create, AtStep, Advance
<1>4. ASSUME NEW s \in Sessions, StepFails(s) PROVE Goal
  BY <1>4, OthersStayPut DEF TypeOK, StepFails, AtStep, TearDown
<1>5. ASSUME NEW s \in Sessions, CreateFailsLate(s) PROVE Goal
  BY <1>5, OthersStayPut DEF TypeOK, CreateFailsLate, AtStep, TearDown
<1>6. ASSUME NEW s \in Sessions, ReapList(s) PROVE Goal
  <2>1. RemovalStep(s)
    BY <1>6 DEF TypeOK, ReapList, Probing, RemovalStep
  <2> QED BY <1>6, <2>1, OneSweepMoves DEF TypeOK, ReapList
<1>7. ASSUME NEW s \in Sessions, NEW t \in Sessions, ReapProbe(s, t) PROVE Goal
  <2>1. RemovalStep(s)
    BY <1>7 DEF TypeOK, ReapProbe, Probing, Holding, RemovalStep
  <2> QED BY <1>7, <2>1, OneSweepMoves DEF TypeOK, ReapProbe
<1>8. ASSUME NEW s \in Sessions, NEW t \in Sessions, ReapAge(s, t) PROVE Goal
  <2>1. RemovalStep(s)
    BY <1>8 DEF RemovalStep
  <2>2. \A u \in Sessions \ {s} : sweep'[u] = sweep[u]
    BY <1>8 DEF TypeOK, ReapAge
  <2> QED BY <1>8, <2>1, <2>2, OneSweepMoves DEF ReapAge
<1>9. ASSUME NEW s \in Sessions, NEW t \in Sessions, NEW r \in Resources,
             ReapRemove(s, t, r)
      PROVE  Goal
  <2>1. RemovalStep(s)
    BY <1>9 DEF RemovalStep
  <2>2. \A u \in Sessions \ {s} : sweep'[u] = sweep[u]
    BY <1>9 DEF TypeOK, ReapRemove
  <2> QED BY <1>9, <2>1, <2>2, OneSweepMoves DEF ReapRemove
<1>10. ASSUME NEW s \in Sessions, ReapEnd(s) PROVE Goal
  <2>1. RemovalStep(s)
    BY <1>10 DEF TypeOK, ReapEnd, NoSweep, RemovalStep
  <2> QED BY <1>10, <2>1, OneSweepMoves DEF TypeOK, ReapEnd, Advance
<1>11. ASSUME NEW s \in Sessions, ReapTimesOut(s) PROVE Goal
  <2>1. RemovalStep(s)
    BY <1>11 DEF TypeOK, ReapTimesOut, NoSweep, RemovalStep
  <2>2. sweep' = [sweep EXCEPT ![s] = NoSweep] /\ mode' = mode /\ Advance(s)
    BY <1>11 DEF ReapTimesOut
  <2>3. \A u \in Sessions \ {s} : /\ sweep'[u] = sweep[u] /\ pc'[u] = pc[u]
                                   /\ step'[u] = step[u] /\ mode'[u] = mode[u]
    BY <2>2 DEF TypeOK, Advance
  <2> QED BY <2>1, <2>3, OneSweepMoves
<1>12. ASSUME NEW s \in Sessions, StartCell(s) PROVE Goal
  BY <1>12, OthersStayPut DEF TypeOK, StartCell, AtStep
<1>13. ASSUME NEW s \in Sessions, RunShellFails(s) PROVE Goal
  BY <1>13, OthersStayPut DEF TypeOK, RunShellFails, AtStep, TearDown
<1>14. ASSUME NEW s \in Sessions, NEW r \in Resources, Undo(s, r) PROVE Goal
  BY <1>14, OthersStayPut DEF Undo, AtStep
<1>15. ASSUME NEW s \in Sessions, NEW r \in Resources, UndoTimesOut(s, r) PROVE Goal
  BY <1>15, OthersStayPut DEF UndoTimesOut, AtStep
<1>16. ASSUME NEW s \in Sessions, Finish(s) PROVE Goal
  BY <1>16, OthersStayPut DEF TypeOK, Finish, AtStep
<1>17. ASSUME NEW s \in Sessions, CellExit(s) PROVE Goal
  <2>1. CASE pc[s] = "cell"
    BY <1>17, <2>1, OthersStayPut DEF TypeOK, CellExit, AtStep, TearDown
  <2>2. CASE pc[s] # "cell"
    BY <1>17, <2>2 DEF CellExit, RemovalStep, StaysPut
  <2> QED BY <2>1, <2>2
<1>18. ASSUME NEW s \in Sessions, Abandon(s) PROVE Goal
  BY <1>18, OthersStayPut DEF TypeOK, Abandon, AtStep, TearDown
<1>19. ASSUME NEW s \in Sessions, Crash(s) PROVE Goal
  <2>1. RemovalStep(s)
    BY <1>19 DEF TypeOK, Crash, NoSweep, RemovalStep
  <2> QED BY <1>19, <2>1, OneSweepMoves DEF TypeOK, Crash
<1>20. ASSUME NEW s \in Sessions, Retire(s) PROVE Goal
  BY <1>20, OthersStayPut DEF TypeOK, Retire, AtStep
<1>21. CASE Tick
  BY <1>21 DEF TypeOK, Tick, Waiting, RemovalStep, StaysPut
<1>22. CASE UNCHANGED vars
  BY <1>22 DEF vars, RemovalStep, StaysPut
<1>23. ASSUME NEW s \in Sessions, StepRaises(s) PROVE Goal
  <2>1. {"gateway", "shimReady"} \cup ShimResources \subseteq CheckSteps \cup Resources
    BY DEF CheckSteps, Resources
  <2>2. ~ AtStep(s, ReapSteps)
    BY <1>23, <2>1 DEF StepRaises, AtStep
  <2> QED BY <1>23, <2>2, OthersStayPut DEF TypeOK, StepRaises
<1> QED
  BY <1>1, <1>2, <1>3, <1>4, <1>5, <1>6, <1>7, <1>8, <1>9, <1>10, <1>11,
     <1>12, <1>13, <1>14, <1>15, <1>16, <1>17, <1>18, <1>19, <1>20, <1>21,
     <1>22, <1>23, ActorsAreKnown DEF Next, Launcher, Reap

\* A session under removal is an orphan: it gains nothing and keeps its mode.
LEMMA VictimsOnlyLose ==
  ASSUME IInv, [Next]_vars, NEW s \in Sessions, NEW t \in Sessions,
         sweep[s].phase = "rm", t \in sweep[s].victim
  PROVE  res'[t] \subseteq res[t] /\ mode'[t] = mode[t]
<1>1. pc[t] \in {"down", "done", "crashed"}
  BY DEF IInv, SweepOnlyOrphans, Orphan
<1>2. res'[t] \subseteq res[t]
  BY <1>1, NextIsResStep DEF IInv, ResStep
<1>3. LifeStep(t)
  BY NextIsLifeStep DEF IInv
<1> QED
  BY <1>1, <1>2, <1>3 DEF LifeStep, Same, Launched, Advanced, CellStarted, Ended, Retired

\* The one removal a sweep in its order may see refused is that of the internal
\* net, under a shim if the broker goes first and under a broker otherwise.
LEMMA SweepIsBlockedAtInt ==
  ASSUME NEW t \in Sessions, NEW k \in ReapSteps, NEW left, NEW r \in Resources,
         ~ cell[t],
         "brokerOnEgress" \in res[t] => "broker" \in res[t],
         "shimOnLink" \in res[t] => "shim" \in res[t],
         \A q \in (Elements(SweepOrder[k]) \ left) \cap res[t] :
           q = "int" /\ k = "reapBroker" /\ mode[t] = "hybrid",
         IsFirst(r, left, SweepOrder[k]),
         Blocked(t, r)
  PROVE  /\ r = "int"
         /\ IF k = "reapBroker" THEN mode[t] = "hybrid" ELSE "broker" \in res[t]
<1>1. CASE k = "reapBroker"
  <2>1. SweepOrder[k] = << "broker", "egress", "int", "key" >>
    BY <1>1 DEF SweepOrder
  <2>2. Elements(SweepOrder[k]) = {"broker", "egress", "int", "key"}
    BY <2>1 DEF Elements
  <2>3. r \in {"egress", "int", "key"} => "broker" \notin res[t]
    <3>1. r \in {"egress", "int", "key"} => "broker" \notin left
      BY <2>1 DEF IsFirst
    <3> QED BY <2>2, <3>1
  <2>4. r \in {"broker", "egress", "int", "key"}
    BY <2>1 DEF IsFirst
  <2> QED BY <1>1, <2>3, <2>4 DEF Blocked, Started
<1>2. CASE k = "reapShim"
  <2>1. SweepOrder[k] = << "shim", "gwOnLink", "link", "oc", "int" >>
    BY <1>2 DEF SweepOrder
  <2>2. Elements(SweepOrder[k]) = {"shim", "gwOnLink", "link", "oc", "int"}
    BY <2>1 DEF Elements
  <2>3. r \in {"link", "oc", "int"} => "shim" \notin res[t]
    <3>1. r \in {"link", "oc", "int"} => "shim" \notin left
      BY <2>1 DEF IsFirst
    <3> QED BY <1>2, <2>2, <3>1
  <2>4. r = "link" => "gwOnLink" \notin res[t]
    <3>1. r = "link" => "gwOnLink" \notin left
      BY <2>1 DEF IsFirst
    <3> QED BY <1>2, <2>2, <3>1
  <2>5. r \in {"shim", "gwOnLink", "link", "oc", "int"}
    BY <2>1 DEF IsFirst
  <2> QED BY <1>2, <2>3, <2>4, <2>5 DEF Blocked, Started
<1> QED BY <1>1, <1>2 DEF ReapSteps

\* What one removal of a sweep leaves of what it has passed.
LEMMA OneRemoval ==
  ASSUME SweepInv, "rm" \notin Faults, NEW s \in Sessions, NEW t \in Sessions,
         NEW r \in Resources, ReapRemove(s, t, r)
  PROVE  \A q \in (Elements(SweepOrder[Step(s)]) \ (sweep[s].left \ {r})) \cap res'[t] :
           /\ q = "int"
           /\ IF Step(s) = "reapBroker" THEN mode[t] = "hybrid" ELSE "broker" \in res'[t]
           /\ Step(s) = "reapBroker" \/ r = "int"
<1> USE DEF SweepInv, IInv
<1>1. /\ AtStep(s, ReapSteps) /\ sweep[s].phase = "rm" /\ t \in sweep[s].victim
      /\ IsFirst(r, sweep[s].left, SweepOrder[Step(s)])
      /\ res' = [res EXCEPT ![t] = Removed(t, r)]
  BY DEF ReapRemove, Remove, Fault
<1>2. Step(s) \in ReapSteps /\ ~ cell[t]
  BY <1>1 DEF AtStep, SweepOnlyOrphans, Orphan
<1>3. \A q \in (Elements(SweepOrder[Step(s)]) \ sweep[s].left) \cap res[t] :
        q = "int" /\ Step(s) = "reapBroker" /\ mode[t] = "hybrid"
  BY <1>1 DEF SweptSoFar
<1>4. CASE Blocked(t, r)
  <2>1. /\ r = "int"
        /\ IF Step(s) = "reapBroker" THEN mode[t] = "hybrid" ELSE "broker" \in res[t]
    <3>1. /\ "brokerOnEgress" \in res[t] => "broker" \in res[t]
          /\ "shimOnLink" \in res[t] => "shim" \in res[t]
      BY DEF EndpointsHaveContainers
    <3> QED BY <1>1, <1>2, <1>3, <1>4, <3>1, SweepIsBlockedAtInt
  <2>2. res'[t] = res[t]
    BY <1>1, <1>4 DEF Removed, TypeOK
  <2> QED BY <1>3, <2>1, <2>2
<1>5. CASE ~ Blocked(t, r)
  <2>1. r \notin res'[t] /\ res'[t] \subseteq res[t]
    BY <1>1, <1>5 DEF Removed, Carried, TypeOK
  <2> QED BY <1>3, <2>1
<1> QED BY <1>4, <1>5

LEMMA SweptKept ==
  SweepInv /\ "rm" \notin Faults /\ [Next]_vars => SweptSoFar'
<1> SUFFICES ASSUME SweepInv, "rm" \notin Faults, [Next]_vars,
                    NEW s \in Sessions, NEW t \in Sessions,
                    sweep'[s].phase = "rm", t \in sweep'[s].victim
             PROVE  /\ AtStep(s, ReapSteps)'
                    /\ sweep'[s].victim = {t}
                    /\ sweep'[s].left \subseteq Elements(SweepOrder[Step(s)'])
                    /\ \A r \in (Elements(SweepOrder[Step(s)']) \ sweep'[s].left)
                                  \cap res'[t] :
                         r = "int" /\ Step(s)' = "reapBroker" /\ mode'[t] = "hybrid"
  BY DEF SweptSoFar
<1> USE DEF SweepInv, IInv
<1>1. RemovalStep(s)
  BY NextIsRemovalStep
<1>2. CASE StaysPut(s)
  <2>1. /\ AtStep(s, ReapSteps) /\ sweep[s].phase = "rm" /\ t \in sweep[s].victim
        /\ sweep[s].victim = {t}
        /\ sweep[s].left \subseteq Elements(SweepOrder[Step(s)])
        /\ \A r \in (Elements(SweepOrder[Step(s)]) \ sweep[s].left) \cap res[t] :
             r = "int" /\ Step(s) = "reapBroker" /\ mode[t] = "hybrid"
    BY <1>2 DEF StaysPut, SweptSoFar
  <2>2. AtStep(s, ReapSteps)' /\ Step(s)' = Step(s)
    BY <1>2, <2>1 DEF StaysPut, AtStep, Step
  <2>3. res'[t] \subseteq res[t] /\ mode'[t] = mode[t]
    BY <2>1, VictimsOnlyLose
  <2> QED BY <1>2, <2>1, <2>2, <2>3 DEF StaysPut
<1>3. ASSUME NEW u \in Sessions, ReapAge(s, u)
      PROVE  /\ AtStep(s, ReapSteps)'
             /\ sweep'[s].victim = {u}
             /\ sweep'[s].left = Elements(SweepOrder[Step(s)'])
  <2>1. AtStep(s, ReapSteps)' /\ Step(s)' = Step(s)
    BY <1>3 DEF ReapAge, AtStep, Step
  <2>2. sweep'[s] \in {Removing(sweep[s].todo, u, Elements(SweepOrder[Step(s)])),
                       Probing(sweep[s].todo)}
    BY <1>3 DEF ReapAge, TypeOK
  <2>3. sweep'[s].victim = {u} /\ sweep'[s].left = Elements(SweepOrder[Step(s)])
    BY <2>2 DEF Removing, Probing
  <2> QED BY <2>1, <2>3
<1>4. ASSUME NEW u \in Sessions, NEW r \in Resources, ReapRemove(s, u, r)
      PROVE  /\ AtStep(s, ReapSteps)'
             /\ sweep'[s].victim = {t}
             /\ sweep'[s].left \subseteq Elements(SweepOrder[Step(s)'])
             /\ \A q \in (Elements(SweepOrder[Step(s)']) \ sweep'[s].left) \cap res'[t] :
                  q = "int" /\ Step(s)' = "reapBroker" /\ mode'[t] = "hybrid"
  <2>1. AtStep(s, ReapSteps)' /\ Step(s)' = Step(s) /\ mode' = mode
    BY <1>4 DEF ReapRemove, AtStep, Step
  <2>2. /\ sweep'[s] = Removing(sweep[s].todo, u, sweep[s].left \ {r})
        /\ sweep[s].left # {r}
    BY <1>4 DEF ReapRemove, TypeOK, Probing
  <2>3. u = t /\ sweep'[s].victim = {t} /\ sweep'[s].left = sweep[s].left \ {r}
    BY <2>2 DEF Removing
  <2>4. sweep[s].left \subseteq Elements(SweepOrder[Step(s)])
    BY <1>4 DEF ReapRemove, SweptSoFar
  <2>5. Step(s) # "reapBroker" => r # "int"
    <3>1. ASSUME Step(s) # "reapBroker", r = "int" PROVE FALSE
      <4>1. SweepOrder[Step(s)] = << "shim", "gwOnLink", "link", "oc", "int" >>
        BY <1>4, <3>1 DEF ReapRemove, AtStep, ReapSteps, SweepOrder
      <4>2. Elements(SweepOrder[Step(s)]) = {"shim", "gwOnLink", "link", "oc", "int"}
        BY <4>1 DEF Elements
      <4>3. \A q \in {"shim", "gwOnLink", "link", "oc"} : q \notin sweep[s].left
        BY <1>4, <3>1, <4>1 DEF ReapRemove, IsFirst
      <4>4. r \in sweep[s].left
        BY <1>4 DEF ReapRemove, IsFirst
      <4> QED BY <2>2, <2>4, <3>1, <4>2, <4>3, <4>4
    <3> QED BY <3>1
  <2> QED BY <1>4, <2>1, <2>3, <2>4, <2>5, OneRemoval
<1> QED BY <1>1, <1>2, <1>3, <1>4 DEF RemovalStep

LEMMA NextSweepInv ==
  SweepInv /\ GraceCoversStart /\ "rm" \notin Faults /\ [Next]_vars => SweepInv'
  BY NextIInv, EndpointsKept, SweptKept DEF SweepInv, IInv

\* While removals succeed and the grace is long enough, a sweep that is not cut
\* short takes everything it came for, however it interleaves with the victim's
\* own clean-up and with other sweeps of the same session; the internal net it
\* may have to leave is one that still has an anchor, or had one at its turn.
THEOREM SweepTakesAll ==
  ASSUME GraceCoversStart, "rm" \notin Faults
  PROVE  Spec => SweepIsThorough
<1>1. Init => SweepInv
  <2> SUFFICES ASSUME Init PROVE SweepInv
    OBVIOUS
  <2>1. \A s \in Sessions : res[s] = {} /\ sweep[s].phase = "off"
    BY DEF Init, NoSweep
  <2> QED BY <2>1, InitIInv DEF SweepInv, EndpointsHaveContainers, SweptSoFar
<1>2. SweepInv /\ [Next]_vars => SweepInv'
  BY NextSweepInv
<1>3. ASSUME SweepInv, [Next]_vars, NEW s \in Sessions, NEW t \in Sessions,
             sweep[s].phase = "rm", t \in sweep[s].victim, sweep'[s].phase = "probe"
      PROVE  /\ Elements(SweepOrder[Step(s)]) \cap res'[t] \subseteq {"int"}
             /\ "int" \in res'[t] =>
                  IF Step(s) = "reapBroker" THEN mode[t] = "hybrid"
                                            ELSE "broker" \in res'[t]
  <2>1. RemovalStep(s)
    BY <1>3, NextIsRemovalStep DEF SweepInv, IInv
  <2>2. PICK u \in Sessions, r \in Resources : ReapRemove(s, u, r)
    BY <1>3, <2>1 DEF RemovalStep, StaysPut, ReapAge
  <2>3. ReapRemove(s, t, r)
    <3>1. u \in sweep[s].victim /\ sweep[s].victim = {t}
      BY <1>3, <2>2 DEF ReapRemove, SweepInv, SweptSoFar
    <3> QED BY <2>2, <3>1
  <2>4. sweep[s].left \ {r} = {}
    BY <1>3, <2>3 DEF ReapRemove, Removing, SweepInv, IInv, TypeOK
  <2>5. \A q \in Elements(SweepOrder[Step(s)]) \cap res'[t] :
          /\ q = "int"
          /\ IF Step(s) = "reapBroker" THEN mode[t] = "hybrid" ELSE "broker" \in res'[t]
    BY <1>3, <2>3, <2>4, OneRemoval
  <2>6. "int" \in Elements(SweepOrder[Step(s)])
    <3>1. Step(s) \in ReapSteps
      BY <2>3 DEF ReapRemove, AtStep
    <3>2. SweepOrder[Step(s)][3] = "int" \/ SweepOrder[Step(s)][5] = "int"
      BY <3>1 DEF ReapSteps, SweepOrder
    <3> QED BY <3>1, <3>2 DEF ReapSteps, SweepOrder, Elements
  <2> QED BY <2>5, <2>6
<1>4. SweepInv /\ [Next]_vars =>
        [\A s, t \in Sessions :
           sweep[s].phase = "rm" /\ t \in sweep[s].victim /\ sweep'[s].phase = "probe" =>
             /\ Elements(SweepOrder[Step(s)]) \cap res'[t] \subseteq {"int"}
             /\ "int" \in res'[t] =>
                  IF Step(s) = "reapBroker" THEN mode[t] = "hybrid"
                                            ELSE "broker" \in res'[t]]_vars
  BY <1>3
<1> QED BY <1>1, <1>2, <1>4, PTL DEF Spec, SweepIsThorough

=============================================================================
