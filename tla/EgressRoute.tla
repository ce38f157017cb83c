----------------------------- MODULE EgressRoute -----------------------------
(***************************************************************************)
(* The host side of a session's egress route: the credential broker        *)
(* (broker.py), the OneCLI gateway shim (onecli_gateway.py) and the part   *)
(* of _perform_launch (cli/_launch.py) that brings them up before the cell *)
(* starts and tears them down in its finally clause.                       *)
(*                                                                         *)
(* Every `whiz` process is a launcher.  It works through the plan of its   *)
(* network mode one docker command at a time; other launchers interleave   *)
(* between any two commands.  At the head of a bring-up a launcher sweeps  *)
(* the resources of launchers that died (_reap_orphans), going by three    *)
(* separate docker queries: list the anchors, probe for a live cell, look  *)
(* at the anchor's age.                                                    *)
(*                                                                         *)
(* All names carry the session id, so a session's resources are its own:   *)
(* res[s] is what docker and the key directory really hold for s, made[s]  *)
(* what its launcher recorded as created.  lost[s] is a history variable:  *)
(* what slipped from that record, or was still on it when a removal        *)
(* failed.  A slot of Sessions is recycled (Retire) only once nothing      *)
(* bears its old session id.                                               *)
(***************************************************************************)
EXTENDS Integers, FiniteSets, Sequences

CONSTANTS
  Sessions,     \* launchers, each with the one session it runs
  Faults,       \* which kinds of fault the environment inflicts
  MaxFaults,    \* and how many in one behaviour
  Grace,        \* _REAP_GRACE_S, in ticks
  StartWindow,  \* longest time from an anchor's start to the cell's start
  ProbeGap      \* longest time between a sweep's cell probe and its age query

FaultKinds ==
  { "crash",    \* the launcher is killed, or interrupted during bring-up
    "rm",       \* a removal returns non-zero and does nothing
    "timeout",  \* a docker command outlives its subprocess timeout
    "late",     \* docker run, or writing the key, fails and leaves what it made
    "raise",    \* start_onecli_shim raises another than a OneCLIGatewayError
    "probe",    \* `docker ps` for a live cell returns non-zero
    "abandon" } \* run_shell returns while the cell is still running

ASSUME ConstantsAssumption ==
  /\ Faults \subseteq FaultKinds
  /\ MaxFaults \in Nat
  /\ Grace \in Nat /\ StartWindow \in Nat /\ ProbeGap \in Nat

Modes == {"mediated", "onecli", "hybrid"}

\* The containers by which a sweep discovers a session's leftovers.
Anchors == {"broker", "shim"}

BrokerResources == {"key", "int", "egress", "broker", "brokerOnEgress"}
ShimResources   == {"link", "gwOnLink", "shim", "shimOnLink"}
Resources       == BrokerResources \cup ShimResources \cup {"oc"}

\* What the cell relies on while it runs.
Route ==
  [ mediated |-> BrokerResources,
    onecli   |-> ShimResources \cup {"oc"},
    hybrid   |-> BrokerResources \cup ShimResources ]

CellNet == [mediated |-> "int", onecli |-> "oc", hybrid |-> "int"]

\* The commands of a bring-up in program order.  A step that is no resource is
\* a sweep or a check.  start_onecli_route sweeps before it creates the cell
\* net, and _bring_up_shim sweeps again.
Plan ==
  [ mediated |-> << "reapBroker", "credential", "key", "int", "egress",
                    "broker", "brokerOnEgress", "brokerReady" >>,
    onecli   |-> << "reapShim", "oc", "reapShim", "gateway", "link",
                    "gwOnLink", "shim", "shimOnLink", "shimReady" >>,
    hybrid   |-> << "reapBroker", "credential", "key", "int", "egress",
                    "broker", "brokerOnEgress", "brokerReady",
                    "reapShim", "gateway", "link", "gwOnLink", "shim",
                    "shimOnLink", "shimReady" >> ]

ReapSteps  == {"reapBroker", "reapShim"}
CheckSteps == {"credential", "gateway", "brokerReady", "shimReady"}

\* Commands through onecli_gateway._docker, which turns a timeout into a
\* result; broker._docker lets TimeoutExpired out.
SwallowsTimeout(r) == r \in ShimResources \cup {"oc"}

\* What a step finds missing makes its command fail.
Needs ==
  [ credential |-> {}, key |-> {}, int |-> {}, egress |-> {},
    broker |-> {"int"}, brokerOnEgress |-> {"broker", "egress"},
    brokerReady |-> {"broker", "key"}, gateway |-> {}, oc |-> {}, link |-> {},
    gwOnLink |-> {"link"}, shim |-> {}, shimOnLink |-> {"shim", "link"},
    shimReady |-> {"shim"} ]

\* (mutant) A teardown that takes the broker down before the shim that sits on its net.
TeardownBrokerFirst ==
  << "broker", "egress", "int", "key", "shim", "gwOnLink", "link", "oc" >>

\* Rollbacks and the finally clause remove in this one order: the shim first,
\* since docker keeps a network that still has an endpoint.
TeardownOrder ==
  << "shim", "gwOnLink", "link", "oc", "broker", "egress", "int", "key" >>

\* (mutant) The shim's sweep without the broker's internal net.
SweepKeepsInt ==
  [ reapBroker |-> << "broker", "egress", "int", "key" >>,
    reapShim   |-> << "shim", "gwOnLink", "link", "oc" >> ]

\* What a sweep removes of an orphan, in order.
SweepOrder ==
  [ reapBroker |-> << "broker", "egress", "int", "key" >>,
    reapShim   |-> << "shim", "gwOnLink", "link", "oc", "int" >> ]

\* What stays on the host with r: docker keeps a network under an endpoint, and
\* an endpoint as long as its container.
StaysWith ==
  [r \in Resources |->
     CASE r = "broker"   -> {"broker", "brokerOnEgress", "egress", "int"}
       [] r = "shim"     -> {"shim", "shimOnLink", "link", "oc", "int"}
       [] r = "gwOnLink" -> {"gwOnLink", "link"}
       [] OTHER          -> {r}]

Elements(order) == {order[i] : i \in DOMAIN order}

\* r comes first, in the given order, among the members of S.
IsFirst(r, S, order) ==
  /\ r \in S
  /\ \E i \in DOMAIN order :
       /\ order[i] = r
       /\ \A j \in 1 .. i - 1 : order[j] \notin S

-----------------------------------------------------------------------------
VARIABLES
  mode,   \* the profile's network mode
  pc,     \* where the launcher is
  step,   \* the next step of its plan
  made,   \* what it recorded as created (created_net, started, the handle)
  undo,   \* what its rollback or teardown has still to remove
  lost,   \* what it failed to record, or failed to remove
  res,    \* what exists on the host
  cell,   \* the cell's container is running
  age,    \* ticks since each anchor container started
  sweep,  \* the launcher's _reap_orphans, while it runs one
  faults  \* faults so far

vars == << mode, pc, step, made, undo, lost, res, cell, age, sweep, faults >>

\* A sweep's anchors still to look at, the session in hand and what is left to
\* remove of it, and the ticks since that session was probed.
SweepStates ==
  [ phase  : {"off", "probe", "age", "rm"},
    todo   : SUBSET Sessions,
    victim : SUBSET Sessions,
    left   : SUBSET Resources,
    gap    : 0 .. ProbeGap ]

NoSweep ==
  [phase |-> "off", todo |-> {}, victim |-> {}, left |-> {}, gap |-> 0]

Probing(todo) ==
  [phase |-> "probe", todo |-> todo, victim |-> {}, left |-> {}, gap |-> 0]

Holding(todo, t) ==
  [phase |-> "age", todo |-> todo, victim |-> {t}, left |-> {}, gap |-> 0]

Waiting(w) ==
  [phase |-> "age", todo |-> w.todo, victim |-> w.victim, left |-> w.left,
   gap |-> w.gap + 1]

Removing(todo, t, left) ==
  [phase |-> "rm", todo |-> todo, victim |-> {t}, left |-> left, gap |-> 0]

Fresh == [a \in Anchors |-> 0]

\* The age of a container that was created and never started: docker dates it
\* to the year 1.  It holds none of its networks.
NeverStarted == Grace + 2

TypeOK ==
  /\ mode \in [Sessions -> Modes]
  /\ pc \in [Sessions -> {"idle", "bring", "start", "cell", "down", "done", "crashed"}]
  /\ step \in [Sessions -> Nat \ {0}]
  /\ \A s \in Sessions : pc[s] = "bring" => step[s] \in DOMAIN Plan[mode[s]]
  /\ made \in [Sessions -> SUBSET Resources]
  /\ undo \in [Sessions -> SUBSET Resources]
  /\ lost \in [Sessions -> SUBSET Resources]
  /\ res \in [Sessions -> SUBSET Resources]
  /\ cell \in [Sessions -> BOOLEAN]
  /\ age \in [Sessions -> [Anchors -> 0 .. NeverStarted]]
  /\ sweep \in [Sessions -> SweepStates]
  /\ faults \in 0 .. MaxFaults

Init ==
  /\ mode \in [Sessions -> {"mediated"}]
  /\ pc = [s \in Sessions |-> "idle"]
  /\ step = [s \in Sessions |-> 1]
  /\ made = [s \in Sessions |-> {}]
  /\ undo = [s \in Sessions |-> {}]
  /\ lost = [s \in Sessions |-> {}]
  /\ res = [s \in Sessions |-> {}]
  /\ cell = [s \in Sessions |-> FALSE]
  /\ age = [s \in Sessions |-> Fresh]
  /\ sweep = [s \in Sessions |-> NoSweep]
  /\ faults = 0

\* A fault of this kind strikes in this step.
Fault(kind) ==
  /\ kind \in Faults
  /\ faults < MaxFaults
  /\ faults' = faults + 1

-----------------------------------------------------------------------------
(* Docker and the key directory *)

Started(t, a) == a \in res[t] /\ age[t][a] # NeverStarted

\* docker refuses to remove a network with an endpoint attached.
Blocked(t, r) ==
  \/ /\ r = "int"
     /\ \/ Started(t, "broker")
        \/ mode[t] = "hybrid" /\ Started(t, "shim")
        \/ mode[t] # "onecli" /\ cell[t]
  \/ r = "egress" /\ "brokerOnEgress" \in res[t]
  \/ r = "oc" /\ (Started(t, "shim") \/ (mode[t] = "onecli" /\ cell[t]))
  \/ r = "link" /\ {"gwOnLink", "shimOnLink"} \cap res[t] # {}

\* A container takes its endpoints with it.
Carried(r) ==
  CASE r = "broker" -> {"broker", "brokerOnEgress"}
    [] r = "shim"   -> {"shim", "shimOnLink"}
    [] OTHER        -> {r}

Removed(t, r) == IF Blocked(t, r) THEN res[t] ELSE res[t] \ Carried(r)

\* A removal that works, or one that fails without the caller looking.
Remove(t, r) ==
  \/ res' = [res EXCEPT ![t] = Removed(t, r)] /\ faults' = faults
  \/ res' = res /\ Fault("rm")

-----------------------------------------------------------------------------
(* Bring-up *)

Step(s) == Plan[mode[s]][step[s]]

AtStep(s, names) == pc[s] = "bring" /\ Step(s) \in names

\* (mutant) A bring-up that never hands over to run_shell.
AdvancePastEnd(s) ==
  /\ pc' = pc
  /\ step' = [step EXCEPT ![s] = @ + 1]

Advance(s) ==
  IF step[s] = Len(Plan[mode[s]])
    THEN /\ pc' = [pc EXCEPT ![s] = "start"]
         /\ step' = step
    ELSE /\ pc' = pc
         /\ step' = [step EXCEPT ![s] = @ + 1]

\* The except clauses of start_broker, _bring_up_shim and start_onecli_route
\* with stop_broker in hybrid, and _launch's finally: all undo what was made.
TearDown(s) ==
  /\ pc' = [pc EXCEPT ![s] = "down"]
  /\ undo' = [undo EXCEPT ![s] = made[s] \cap Elements(TeardownOrder)]
  /\ made' = [made EXCEPT ![s] = {}]
  /\ step' = [step EXCEPT ![s] = 1]

Launch(s, m) ==
  /\ pc[s] = "idle"
  /\ mode' = [mode EXCEPT ![s] = m]
  /\ pc' = [pc EXCEPT ![s] = "bring"]
  /\ step' = [step EXCEPT ![s] = 1]
  /\ UNCHANGED << made, undo, lost, res, cell, age, sweep, faults >>

\* A credential, gateway or readiness check passes.
Check(s) ==
  /\ AtStep(s, CheckSteps)
  /\ Needs[Step(s)] \subseteq res[s]
  /\ Advance(s)
  /\ UNCHANGED << mode, made, undo, lost, res, cell, age, sweep, faults >>

\* The key file is written, a network or container created, an endpoint added.
Create(s) ==
  /\ AtStep(s, Resources)
  /\ Needs[Step(s)] \subseteq res[s]
  /\ res' = [res EXCEPT ![s] = @ \cup {Step(s)}]
  /\ made' = [made EXCEPT ![s] = @ \cup {Step(s)}]
  /\ age' = IF Step(s) \in Anchors
              THEN [age EXCEPT ![s][Step(s)] = 0]
              ELSE age
  /\ Advance(s)
  /\ UNCHANGED << mode, undo, lost, cell, sweep, faults >>

\* Any command or check may fail and leave nothing of its own; the launcher
\* rolls back.
StepFails(s) ==
  /\ AtStep(s, CheckSteps \cup Resources)
  /\ TearDown(s)
  /\ UNCHANGED << mode, lost, res, cell, age, sweep, faults >>

\* The flag that would have recorded it is never set, though docker carries the
\* command out: it outlives its timeout, or `docker run -d` exits non-zero with
\* the container created, started or not.  A key directory may likewise survive
\* the failed write that _write_key_file clears up after.
CreateFailsLate(s) ==
  /\ AtStep(s, Resources)
  /\ Needs[Step(s)] \subseteq res[s]
  /\ \E born \in {0, NeverStarted} :
       /\ \/ Fault("timeout") /\ Step(s) # "key" /\ born = 0
          \/ Fault("late") /\ Step(s) \in Anchors \cup {"key"}
       /\ age' = IF Step(s) \in Anchors
                    THEN [age EXCEPT ![s][Step(s)] = born]
                    ELSE age
  /\ res' = [res EXCEPT ![s] = @ \cup {Step(s)}]
  /\ lost' = [lost EXCEPT ![s] = {Step(s)}]
  /\ TearDown(s)
  /\ UNCHANGED << mode, cell, sweep >>

\* start_onecli_shim rolls its own half back on any exception; _perform_launch
\* stops the broker for a OneCLIGatewayError only.
StepRaises(s) ==
  /\ Fault("raise")
  /\ mode[s] = "hybrid"
  /\ AtStep(s, {"gateway", "shimReady"} \cup ShimResources)
  /\ pc' = [pc EXCEPT ![s] = "down"]
  /\ undo' = [undo EXCEPT ![s] = (made[s] \cap Elements(TeardownOrder)) \ BrokerResources]
  /\ lost' = [lost EXCEPT ![s] = made[s] \cap BrokerResources]
  /\ made' = [made EXCEPT ![s] = {}]
  /\ step' = [step EXCEPT ![s] = 1]
  /\ UNCHANGED << mode, res, cell, age, sweep >>

-----------------------------------------------------------------------------
(* _reap_orphans *)

AnchorOf(s) == IF Step(s) = "reapBroker" THEN "broker" ELSE "shim"

\* The listing by label, or nothing when `docker ps -a` fails.
ReapList(s) ==
  /\ AtStep(s, ReapSteps)
  /\ sweep[s].phase = "off"
  /\ \E found \in {{t \in Sessions : AnchorOf(s) \in res[t]}, {}} :
       /\ IF found = {t \in Sessions : AnchorOf(s) \in res[t]}
            THEN faults' = faults
            ELSE Fault("probe")
       /\ sweep' = [sweep EXCEPT ![s] = Probing(found)]
  /\ UNCHANGED << mode, pc, step, made, undo, lost, res, cell, age >>

\* (mutant) A probe that never finds a cell, as with a label nobody sets.
NeverLive(t, answered) == FALSE

\* The probe counts a session live only when the query succeeds and prints an
\* id: a failed query reads as "no cell".
SeenLive(t, answered) == answered /\ cell[t]

ReapProbe(s, t) ==
  /\ AtStep(s, ReapSteps)
  /\ sweep[s].phase = "probe"
  /\ t \in sweep[s].todo
  /\ \E answered \in BOOLEAN :
       /\ IF answered THEN faults' = faults ELSE Fault("probe")
       /\ sweep' = [sweep EXCEPT ![s] =
                      IF SeenLive(t, answered) THEN Probing(@.todo \ {t})
                      ELSE Holding(@.todo \ {t}, t)]
  /\ UNCHANGED << mode, pc, step, made, undo, lost, res, cell, age >>

\* (mutant) An age test that is off by one tick.
AtLeastGrace(t, a) == age[t][a] >= Grace

OlderThanGrace(t, a) == age[t][a] > Grace

\* A query that fails, or an anchor that is gone by now, spares the session.
ReapAge(s, t) ==
  /\ AtStep(s, ReapSteps)
  /\ sweep[s].phase = "age"
  /\ t \in sweep[s].victim
  /\ \/ /\ OlderThanGrace(t, AnchorOf(s))
        /\ AnchorOf(s) \in res[t]
        /\ sweep' = [sweep EXCEPT ![s] =
                       Removing(@.todo, t, Elements(SweepOrder[Step(s)]))]
     \/ /\ ~ OlderThanGrace(t, AnchorOf(s)) \/ AnchorOf(s) \notin res[t]
        /\ sweep' = [sweep EXCEPT ![s] = Probing(@.todo)]
  /\ UNCHANGED << mode, pc, step, made, undo, lost, res, cell, age, faults >>

\* (mutant) A sweep that waits for a network to lose its endpoints.
ReapRemoveRetry(s, t, r) ==
  /\ AtStep(s, ReapSteps)
  /\ sweep[s].phase = "rm"
  /\ t \in sweep[s].victim
  /\ IsFirst(r, sweep[s].left, SweepOrder[Step(s)])
  /\ ~ Blocked(t, r)
  /\ Remove(t, r)
  /\ sweep' = [sweep EXCEPT ![s] =
                 IF @.left = {r} THEN Probing(@.todo)
                 ELSE Removing(@.todo, t, @.left \ {r})]
  /\ UNCHANGED << mode, pc, step, made, undo, lost, cell, age >>

ReapRemove(s, t, r) ==
  /\ AtStep(s, ReapSteps)
  /\ sweep[s].phase = "rm"
  /\ t \in sweep[s].victim
  /\ IsFirst(r, sweep[s].left, SweepOrder[Step(s)])
  /\ Remove(t, r)
  /\ sweep' = [sweep EXCEPT ![s] =
                 IF @.left = {r} THEN Probing(@.todo)
                 ELSE Removing(@.todo, t, @.left \ {r})]
  /\ UNCHANGED << mode, pc, step, made, undo, lost, cell, age >>

ReapEnd(s) ==
  /\ AtStep(s, ReapSteps)
  /\ sweep[s].phase = "probe"
  /\ sweep[s].todo = {}
  /\ sweep' = [sweep EXCEPT ![s] = NoSweep]
  /\ Advance(s)
  /\ UNCHANGED << mode, made, undo, lost, res, cell, age, faults >>

\* A timeout in the broker's sweep raises through to its except clause: the
\* rest of the sweep is dropped, half-removed orphans included, and the launch
\* goes on.  In the shim's sweep a timeout is a failed removal or probe.
ReapTimesOut(s) ==
  /\ AtStep(s, {"reapBroker"})
  /\ Fault("timeout")
  /\ \/ res' = res
     \/ \E t \in sweep[s].victim, r \in Resources \ {"key"} :
          /\ sweep[s].phase = "rm"
          /\ IsFirst(r, sweep[s].left, SweepOrder[Step(s)])
          /\ res' = [res EXCEPT ![t] = Removed(t, r)]
  /\ sweep' = [sweep EXCEPT ![s] = NoSweep]
  /\ Advance(s)
  /\ UNCHANGED << mode, made, undo, lost, cell, age >>

-----------------------------------------------------------------------------
(* The cell, and the finally clause *)

\* docker run joins the route's network; without it the container never starts.
StartCell(s) ==
  /\ pc[s] = "start"
  /\ CellNet[mode[s]] \in res[s]
  /\ pc' = [pc EXCEPT ![s] = "cell"]
  /\ cell' = [cell EXCEPT ![s] = TRUE]
  /\ UNCHANGED << mode, step, made, undo, lost, res, age, sweep, faults >>

\* run_shell raises (credential, daemon) or docker run exits at once.
RunShellFails(s) ==
  /\ pc[s] = "start"
  /\ TearDown(s)
  /\ UNCHANGED << mode, lost, res, cell, age, sweep, faults >>

CellExit(s) ==
  /\ cell[s]
  /\ cell' = [cell EXCEPT ![s] = FALSE]
  /\ IF pc[s] = "cell" THEN TearDown(s) ELSE UNCHANGED << pc, undo, made, step >>
  /\ UNCHANGED << mode, lost, res, age, sweep, faults >>

\* run_shell returns, or is interrupted, with the cell still running.
Abandon(s) ==
  /\ Fault("abandon")
  /\ pc[s] = "cell"
  /\ TearDown(s)
  /\ lost' = [lost EXCEPT ![s] = {CellNet[mode[s]]}]
  /\ UNCHANGED << mode, res, cell, age, sweep >>

Undo(s, r) ==
  /\ pc[s] = "down"
  /\ IsFirst(r, undo[s], TeardownOrder)
  /\ \/ /\ res' = [res EXCEPT ![s] = Removed(s, r)]
        /\ UNCHANGED << lost, faults >>
     \/ /\ Fault("rm")
        /\ lost' = [lost EXCEPT ![s] = @ \cup ({r} \cap res[s])]
        /\ res' = res
  /\ undo' = [undo EXCEPT ![s] = @ \ {r}]
  /\ UNCHANGED << mode, pc, step, made, cell, age, sweep >>

\* A timeout with or without effect.  In the shim's half it is one more failed
\* command; in the broker's TimeoutExpired ends the clean-up there and then.
UndoTimesOut(s, r) ==
  /\ Fault("timeout")
  /\ pc[s] = "down"
  /\ r # "key"
  /\ IsFirst(r, undo[s], TeardownOrder)
  /\ res' \in {res, [res EXCEPT ![s] = Removed(s, r)]}
  /\ LET cut == IF SwallowsTimeout(r) THEN {r} ELSE undo[s]
     IN  /\ undo' = [undo EXCEPT ![s] = @ \ cut]
         /\ lost' = [lost EXCEPT ![s] = @ \cup (cut \cap res'[s])]
  /\ UNCHANGED << mode, pc, step, made, cell, age, sweep >>

Finish(s) ==
  /\ pc[s] = "down"
  /\ undo[s] = {}
  /\ pc' = [pc EXCEPT ![s] = "done"]
  /\ UNCHANGED << mode, step, made, undo, lost, res, cell, age, sweep, faults >>

-----------------------------------------------------------------------------
(* The environment *)

\* The launcher is killed: what it kept in memory is lost, what it made stays,
\* a running cell included.
Crash(s) ==
  /\ Fault("crash")
  /\ pc[s] \in {"bring", "start", "cell", "down"}
  /\ pc' = [pc EXCEPT ![s] = "crashed"]
  /\ sweep' = [sweep EXCEPT ![s] = NoSweep]
  /\ step' = [step EXCEPT ![s] = 1]
  /\ made' = [made EXCEPT ![s] = {}]
  /\ undo' = [undo EXCEPT ![s] = {}]
  /\ lost' = [lost EXCEPT ![s] = {}]
  /\ UNCHANGED << mode, res, cell, age >>

\* The slot stands for a new session id once no trace of the old one is left.
Retire(s) ==
  /\ pc[s] \in {"done", "crashed"}
  /\ res[s] = {} /\ ~ cell[s]
  /\ \A u \in Sessions : s \notin sweep[u].todo \cup sweep[u].victim
  /\ pc' = [pc EXCEPT ![s] = "idle"]
  /\ mode' = [mode EXCEPT ![s] = "mediated"]
  /\ age' = [age EXCEPT ![s] = Fresh]
  /\ lost' = [lost EXCEPT ![s] = {}]
  /\ UNCHANGED << step, made, undo, res, cell, sweep, faults >>

\* Time passes, within the two deadlines the constants state.
Older(n) == IF n > Grace THEN n ELSE n + 1

Tick ==
  /\ \A s \in Sessions : pc[s] \in {"bring", "start"} =>
       \A a \in Anchors \cap res[s] : age[s][a] < StartWindow
  /\ \A s \in Sessions : sweep[s].phase = "age" => sweep[s].gap < ProbeGap
  /\ age' = [s \in Sessions |-> [a \in Anchors |->
               IF a \in res[s] THEN Older(age[s][a]) ELSE age[s][a]]]
  /\ sweep' = [s \in Sessions |->
                 IF sweep[s].phase = "age" THEN Waiting(sweep[s]) ELSE sweep[s]]
  /\ UNCHANGED << mode, pc, step, made, undo, lost, res, cell, faults >>

-----------------------------------------------------------------------------
Reap(s) ==
  \/ ReapList(s)
  \/ \E t \in sweep[s].todo : ReapProbe(s, t)
  \/ \E t \in sweep[s].victim : ReapAge(s, t)
  \/ \E t \in sweep[s].victim, r \in sweep[s].left : ReapRemove(s, t, r)
  \/ ReapEnd(s)
  \/ ReapTimesOut(s)

\* What a launcher does of its own accord.
Launcher(s) ==
  \/ Reap(s)
  \/ Check(s)
  \/ Create(s)
  \/ StepFails(s)
  \/ CreateFailsLate(s)
  \/ StepRaises(s)
  \/ StartCell(s)
  \/ RunShellFails(s)
  \/ \E r \in undo[s] : Undo(s, r)
  \/ \E r \in undo[s] : UndoTimesOut(s, r)
  \/ Finish(s)

Next ==
  \/ \E s \in Sessions, m \in Modes : Launch(s, m)
  \/ \E s \in Sessions : Launcher(s)
  \/ \E s \in Sessions : CellExit(s)
  \/ \E s \in Sessions : Abandon(s)
  \/ \E s \in Sessions : Crash(s)
  \/ \E s \in Sessions : Retire(s)
  \/ Tick

Spec == Init /\ [][Next]_vars

\* A live launcher keeps running, sessions end, time passes, and the operator
\* goes on launching sessions of either kind: "the next launch" does come.
Fairness ==
  /\ \A s \in Sessions : WF_vars(Launcher(s) \/ CellExit(s) \/ Retire(s))
  /\ \A m \in {"mediated", "onecli"} : SF_vars(\E s \in Sessions : Launch(s, m))
  /\ SF_vars(Tick)

FairSpec == Spec /\ Fairness

-----------------------------------------------------------------------------
(* What the route promises *)

\* Fail-closed: from the moment run_shell is called until the cell is gone or
\* given up, everything the cell's egress relies on exists.  Neither a failed
\* bring-up nor another launcher's sweep leaves a cell on half a route.
RouteIntact ==
  \A s \in Sessions : pc[s] \in {"start", "cell"} => Route[mode[s]] \subseteq res[s]

Orphan(t) == ~ cell[t] /\ pc[t] \in {"down", "done", "crashed"}

\* _reap_orphans only removes what belongs to a session whose cell is gone and
\* whose launcher no longer counts on it, however its three queries interleave
\* with that session's own bring-up.
SweepOnlyOrphans ==
  \A s \in Sessions : sweep[s].phase = "rm" =>
    \A t \in sweep[s].victim : Orphan(t)

Remnant(s) == UNION {StaysWith[r] : r \in lost[s]}

\* What outlives a session whose launcher was not killed is what failed that very
\* launcher, and what docker keeps under it: whether the session came up or not,
\* whatever failed and whatever another launcher's sweep was removing of it at
\* the same time.  In particular the key file stays only if writing it failed, an
\* exception passed stop_broker by, or a docker timeout broke it off.
OnlyLostIsLeft == \A s \in Sessions : pc[s] = "done" => res[s] \subseteq Remnant(s)

\* Once launcher and cell are gone, a broker that is left, by a death or by a
\* failure the rollback missed, is swept by later launches with its networks and
\* key file, and so is a shim with its link; the internal net goes with the last
\* of the two, whichever sweep comes first.
Over(s) == pc[s] \in {"done", "crashed"} /\ ~ cell[s]

OrphanSwept ==
  \A s \in Sessions :
    /\ (Over(s) /\ "broker" \in res[s]) ~> (BrokerResources \cap res[s] = {})
    /\ (Over(s) /\ "shim" \in res[s])
         ~> ((ShimResources \cup {"oc", "int"}) \cap res[s] = {})

\* A sweep that gets through its removals leaves nothing of what it came for:
\* of the broker's share only the net a hybrid session's shim may still sit on,
\* of the shim's only that net under a broker, which the next sweep finds.
SweepIsThorough ==
  [][\A s, t \in Sessions :
       sweep[s].phase = "rm" /\ t \in sweep[s].victim /\ sweep'[s].phase = "probe" =>
         /\ Elements(SweepOrder[Step(s)]) \cap res'[t] \subseteq {"int"}
         /\ "int" \in res'[t] =>
              IF Step(s) = "reapBroker" THEN mode[t] = "hybrid"
                                        ELSE "broker" \in res'[t]]_vars

\* No launcher is held up for ever by its sweep: every launch reaches its cell
\* or comes down again, and every teardown ends.
LaunchEnds ==
  \A s \in Sessions : pc[s] \in {"bring", "down"} ~> pc[s] \notin {"bring", "down"}

-----------------------------------------------------------------------------
(* The inductive invariant behind RouteIntact and SweepOnlyOrphans *)

\* The anchors of t are at most n ticks old.
YoungerThan(t, n) == \A a \in Anchors \cap res[t] : age[t][a] <= n

BringUpProgress ==
  \A s \in Sessions : pc[s] = "bring" =>
    \A i \in 1 .. step[s] - 1 :
      Plan[mode[s]][i] \in Resources => Plan[mode[s]][i] \in res[s]

CellRuns == \A s \in Sessions : pc[s] = "cell" => cell[s]

CellOnlyAfterStart ==
  \A s \in Sessions : cell[s] => pc[s] \in {"cell", "down", "done", "crashed"}

IdleIsFresh == \A s \in Sessions : pc[s] = "idle" => res[s] = {}

StartsInTime ==
  \A s \in Sessions : pc[s] \in {"bring", "start"} => YoungerThan(s, StartWindow)

\* A session a sweep still has to look at is one that was launched.
SweepsKnownSessions ==
  \A s, t \in Sessions :
    t \in sweep[s].todo \cup sweep[s].victim => pc[t] # "idle"

\* Between its two queries a sweep holds a session that is an orphan for good,
\* or one too young for the age query to condemn.
ProbedIsOrphanOrYoung ==
  \A s, t \in Sessions :
    sweep[s].phase = "age" /\ t \in sweep[s].victim =>
      Orphan(t) \/ YoungerThan(t, StartWindow + sweep[s].gap)

\* What broker.py's comment on _REAP_GRACE_S relies on, with probes that answer.
GraceCoversStart ==
  /\ "probe" \notin Faults
  /\ StartWindow + ProbeGap <= Grace

IInv ==
  /\ TypeOK
  /\ RouteIntact
  /\ SweepOnlyOrphans
  /\ BringUpProgress
  /\ CellRuns
  /\ CellOnlyAfterStart
  /\ IdleIsFresh
  /\ StartsInTime
  /\ SweepsKnownSessions
  /\ ProbedIsOrphanOrYoung

-----------------------------------------------------------------------------
(* The inductive invariant behind OnlyLostIsLeft *)

\* What a live launcher has on the host it knows of: it is in made until the
\* clean-up starts, and then in undo until the clean-up has removed it, unless
\* the launcher lost it or docker keeps it under what it lost.
Removables == Elements(TeardownOrder)

Accounted ==
  \A s \in Sessions :
    /\ pc[s] \in {"bring", "start", "cell"} => res[s] \cap Removables \subseteq made[s]
    /\ pc[s] \in {"down", "done"} => res[s] \cap Removables \subseteq undo[s] \cup Remnant(s)
    /\ pc[s] = "done" => undo[s] = {}

\* An endpoint is there only with the container it belongs to.
EndpointsHaveContainers ==
  \A s \in Sessions :
    /\ "brokerOnEgress" \in res[s] => "broker" \in res[s]
    /\ "shimOnLink" \in res[s] => "shim" \in res[s]

\* A cell runs beside its launcher, after a launcher that was killed, or where
\* its launcher let go of it.
CellHasLauncher ==
  \A s \in Sessions : cell[s] =>
    \/ pc[s] \in {"cell", "crashed"}
    \/ pc[s] \in {"down", "done"} /\ CellNet[mode[s]] \in lost[s]

ResidueInv ==
  /\ TypeOK
  /\ IdleIsFresh
  /\ Accounted
  /\ EndpointsHaveContainers
  /\ CellHasLauncher

-----------------------------------------------------------------------------
(* The inductive invariant behind SweepIsThorough *)

\* While a sweep removes, what it has passed of its order is gone; the
\* broker's sweep passes over the internal net of a hybrid session.
SweptSoFar ==
  \A s, t \in Sessions :
    sweep[s].phase = "rm" /\ t \in sweep[s].victim =>
      /\ AtStep(s, ReapSteps)
      /\ sweep[s].victim = {t}
      /\ sweep[s].left \subseteq Elements(SweepOrder[Step(s)])
      /\ \A r \in (Elements(SweepOrder[Step(s)]) \ sweep[s].left) \cap res[t] :
           r = "int" /\ Step(s) = "reapBroker" /\ mode[t] = "hybrid"

SweepInv ==
  /\ IInv
  /\ EndpointsHaveContainers
  /\ SweptSoFar

-----------------------------------------------------------------------------
(* The route as the cell sees it *)

Whole(s) == Route[mode[s]] \subseteq res[s]

CellState(s) == IF ~ cell[s] THEN "none" ELSE IF pc[s] = "cell" THEN "served" ELSE "stray"

Lease == INSTANCE RouteLease WITH
  route <- {s \in Sessions : Whole(s)},
  cell  <- [s \in Sessions |-> CellState(s)]

\* Bring-up, rollback, teardown and the sweeps of other launchers, one docker
\* command at a time and with any of them failing, keep the lease: a cell that
\* is served starts on a whole route and keeps it.
KeepsLease == Lease!Spec

=============================================================================
