---------------------------- MODULE SessionChain ----------------------------
(***************************************************************************)
(* The commands an operator gives concurrently, each a process of its own: *)
(* whiz run, whiz adjust (adjust.py), whiz wake (wake.py, cli/wake.py), and *)
(* whiz requests approve and deny (requests.py, cli/requests.py).  They    *)
(* share the docker daemon's containers, the audit log sessions.jsonl, the *)
(* host's store of resolutions and the request files the cells may write.  *)
(* No lock protects any of them.                                           *)
(*                                                                         *)
(* A command launches at most one session, which is named after it here: a *)
(* process of Procs is also the id of the session it launches.  A session  *)
(* makes at most one request.  Only the launch's outcome is modelled; its  *)
(* network route is EgressRoute's, its monitor Enforcement's.              *)
(***************************************************************************)
EXTENDS Integers, Sequences, FiniteSets

CONSTANTS
  Procs,        \* invocations of whiz, and the sessions they launch
  NoSession,    \* None
  MaxRequests,  \* bound on the sessions whose cells make a request
  Emitted,      \* the events of which cells emit records
  MaxEmitted,   \* bound on the records of cells that are merged into the log
  Faults,       \* faults the environment inflicts, each at most once
  MaxFaults     \* and how many of them in all

FaultKinds ==
  { "daemon",   \* docker ps finds no daemon or times out
    "stop",     \* docker stop fails or times out
    "raise",    \* an exception escapes the launch
    "log",      \* appending the outcome to sessions.jsonl raises
    "store",    \* writing the resolution raises
    "crash" }   \* whiz is interrupted or killed

\* session_end with its expiry_reason.
Ends     == {"idle", "other"}
EndEvent == [idle |-> "end_idle", other |-> "end"]
Events ==
  { "start", "adjusted", "adjust_failed", "woken", "wake_failed", "resolved" }
    \cup {EndEvent[r] : r \in Ends}

ASSUME ChainConstants ==
  /\ NoSession \notin Procs
  /\ Faults \subseteq FaultKinds
  /\ MaxRequests \in Nat
  /\ Emitted \subseteq Events /\ MaxEmitted \in Nat
  /\ MaxFaults \in Nat

Commands == {"run", "adjust", "wake", "approve", "deny"}
Statuses == {"applied", "denied", "error"}

VARIABLES
  pc, cmd, target,  \* per process: where it is, its command and its session id argument
  offset,           \* the length of the log when the relaunch began
  code,             \* exit code of the launch; 2 stands for every code above 1,
                    \* and only process_request tells 0 and 1 from it
  raised,           \* the launch ended in an exception
  reason,           \* expiry_reason; "other" stands for clean and duration
  verdict,          \* the status it is recording for a request
  box,              \* per session: its container
  log,              \* sessions.jsonl
  store,            \* per session: host's record of its request
  file,             \* per session: the request file in the cell's directory
  struck            \* faults that have struck

vars == << pc, cmd, target, offset, code, raised, reason, verdict, box, log,
           store, file, struck >>
job  == << cmd, target, offset, code, raised, reason, verdict >>
host == << box, store, file >>

Exits == {0, 1, 2}
Stages ==
  { "ready", "request", "resolve", "prompt", "stop", "find", "probe", "relaunch",
    "launch", "spawn", "attached", "limit", "merge", "classify",
    "mark", "audit", "mirror", "done", "dead" }

\* `by` is the process that appended the record, or NoSession for what a cell has
\* emitted: of the two the code writes the latter, as the origin, and reads
\* neither.  `sid` is the session a reader of the record takes it for, of woken
\* the superseded one.
Record(event, sid, by, new) == [event |-> event, sid |-> sid, by |-> by, new |-> new]

TypeOK ==
  /\ pc \in [Procs -> Stages]
  /\ cmd \in [Procs -> Commands]
  /\ target \in [Procs -> Procs \cup {NoSession}]
  /\ offset \in [Procs -> Nat]
  /\ code \in [Procs -> Exits]
  /\ raised \in [Procs -> BOOLEAN]
  /\ reason \in [Procs -> Ends]
  /\ verdict \in [Procs -> Statuses \cup {"none", "settled"}]
  /\ box \in [Procs -> {"none", "running", "gone"}]
  /\ log \in Seq([event : Events, sid : Procs, by : Procs \cup {NoSession},
                  new : Procs \cup {NoSession}])
  /\ store \in [Procs -> Statuses \cup {"none"}]
  /\ file \in [Procs -> Statuses \cup {"absent", "pending", "forged"}]
  /\ struck \subseteq Faults

Init ==
  /\ pc = [p \in Procs |-> "ready"]
  /\ cmd = [p \in Procs |-> "run"]
  /\ target = [p \in Procs |-> NoSession]
  /\ offset = [p \in Procs |-> 0]
  /\ code = [p \in Procs |-> 0]
  /\ raised = [p \in Procs |-> FALSE]
  /\ reason = [p \in Procs |-> "other"]
  /\ verdict = [p \in Procs |-> "none"]
  /\ box = [s \in Procs |-> "none"]
  /\ log = << >>
  /\ store = [s \in Procs |-> "none"]
  /\ file = [s \in Procs |-> "absent"]
  /\ struck = {}

-----------------------------------------------------------------------------
Fault(kind) ==
  /\ kind \in Faults \ struck
  /\ Cardinality(struck) < MaxFaults
  /\ struck' = struck \cup {kind}

At(p, stage) == pc[p] = stage
GoTo(p, stage) == pc' = [pc EXCEPT ![p] = stage]

Logged(event, sid) == \E i \in DOMAIN log : log[i].event = event /\ log[i].sid = sid
LoggedByHost(event, sid) ==
  \E i \in DOMAIN log :
    log[i].event = event /\ log[i].sid = sid /\ log[i].by # NoSession
LoggedBy(events, p) == \E i \in DOMAIN log : log[i].event \in events /\ log[i].by = p
Started(s) == Logged("start", s)

\* append_event: the record is on disk and the process goes on, or it raises.
AppendOr(p, record, next) ==
  \/ log' = Append(log, record) /\ GoTo(p, next) /\ struck' = struck
  \/ Fault("log") /\ log' = log /\ GoTo(p, "dead")

-----------------------------------------------------------------------------
(* Commands *)

Run(p) ==
  /\ At(p, "ready")
  /\ GoTo(p, "launch")
  /\ UNCHANGED << job, host, log, struck >>

\* A session id the log does not know is refused at once, and not modelled.
Begin(p, t, command, stage) ==
  /\ At(p, "ready") /\ Started(t)
  /\ cmd' = [cmd EXCEPT ![p] = command]
  /\ target' = [target EXCEPT ![p] = t]
  /\ GoTo(p, stage)
  /\ UNCHANGED << offset, code, raised, reason, verdict, host, log, struck >>

Adjust(p, t)  == Begin(p, t, "adjust", "resolve")
WakeUp(p, t)  == Begin(p, t, "wake", "find")
Approve(p, t) == file[t] # "absent" /\ Begin(p, t, "approve", "request")
Deny(p, t)    == file[t] # "absent" /\ Begin(p, t, "deny", "request")

-----------------------------------------------------------------------------
(* The request of a session *)

\* The cell submits its request, and may later write any status into the file.
Submit(s) ==
  /\ box[s] = "running" /\ file[s] = "absent"
  /\ Cardinality({t \in Procs : file[t] # "absent"}) < MaxRequests
  /\ file' = [file EXCEPT ![s] = "pending"]
  /\ UNCHANGED << pc, job, box, log, store, struck >>

Forge(s) ==
  /\ box[s] = "running" /\ file[s] \notin {"absent", "forged"}
  /\ file' = [file EXCEPT ![s] = "forged"]
  /\ UNCHANGED << pc, job, box, log, store, struck >>

\* (mutant) The status is read from the file the cell can write.
StatusInFile(s) ==
  CASE file[s] = "forged"                -> "applied"
    [] file[s] \in {"absent", "pending"} -> "none"
    [] OTHER                             -> file[s]

\* _load_request: the status is the one in the host's store, or pending.
HostStatus(s) == store[s]

FindSettled(p) ==
  /\ At(p, "request") /\ HostStatus(target[p]) # "none"
  /\ verdict' = [verdict EXCEPT ![p] = "settled"]
  /\ GoTo(p, "done")
  /\ UNCHANGED << cmd, target, offset, code, raised, reason, host, log, struck >>

\* The operator denies, or validate_request refuses.
Refuse(p) ==
  /\ At(p, "request") /\ HostStatus(target[p]) = "none"
  /\ verdict' = [verdict EXCEPT ![p] = "denied"]
  /\ GoTo(p, "mark")
  /\ UNCHANGED << cmd, target, offset, code, raised, reason, host, log, struck >>

Validate(p) ==
  /\ At(p, "request") /\ cmd[p] = "approve" /\ HostStatus(target[p]) = "none"
  /\ GoTo(p, "resolve")
  /\ UNCHANGED << job, host, log, struck >>

\* (mutant) The status of a refused adjustment has a name of its own.
VerdictNamed(c) == CASE c = 0 -> "applied" [] c = 1 -> "declined" [] OTHER -> "error"

Verdict(c) == CASE c = 0 -> "applied" [] c = 1 -> "denied" [] OTHER -> "error"

\* (mutant) process_request records successes and refusals only.
ReturnForgets(p, c) ==
  IF cmd[p] = "approve" /\ c # 2
    THEN GoTo(p, "mark") /\ verdict' = [verdict EXCEPT ![p] = Verdict(c)]
    ELSE GoTo(p, "done") /\ verdict' = verdict

\* adjust_session returns with an exit code, which process_request records.
Return(p, c) ==
  IF cmd[p] = "approve"
    THEN GoTo(p, "mark") /\ verdict' = [verdict EXCEPT ![p] = Verdict(c)]
    ELSE GoTo(p, "done") /\ verdict' = verdict

\* mark_resolved: the host's store, the audit log, the cell's copy of it.
\* (mutant) Only refusals are appended to the audit log.
AuditDenials(status) == status = "denied"

Audited(status) == status \in {"denied", "error"}

Mark(p) ==
  /\ At(p, "mark")
  /\ \/ /\ store' = [store EXCEPT ![target[p]] = verdict[p]]
        /\ GoTo(p, IF Audited(verdict[p]) THEN "audit" ELSE "mirror")
        /\ struck' = struck
     \/ Fault("store") /\ store' = store /\ GoTo(p, "dead")
  /\ UNCHANGED << job, box, file, log >>

Audit(p) ==
  /\ At(p, "audit")
  /\ AppendOr(p, Record("resolved", target[p], p, NoSession), "mirror")
  /\ UNCHANGED << job, host >>

\* A copy that cannot be written is given up.
Mirror(p) ==
  /\ At(p, "mirror")
  /\ file' = [file EXCEPT ![target[p]] = verdict[p]] \/ file' = file
  /\ GoTo(p, "done")
  /\ UNCHANGED << job, box, store, log, struck >>

-----------------------------------------------------------------------------
(* adjust_session *)

\* The session is not running, or docker cannot say; also when the command line
\* or the record of the session's start rules the change out.
Unresolved(p) ==
  /\ At(p, "resolve")
  /\ \/ box[target[p]] # "running" /\ struck' = struck
     \/ Fault("daemon")
  /\ Return(p, 2)
  /\ UNCHANGED << cmd, target, offset, code, raised, reason, host, log >>

\* Every change asked for is in effect already.
NoChange(p) ==
  /\ At(p, "resolve") /\ box[target[p]] = "running"
  /\ Return(p, 0)
  /\ UNCHANGED << cmd, target, offset, code, raised, reason, host, log, struck >>

\* A change that only narrows needs no confirmation; a request never narrows.
Resolve(p) ==
  /\ At(p, "resolve") /\ box[target[p]] = "running"
  /\ GoTo(p, "prompt") \/ (cmd[p] = "adjust" /\ GoTo(p, "stop"))
  /\ UNCHANGED << job, host, log, struck >>

Confirm(p) ==
  /\ At(p, "prompt")
  /\ GoTo(p, "stop")
  /\ UNCHANGED << job, host, log, struck >>

Cancel(p) ==
  /\ At(p, "prompt")
  /\ Return(p, 1)
  /\ UNCHANGED << cmd, target, offset, code, raised, reason, host, log, struck >>

\* (mutant) The relaunch does not look at what became of docker stop.
StopUnchecked(p) ==
  /\ At(p, "stop")
  /\ box' \in {box, [box EXCEPT ![target[p]] = "gone"]}
  /\ GoTo(p, "relaunch")
  /\ UNCHANGED << job, log, store, file, struck >>

\* docker stop; a container that is gone already counts as stopped.
Stop(p) ==
  /\ At(p, "stop")
  /\ box' = [box EXCEPT ![target[p]] = "gone"]
  /\ GoTo(p, "relaunch")
  /\ UNCHANGED << job, log, store, file, struck >>

\* It times out (1), fails (the CLI's 1) or is not installed (127).
StopFails(p) ==
  /\ At(p, "stop") /\ Fault("stop")
  /\ box' \in {box, [box EXCEPT ![target[p]] = "gone"]}
  /\ \E c \in {1, 2} : Return(p, c)
  /\ UNCHANGED << cmd, target, offset, code, raised, reason, log, store, file >>

-----------------------------------------------------------------------------
(* whiz wake *)

\* find_wakeable: ended by its idle limit, and not woken before.  Of the ends a
\* session has in the log, one of them idle is enough for a bare wake; a wake that
\* is given the session goes by the last.
EndsOf(s) == {i \in DOMAIN log : log[i].event \in {"end", "end_idle"} /\ log[i].sid = s}

AnyEndIdle(s) == \E i \in EndsOf(s) : log[i].event = "end_idle"

LastEndIdle(s) ==
  \E i \in EndsOf(s) : log[i].event = "end_idle" /\ \A j \in EndsOf(s) : j <= i

Find(p) ==
  /\ At(p, "find")
  /\ \E idle \in {AnyEndIdle(target[p]), LastEndIdle(target[p])} :
       GoTo(p, IF idle /\ ~ Logged("woken", target[p]) THEN "probe" ELSE "done")
  /\ UNCHANGED << job, host, log, struck >>

\* (mutant) The container of the session is not looked for.
SeenGone(s) == FALSE

\* _is_active, as docker ps shows it.
SeenActive(s) == box[s] = "running"

\* Without a daemon the session counts as not active.
Probe(p) ==
  /\ At(p, "probe")
  /\ \/ GoTo(p, IF SeenActive(target[p]) THEN "done" ELSE "relaunch") /\ struck' = struck
     \/ Fault("daemon") /\ GoTo(p, "relaunch")
  /\ UNCHANGED << job, host, log >>

\* A mount of the session is missing on disk.
MountMissing(p) ==
  /\ At(p, "probe")
  /\ GoTo(p, "done")
  /\ UNCHANGED << job, host, log, struck >>

-----------------------------------------------------------------------------
(* The launch of a session *)

\* session_log_size, before _perform_launch.
TakeOffset(p) ==
  /\ At(p, "relaunch")
  /\ offset' = [offset EXCEPT ![p] = Len(log)]
  /\ GoTo(p, "launch")
  /\ UNCHANGED << cmd, target, code, raised, reason, verdict, host, log, struck >>

\* After _perform_launch: a relaunch is classified by its caller.
Left(p) == IF cmd[p] = "run" THEN "done" ELSE "classify"

Leave(p, c) == code' = [code EXCEPT ![p] = c] /\ GoTo(p, Left(p))

LaunchFails(p) ==
  /\ At(p, "launch")
  /\ Leave(p, 2)
  /\ UNCHANGED << cmd, target, offset, raised, reason, verdict, host, log, struck >>

\* (mutant) The launch goes straight to docker run.
StartUnlogged(p) ==
  /\ At(p, "launch")
  /\ GoTo(p, "spawn")
  /\ UNCHANGED << job, host, log, struck >>

\* Preflight, the safety checks and the session's network are done.
LogStart(p) ==
  /\ At(p, "launch")
  /\ log' = Append(log, Record("start", p, p, NoSession))
  /\ GoTo(p, "spawn")
  /\ UNCHANGED << job, host, struck >>

Spawn(p) ==
  /\ At(p, "spawn")
  /\ box' = [box EXCEPT ![p] = "running"]
  /\ GoTo(p, "attached")
  /\ UNCHANGED << job, log, store, file, struck >>

\* docker run cannot create the container.
SpawnFails(p) ==
  /\ At(p, "spawn")
  /\ code' = [code EXCEPT ![p] = 2]
  /\ GoTo(p, "merge")
  /\ UNCHANGED << cmd, target, offset, raised, reason, verdict, host, log, struck >>

BoxExits(s) ==
  /\ box[s] = "running"
  /\ box' = [box EXCEPT ![s] = "gone"]
  /\ UNCHANGED << pc, job, log, store, file, struck >>

ClientReturns(p) ==
  /\ At(p, "attached") /\ box[p] = "gone"
  /\ \E c \in Exits :
       /\ cmd[p] # "approve" => c = 2
       /\ code' = [code EXCEPT ![p] = c]
  /\ GoTo(p, "merge")
  /\ UNCHANGED << cmd, target, offset, raised, reason, verdict, host, log, struck >>

\* The monitor finds a limit exceeded while the client is running, ...
LimitHit(p) ==
  /\ At(p, "attached") /\ box[p] = "running"
  /\ \E r \in Ends : reason' = [reason EXCEPT ![p] = r]
  /\ GoTo(p, "limit")
  /\ UNCHANGED << cmd, target, offset, code, raised, verdict, host, log, struck >>

\* ... and stops the container, unless that fails unnoticed.
LimitStops(p) ==
  /\ At(p, "limit")
  /\ \/ box' = [box EXCEPT ![p] = "gone"] /\ struck' = struck
     \/ box' = box /\ Fault("stop")
  /\ code' = [code EXCEPT ![p] = 2]
  /\ GoTo(p, "merge")
  /\ UNCHANGED << cmd, target, offset, raised, reason, verdict, log, store, file >>

\* merge_agent_events: what the cell has emitted under its own session's id.  The
\* id superseded is another field, and its own choice.
MergeEmitted(p) ==
  /\ At(p, "merge") /\ box[p] # "none"
  /\ Cardinality({i \in DOMAIN log : log[i].by = NoSession}) < MaxEmitted
  /\ \E event \in Emitted, sid \in Procs :
       /\ event # "woken" => sid = p
       /\ log' = Append(log, Record(event, sid, NoSession, NoSession))
  /\ UNCHANGED << pc, job, host, struck >>

LogEnd(p) ==
  /\ At(p, "merge")
  /\ log' = Append(log, Record(EndEvent[reason[p]], p, p, NoSession))
  /\ reason' = [reason EXCEPT ![p] = "other"]
  /\ GoTo(p, Left(p))
  /\ UNCHANGED << cmd, target, offset, code, raised, verdict, host, struck >>

\* An exception other than typer.Exit leaves _perform_launch.
LaunchRaises(p) ==
  /\ pc[p] \in {"launch", "spawn", "attached", "merge"}
  /\ Fault("raise")
  /\ raised' = [raised EXCEPT ![p] = TRUE]
  /\ GoTo(p, Left(p))
  /\ UNCHANGED << cmd, target, offset, code, reason, verdict, host, log >>

-----------------------------------------------------------------------------
(* The record of a relaunch *)

\* (mutant) The first record after the offset is skipped.
StartsPast(p) == {i \in DOMAIN log : i > offset[p] + 1 /\ log[i].event = "start"}

StartsAfter(p) == {i \in DOMAIN log : i > offset[p] /\ log[i].event = "start"}

\* find_session_start_after_offset: the most recent start, whoever logged it.
FoundStart(p) ==
  IF StartsAfter(p) = {} THEN NoSession
  ELSE log[CHOOSE i \in StartsAfter(p) : \A j \in StartsAfter(p) : j <= i].sid

Success(c) == IF c = "wake" THEN "woken" ELSE "adjusted"
Failure(c) == IF c = "wake" THEN "wake_failed" ELSE "adjust_failed"

Outcome(p) ==
  IF raised[p] \/ FoundStart(p) = NoSession
    THEN Record(Failure(cmd[p]), target[p], p, NoSession)
    ELSE Record(Success(cmd[p]), target[p], p, FoundStart(p))

\* Locals of the launch that nobody reads again.
Forget(p) == offset' = [offset EXCEPT ![p] = 0] /\ code' = [code EXCEPT ![p] = 0]

\* (mutant) An exception of the relaunch is passed on unrecorded.
ClassifyUncaught(p) ==
  /\ At(p, "classify")
  /\ IF raised[p]
       THEN log' = log /\ struck' = struck /\ Return(p, 2)
       ELSE /\ AppendOr(p, Outcome(p), IF cmd[p] = "approve" THEN "mark" ELSE "done")
            /\ verdict' = [verdict EXCEPT ![p] = IF cmd[p] = "approve"
                                                   THEN Verdict(code[p]) ELSE @]
  /\ Forget(p)
  /\ UNCHANGED << cmd, target, raised, reason, host >>

\* The outcome is logged, and the exit code of the launch is the command's own.
Classify(p) ==
  /\ At(p, "classify")
  /\ \/ /\ log' = Append(log, Outcome(p)) /\ struck' = struck
        /\ Return(p, IF raised[p] THEN 2 ELSE code[p])
     \/ Fault("log") /\ log' = log /\ GoTo(p, "dead") /\ verdict' = verdict
  /\ Forget(p)
  /\ UNCHANGED << cmd, target, raised, reason, host >>

-----------------------------------------------------------------------------
Crash(p) ==
  /\ pc[p] \notin {"ready", "done", "dead"}
  /\ Fault("crash")
  /\ GoTo(p, "dead")
  /\ UNCHANGED << job, host, log >>

\* What the operator types.
Operator(p) ==
  \/ Run(p)
  \/ \E t \in Procs : Adjust(p, t) \/ WakeUp(p, t) \/ Approve(p, t) \/ Deny(p, t)

Request(p) == FindSettled(p) \/ Refuse(p) \/ Validate(p) \/ Mark(p) \/ Audit(p) \/ Mirror(p)
Adjusting(p) ==
  Unresolved(p) \/ NoChange(p) \/ Resolve(p) \/ Confirm(p) \/ Cancel(p) \/ Stop(p) \/ StopFails(p)
Waking(p) == Find(p) \/ Probe(p) \/ MountMissing(p)
Launching(p) ==
  \/ TakeOffset(p) \/ LaunchFails(p) \/ LogStart(p) \/ Spawn(p) \/ SpawnFails(p)
  \/ ClientReturns(p) \/ LimitHit(p) \/ LimitStops(p) \/ MergeEmitted(p) \/ LogEnd(p)
  \/ Classify(p)

Work(p) == Request(p) \/ Adjusting(p) \/ Waking(p) \/ Launching(p)
Cell(s) == Submit(s) \/ Forge(s) \/ BoxExits(s)

Next == \E p \in Procs : Operator(p) \/ Work(p) \/ Cell(p) \/ LaunchRaises(p) \/ Crash(p)

Spec == Init /\ [][Next]_vars

\* A command under way goes on, the operator answers its prompt, and sessions
\* end in time: the duration cap of Enforcement, or the operator leaving.
Fairness == \A p \in Procs : WF_vars(Work(p)) /\ WF_vars(BoxExits(p))

FairSpec == Spec /\ Fairness

-----------------------------------------------------------------------------
(* Properties *)

\* A running container has its session_start in the log, so that it can be
\* adjusted and audited whatever became of the whiz that launched it
\* (docker_cmd.run_shell, adjust_session's lookup of the start event).
RunningIsLogged == \A s \in Procs : box[s] = "running" => Started(s)

\* The container of a relaunched session never runs beside the one it replaces,
\* which holds the same harness state: adjust relaunches after its docker stop
\* only, and wake looks for the container even when the log says it has ended.
NeverBoth ==
  \A p \in Procs :
    cmd[p] # "run" /\ box[p] = "running" => box[target[p]] # "running"

\* A relaunch that returned is recorded as failed only if its session never
\* started: find_session_start_after_offset cannot overlook its start.
FailureIsTrue ==
  \A p \in Procs :
    LoggedBy({"adjust_failed", "wake_failed"}, p) /\ ~ raised[p] => ~ Started(p)

\* An operator is turned away from a request as already resolved only if a
\* command of an operator resolved it: what the cell writes into its file
\* cannot take a request away from review (F-D-05, _load_request).
OnlyOperatorsSettle ==
  \A p \in Procs :
    verdict[p] = "settled" =>
      \E q \in Procs \ {p} : target[q] = target[p] /\ verdict[q] \in Statuses

\* The cell reads a denial or an error only after the audit log holds it
\* as the host's own (B4, the write order of mark_resolved).
RefusalsAreAudited ==
  \A s \in Procs : file[s] \in {"denied", "error"} => LoggedByHost("resolved", s)

\* A session stopped for an adjustment is accounted for in the log: relaunched
\* or not (F-G-04, F-G-05, F-G-12), unless the command itself dies.
StopsAreAccounted ==
  \A p \in Procs :
    At(p, "relaunch") /\ cmd[p] # "wake"
      ~> At(p, "dead") \/ LoggedBy({"adjusted", "adjust_failed"}, p)

\* A request whose change was let through gets a status in the host's store,
\* whatever the adjustment's outcome (process_request), unless the command dies.
GrantsAreSettled ==
  \A p, s \in Procs :
    At(p, "stop") /\ cmd[p] = "approve" /\ target[p] = s
      ~> At(p, "dead") \/ store[s] # "none"

\* A relaunch whose session started and that is over, short of dying, is in the
\* log as what it was, once, before the status of its request is: as a success
\* if the launch returned, as a failure if it raised.
Outcomes == {"adjusted", "adjust_failed", "woken", "wake_failed"}

RelaunchesAreRecorded ==
  /\ \A p \in Procs :
       cmd[p] # "run" /\ Started(p) /\ pc[p] \in {"mark", "audit", "mirror", "done"} =>
         LoggedBy({IF raised[p] THEN Failure(cmd[p]) ELSE Success(cmd[p])}, p)
  /\ \A i, j \in DOMAIN log :
       /\ {log[i].event, log[j].event} \subseteq Outcomes
       /\ log[i].by = log[j].by /\ log[i].by # NoSession
       => i = j

\* Followed back in the log by the host's records, a lineage of sessions ends: what
\* adjusted or woken names as new was started after what it names as old was
\* started or, for woken, was logged as ended idle, also when it names a wrong new
\* session; and so was the session the command itself started.  A start or an idle
\* end may be one a cell emitted.
Origin(command) == IF command \in {"wake", "woken"} THEN EndEvent["idle"] ELSE "start"

LoggedBefore(i, event, sid) ==
  \E k \in DOMAIN log : k < i /\ log[k].event = event /\ log[k].sid = sid

LineageGoesBack ==
  /\ \A i \in DOMAIN log :
       log[i].event \in {"adjusted", "woken"} /\ log[i].by # NoSession =>
       \E j \in DOMAIN log :
         /\ j < i /\ log[j].event = "start" /\ log[j].sid = log[i].new
         /\ LoggedBefore(j, Origin(log[i].event), log[i].sid)
  /\ \A i \in DOMAIN log : log[i].event = "start" =>
       \A p \in Procs : p = log[i].sid /\ cmd[p] # "run" =>
         LoggedBefore(i, Origin(cmd[p]), target[p])

\* A wake that looks its session up finds the record of any other that resumed it
\* and is over, so that wakes given in turn resume it once: what find_wakeable
\* makes good of wake.py:96-97. Two under way at once, and one whose launch
\* raised or that died before its record, are what WokenOnce fails by.
LaterWakeRefused ==
  \A p, q \in Procs :
    /\ At(p, "find") /\ pc'[p] = "probe"
    /\ cmd[q] = "wake" /\ target[q] = target[p] /\ Started(q)
    => ~ At(q, "done") \/ raised[q]

WakesInTurn == [][LaterWakeRefused]_vars

\* An approve or a deny that comes to its end leaves the request a status in the
\* host's store, whichever way it took (process_request): no request an operator
\* has dealt with stays pending.
DoneIsSettled ==
  \A p \in Procs :
    cmd[p] \in {"approve", "deny"} /\ At(p, "done") => store[target[p]] # "none"

\* What wake.py:96-97 says of session_woken: an idle session is not resumed twice.
WokenOnce ==
  \A p, q \in Procs :
    /\ cmd[p] = "wake" /\ cmd[q] = "wake" /\ target[p] = target[q] /\ p # q
    => box[p] = "none" \/ box[q] = "none"

\* What adjust.py:878-880 says of a start found after the offset: the relaunch
\* reached the start of its own container.
SuccessIsTrue ==
  \A p \in Procs : LoggedBy({"adjusted", "woken"}, p) => Started(p)

\* The launch of every command is a session as SessionLife describes it, which
\* is what Enforcement makes of one: also for a session another command stops.
RecordOf(p) ==
  IF EndsOf(p) # {} THEN "ended"
  ELSE IF Started(p) THEN "started" ELSE "none"

Life(p) == INSTANCE SessionLife WITH
  record <- RecordOf(p),
  box    <- box[p],
  lost   <- "stop" \in struck,
  capped <- TRUE

LaunchesAreLives ==
  /\ \A p \in Procs : Life(p)!Init
  /\ [][\A p \in Procs : [Life(p)!Next]_(Life(p)!vars)]_vars

\* Whatever the other commands do, the container of a session the log has as
\* ended is over, unless docker failed to stop it: what wake and the listings go
\* by (wake.find_wakeable, docker_cmd.run_shell).
EndedAreOver == \A p \in Procs : Life(p)!EndedIsOver

=============================================================================
