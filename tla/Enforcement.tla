----------------------------- MODULE Enforcement -----------------------------
(***************************************************************************)
(* One session under run_shell (docker_cmd.py) and its monitor             *)
(* (enforcement.py): the docker run client and the container behind it,    *)
(* the agent in the container, the polling loop that watches the duration  *)
(* cap and the idle limit, the stop ladder after a limit is hit (wrap-up,  *)
(* docker stop, reaping the client), and the audit records of the session. *)
(*                                                                         *)
(* Time is counted in ticks.  A step of the monitor takes no time unless   *)
(* it waits for a subprocess, and then at most what its timeout allows:    *)
(* Tick is disabled while the monitor has something to do.                 *)
(***************************************************************************)
EXTENDS Integers, FiniteSets

CONSTANTS
  Durations,   \* duration caps a session may have
  Idles,       \* idle limits a session may have
  Poll,        \* POLL_INTERVAL_SECONDS
  SampleTime,  \* timeout of docker stats
  StopTime,    \* timeout of docker stop, the grace included
  ReapTime,    \* how long _reap waits for the client to exit
  KillTime,    \* and how long after killing it
  MaxLead,     \* _DEFAULT_WARNING_LEAD_SECONDS
  CreateTime,  \* longest time docker takes to create and start the container
  Faults,      \* faults the environment inflicts, each at most once
  MaxFaults    \* and how many of them in one session

NoLimit == -1

FaultKinds ==
  { "log",        \* appending to sessions.jsonl raises
    "warner",     \* the expiry warner raises, and not for the log's sake
    "wrapup",     \* the adapter's wrap_up raises
    "stop",       \* docker stop fails or times out
    "detach",     \* the docker run client dies before its container
    "wedged",     \* the client survives SIGKILL for a while
    "merge",      \* merging the agent's events raises
    "interrupt" } \* whiz is interrupted or killed

ASSUME EnforcementConstants ==
  /\ Durations \subseteq Nat \cup {NoLimit}
  /\ Idles \subseteq Nat \cup {NoLimit}
  /\ {Poll, SampleTime, StopTime, ReapTime, KillTime, MaxLead, CreateTime} \subseteq Nat
  /\ Faults \subseteq FaultKinds
  /\ MaxFaults \in Nat

Adapters == {"generic", "hermes"}

VARIABLES
  duration,   \* duration_limit
  idleLimit,  \* idle_limit
  adapter,
  pc,         \* where run_shell and monitor_and_enforce are
  waited,     \* ticks spent in the subprocess call at pc; in a sample, ticks
              \* since the iteration read t = now()
  cid,        \* container_id has been read
  warned,
  reason,     \* expiry_reason
  client,     \* the docker run process
  box,        \* the container
  elapsed,    \* ticks since start_time
  idle,       \* ticks since the tracker's _last_active
  prev,       \* the tracker's _prev: none yet, or whether it had stats
  ioMoved,    \* network or block I/O since the last sample
  fileMoved,  \* an agent event or request since the last sample
  quiet,      \* ticks since the last one
  log,        \* the kinds of record the session has in sessions.jsonl
  struck      \* faults so far

limits  == << duration, idleLimit, adapter >>
tracker == << idle, prev >>
agent   == << ioMoved, fileMoved, quiet >>
docker  == << client, box >>
vars == << limits, pc, waited, cid, warned, reason, docker, elapsed, tracker,
           agent, log, struck >>

Records == {"start", "warning", "warner_failed", "wrap_up_failed", "reap_timeout", "end"}

\* Clocks stop here: nothing is compared with a larger number.
LastTick ==
  IF duration = NoLimit THEN CreateTime
  ELSE duration + Poll + SampleTime + 2 * StopTime + 1

TypeOK ==
  /\ duration \in Durations /\ idleLimit \in Idles /\ adapter \in Adapters
  /\ pc \in {"launch", "wait", "check", "sample", "expired", "wrapup", "stop",
             "reap", "killed", "merge", "close", "ended", "raised"}
  /\ waited \in Nat /\ cid \in BOOLEAN /\ warned \in BOOLEAN
  /\ reason \in {"clean", "duration", "idle"}
  /\ client \in {"none", "up", "gone"}
  /\ box \in {"none", "created", "running", "exited"}
  /\ elapsed \in Nat /\ idle \in Nat /\ quiet \in Nat
  /\ prev \in {"none", "blind", "stats"}
  /\ ioMoved \in BOOLEAN /\ fileMoved \in BOOLEAN
  /\ log \subseteq Records /\ struck \subseteq Faults

Init ==
  /\ duration \in Durations /\ idleLimit \in Idles /\ adapter \in Adapters
  /\ pc = "launch" /\ waited = 0 /\ cid = FALSE /\ warned = FALSE
  /\ reason = "clean" /\ client = "none" /\ box = "none"
  /\ elapsed = 0 /\ idle = 0 /\ prev = "none"
  /\ ioMoved = FALSE /\ fileMoved = FALSE /\ quiet = 0
  /\ log = {} /\ struck = {}

Fault(kind) ==
  /\ kind \in Faults \ struck
  /\ Cardinality(struck) < MaxFaults
  /\ struck' = struck \cup {kind}

\* append_event, then on to next; when the append raises, so does run_shell.
Record(event, next) ==
  \/ log' = log \cup {event} /\ pc' = next /\ UNCHANGED struck
  \/ log' = log /\ pc' = "raised" /\ Fault("log")

GoTo(next) == pc' = next /\ UNCHANGED << log, struck >>

-----------------------------------------------------------------------------
(* docker and the agent *)

\* The container's id is known from the moment docker has created it.
CreateBox ==
  /\ client = "up" /\ box = "none"
  /\ box' = "created"
  /\ UNCHANGED << limits, pc, waited, cid, warned, reason, client, elapsed,
                  tracker, agent, log, struck >>

StartBox ==
  /\ client = "up" /\ box = "created"
  /\ box' = "running"
  /\ UNCHANGED << limits, pc, waited, cid, warned, reason, client, elapsed,
                  tracker, agent, log, struck >>

BoxExits ==
  /\ box = "running"
  /\ box' = "exited"
  /\ UNCHANGED << limits, pc, waited, cid, warned, reason, client, elapsed,
                  tracker, agent, log, struck >>

\* docker run returns: it failed, or its container is over.
ClientExits ==
  /\ client = "up" /\ box # "running"
  /\ client' = "gone"
  /\ UNCHANGED << limits, pc, waited, cid, warned, reason, box, elapsed,
                  tracker, agent, log, struck >>

ClientLost ==
  /\ client = "up" /\ box = "running"
  /\ Fault("detach")
  /\ client' = "gone"
  /\ UNCHANGED << limits, pc, waited, cid, warned, reason, box, elapsed,
                  tracker, agent, log >>

\* The agent's doings matter while somebody watches for idleness.
Watched == box = "running" /\ idleLimit # NoLimit /\ pc \in {"wait", "check", "sample"}

AgentTraffic ==
  /\ Watched
  /\ ioMoved' = TRUE
  /\ UNCHANGED << limits, pc, waited, cid, warned, reason, docker, elapsed,
                  tracker, fileMoved, quiet, log, struck >>

\* whiz_emit_event or a request file.
AgentWrites ==
  /\ Watched
  /\ fileMoved' = TRUE /\ quiet' = 0
  /\ UNCHANGED << limits, pc, waited, cid, warned, reason, docker, elapsed,
                  tracker, ioMoved, log, struck >>

-----------------------------------------------------------------------------
(* run_shell up to the monitor *)

\* session_start is on disk before the client is spawned.
LogStart ==
  /\ pc = "launch" /\ log = {}
  /\ Record("start", "launch")
  /\ UNCHANGED << limits, waited, cid, warned, reason, docker, elapsed, tracker, agent >>

Spawn ==
  /\ pc = "launch" /\ log # {}
  /\ client' = "up" /\ waited' = 0
  /\ GoTo("wait")
  /\ UNCHANGED << limits, cid, warned, reason, box, elapsed, tracker, agent >>

-----------------------------------------------------------------------------
(* The polling loop *)

Limited == duration # NoLimit \/ idleLimit # NoLimit

\* proc.wait returns: the session is over and counts as clean.
WaitReturns ==
  /\ pc = "wait" /\ client = "gone"
  /\ GoTo("merge")
  /\ UNCHANGED << limits, waited, cid, warned, reason, docker, elapsed, tracker, agent >>

\* proc.wait times out; the iteration reads the clock and the cidfile.
Wake ==
  /\ pc = "wait" /\ Limited /\ waited = Poll
  /\ cid' = (cid \/ box # "none")
  /\ GoTo("check")
  /\ UNCHANGED << limits, waited, warned, reason, docker, elapsed, tracker, agent >>

\* (mutant) The cap compared one poll late.
ExpiredLate == duration # NoLimit /\ elapsed >= duration + Poll + 1

Expired == duration # NoLimit /\ elapsed >= duration

\* _warning_lead: the default, or a fifth of a short cap.
Lead(d) ==
  LET fifth == IF d \div 5 < 1 THEN 1 ELSE d \div 5
  IN  IF fifth < MaxLead THEN fifth ELSE MaxLead

\* (mutant) The warning sent only by an iteration that hits the lead exactly.
WarningDueExactly ==
  /\ duration # NoLimit /\ ~ warned
  /\ elapsed = duration - Lead(duration)

WarningDue ==
  /\ duration # NoLimit /\ ~ warned
  /\ elapsed >= duration - Lead(duration)

\* A limit is hit, unless a last look at the client finds it gone.
Expire(kind) ==
  IF client = "gone"
    THEN pc' = "merge" /\ reason' = "clean"
    ELSE pc' = "expired" /\ reason' = kind

DurationHit ==
  /\ pc = "check" /\ Expired
  /\ Expire("duration")
  /\ UNCHANGED << limits, waited, cid, warned, docker, elapsed, tracker, agent, log, struck >>

\* A warner that raises is recorded instead, by the same append.
Warn ==
  /\ pc = "check" /\ ~ Expired /\ WarningDue
  /\ warned' = TRUE
  /\ \/ Record("warning", "check")
     \/ Fault("warner") /\ log' = log \cup {"warner_failed"} /\ pc' = pc
  /\ UNCHANGED << limits, waited, cid, reason, docker, elapsed, tracker, agent >>

Sampled == idleLimit # NoLimit /\ cid

NextIteration ==
  /\ pc = "check" /\ ~ Expired /\ ~ WarningDue
  /\ waited' = 0
  /\ GoTo(IF Sampled THEN "sample" ELSE "wait")
  /\ UNCHANGED << limits, cid, warned, reason, docker, elapsed, tracker, agent >>

\* (mutant) An outage of docker stats hides the agent's own writes.
BlindWithoutStats(stats, cpu) ==
  \/ prev = "none"
  \/ stats /\ cpu
  \/ stats /\ prev = "stats" /\ ioMoved
  \/ stats /\ fileMoved

\* ActivityTracker.observe: the first sample counts as activity, then CPU above
\* the threshold, an I/O counter that differs from the previous sample's, or a
\* newer agent file.
Active(stats, cpu) ==
  \/ prev = "none"
  \/ stats /\ cpu
  \/ stats /\ prev = "stats" /\ ioMoved
  \/ fileMoved

\* The sample is complete: the idle clock is set to the t read before docker
\* stats was called, and compared with that same t.
Sample(stats, cpu) ==
  /\ pc = "sample"
  /\ cpu => box = "running"
  /\ idle' = IF Active(stats, cpu) THEN waited ELSE idle
  /\ prev' = IF stats THEN "stats" ELSE "blind"
  /\ ioMoved' = FALSE /\ fileMoved' = FALSE
  /\ waited' = 0
  /\ IF idle' - waited >= idleLimit
       THEN Expire("idle")
       ELSE pc' = "wait" /\ reason' = reason
  /\ UNCHANGED << limits, cid, warned, docker, elapsed, quiet, log, struck >>

-----------------------------------------------------------------------------
(* The stop ladder *)

\* The cidfile is read once more; without an id there is nothing to stop.
Enforce ==
  /\ pc = "expired"
  /\ cid' = (cid \/ box # "none")
  /\ waited' = 0
  /\ GoTo(IF cid' THEN "wrapup" ELSE "reap")
  /\ UNCHANGED << limits, warned, reason, docker, elapsed, tracker, agent >>

Stopped == IF box = "running" THEN "exited" ELSE box

\* `docker stop` returns or times out.  Its outcome is looked at by nobody: a
\* failed wrap-up is not followed by a plain docker stop.
DockerStop ==
  /\ \/ box' = Stopped /\ struck' = struck
     \/ box' \in {box, Stopped} /\ Fault("stop")
  /\ pc' = "reap" /\ waited' = 0
  /\ UNCHANGED << limits, cid, warned, reason, client, elapsed, tracker, agent, log >>

\* (mutant) The caller of wrap_up has no branch for NO_OP.
NoOpUnhandled ==
  /\ pc = "wrapup" /\ adapter = "generic"
  /\ waited' = 0
  /\ GoTo("no_op")
  /\ UNCHANGED << limits, cid, warned, reason, docker, elapsed, tracker, agent >>

NoOpWrapUp ==
  /\ pc = "wrapup" /\ adapter = "generic"
  /\ waited' = 0
  /\ GoTo("stop")
  /\ UNCHANGED << limits, cid, warned, reason, docker, elapsed, tracker, agent >>

HermesWrapUp == pc = "wrapup" /\ adapter = "hermes" /\ DockerStop

\* (mutant) A wrap-up that raises is taken for one that stopped the container.
WrapUpRaisesUnstopped ==
  /\ pc = "wrapup" /\ adapter = "hermes"
  /\ Fault("wrapup")
  /\ pc' = "reap" /\ log' = log \cup {"wrap_up_failed"}
  /\ waited' = 0
  /\ UNCHANGED << limits, cid, warned, reason, docker, elapsed, tracker, agent >>

\* An exception of the adapter counts as NO_OP, once it is recorded.
WrapUpRaises ==
  /\ pc = "wrapup" /\ adapter = "hermes"
  /\ \/ Fault("wrapup") /\ pc' = "stop" /\ log' = log \cup {"wrap_up_failed"}
     \/ {"wrapup", "log"} \subseteq Faults /\ Fault("log") /\ pc' = "raised" /\ log' = log
  /\ waited' = 0
  /\ UNCHANGED << limits, cid, warned, reason, docker, elapsed, tracker, agent >>

PlainStop == pc = "stop" /\ DockerStop

\* _reap: the client is gone within its window, or is killed.
ClientReaped ==
  /\ pc \in {"reap", "killed"} /\ client = "gone"
  /\ GoTo("merge")
  /\ UNCHANGED << limits, waited, cid, warned, reason, docker, elapsed, tracker, agent >>

\* (mutant) _reap waits for the client without a timeout.
ReapForever ==
  /\ pc = "reap" /\ client = "gone"
  /\ UNCHANGED vars

KillClient ==
  /\ pc = "reap" /\ client = "up" /\ waited = ReapTime
  /\ \/ client' = "gone" /\ struck' = struck
     \/ client' = "up" /\ Fault("wedged")
  /\ pc' = "killed" /\ waited' = 0
  /\ UNCHANGED << limits, cid, warned, reason, box, elapsed, tracker, agent, log >>

GiveUpOnClient ==
  /\ pc = "killed" /\ client = "up" /\ waited = KillTime
  /\ Record("reap_timeout", "merge")
  /\ UNCHANGED << limits, waited, cid, warned, reason, docker, elapsed, tracker, agent >>

-----------------------------------------------------------------------------
(* run_shell after the monitor *)

MergeEvents ==
  /\ pc = "merge"
  /\ \/ GoTo("close")
     \/ pc' = "raised" /\ log' = log /\ Fault("merge")
  /\ UNCHANGED << limits, waited, cid, warned, reason, docker, elapsed, tracker, agent >>

LogEnd ==
  /\ pc = "close"
  /\ Record("end", "ended")
  /\ UNCHANGED << limits, waited, cid, warned, reason, docker, elapsed, tracker, agent >>

Interrupt ==
  /\ pc \notin {"ended", "raised"}
  /\ Fault("interrupt")
  /\ pc' = "raised"
  /\ UNCHANGED << limits, waited, cid, warned, reason, docker, elapsed, tracker, agent, log >>

-----------------------------------------------------------------------------
(* Time *)

Over == pc \in {"ended", "raised"}

\* The subprocess call the monitor is in, if any, may last longer.
MayWait ==
  \/ Over /\ box = "running"
  \/ pc = "wait" /\ client = "up" /\ (Limited => waited < Poll)
  \/ pc = "sample" /\ waited < SampleTime
  \/ pc \in {"wrapup", "stop"} /\ waited < StopTime
     /\ (pc = "wrapup" => adapter = "hermes")
  \/ pc = "reap" /\ client = "up" /\ waited < ReapTime
  \/ pc = "killed" /\ client = "up" /\ waited < KillTime

StartsInTime ==
  client = "up" /\ box \in {"none", "created"} => elapsed < CreateTime

Later(n, last) == IF n < last THEN n + 1 ELSE n

Tick ==
  /\ MayWait /\ StartsInTime
  /\ elapsed' = Later(elapsed, LastTick)
  /\ idle' = Later(idle, idleLimit + SampleTime)
  /\ quiet' = Later(quiet, idleLimit)
  /\ waited' = IF Over \/ (pc = "wait" /\ ~ Limited) THEN waited ELSE waited + 1
  /\ UNCHANGED << limits, pc, cid, warned, reason, docker, prev, ioMoved, fileMoved,
                  log, struck >>

-----------------------------------------------------------------------------
Monitor ==
  \/ LogStart \/ Spawn
  \/ WaitReturns \/ Wake \/ DurationHit \/ Warn \/ NextIteration
  \/ \E stats, cpu \in BOOLEAN : Sample(stats, cpu)
  \/ Enforce \/ NoOpWrapUp \/ HermesWrapUp \/ WrapUpRaises \/ PlainStop
  \/ ClientReaped \/ KillClient \/ GiveUpOnClient
  \/ MergeEvents \/ LogEnd

Environment ==
  \/ CreateBox \/ StartBox \/ BoxExits \/ ClientExits \/ ClientLost
  \/ AgentTraffic \/ AgentWrites
  \/ Interrupt

Next == Monitor \/ Environment \/ Tick

Spec == Init /\ [][Next]_vars

\* The monitor runs, time passes, and docker carries out what it was asked to;
\* neither the container nor its client need ever exit by themselves.
Fairness == WF_vars(Monitor) /\ WF_vars(Tick) /\ WF_vars(CreateBox) /\ WF_vars(StartBox)

FairSpec == Spec /\ Fairness

-----------------------------------------------------------------------------
(* What run_shell promises *)

\* Docker takes a while to start a container, and no limit is as short as that.
LimitsOutlastStart ==
  /\ CreateTime > 0
  /\ \A d \in (Durations \cup Idles) \ {NoLimit} : CreateTime < d

\* The faults after which nobody is left who would, or could, stop the cell.
Excused == struck \cap {"log", "stop", "detach", "interrupt"} # {}

\* A hard wall-clock cap: the container is gone at most one poll, one sample
\* and the stop ladder after its duration, whether the warner or the adapter
\* raises, the client wedges, or docker stats is out.
HardCap ==
  box = "running" /\ duration # NoLimit /\ ~ Excused =>
    elapsed <= duration + Poll + SampleTime + 2 * StopTime

\* A session the audit log shows as ended has no container left running, also
\* when the client had to be killed: status, wake and adjust go by this record.
EndMeansOver ==
  "end" \in log /\ ~ Excused => box # "running"

\* An agent that writes events or requests is not declared idle within its
\* limit, whether or not docker stats answers; a sample is late by at most the
\* time docker stats takes.
WriterIsNotIdle ==
  [][reason' = "idle" /\ reason = "clean" => quiet + SampleTime >= idleLimit]_vars

\* A session that ends at its cap had its warning attempted before, if its lead is
\* no shorter than one iteration of the loop: a warner that raises is not called
\* again.
WarnedBeforeCap ==
  reason = "duration" /\ Lead(duration) >= Poll + SampleTime =>
    warned

\* The comment on the warner: its failure must not break enforcement and leak
\* the container.
LogFailureLeavesNoCell == pc = "raised" => box # "running"

\* Two appends only can leave it running when they raise, the record of the
\* warning and that of a failed wrap-up: at every other end of run_shell by an
\* exception the container is over, or docker stop failed or the client was lost.
LeaksWhereRecorded ==
  [][ /\ pc # "raised" /\ pc' = "raised" /\ box = "running"
      /\ struck \cap {"stop", "detach"} = {}
      => \/ "interrupt" \in struck' \ struck
         \/ /\ "log" \in struck' \ struck
            /\ (pc = "check" /\ WarningDue) \/ (pc = "wrapup" /\ adapter = "hermes") ]_vars

\* A session with a duration cap comes to its end whatever docker, the client
\* or the agent do.
CappedSessionEnds == duration # NoLimit ~> Over

\* What SessionLife asks of a session: its log says the truth about its
\* container, in this order, also when docker creates the container late, the
\* client outlives it or the adapter's stop fails; and a cap ends it.
Life == INSTANCE SessionLife WITH
  record <- IF "end" \in log THEN "ended" ELSE IF "start" \in log THEN "started" ELSE "none",
  box    <- CASE box = "running" -> "running" [] box = "exited" -> "gone" [] OTHER -> "none",
  lost   <- Excused,
  capped <- duration # NoLimit

LivesAsPromised == Life!FairSpec

=============================================================================
