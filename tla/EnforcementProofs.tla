--------------------------- MODULE EnforcementProofs ---------------------------
(***************************************************************************)
(* The limits of a session, for any caps, timeouts and idle limits and any *)
(* number of faults: what EnforceLimits shows for a few of them.           *)
(***************************************************************************)
EXTENDS Enforcement, TLAPS

-----------------------------------------------------------------------------
(* The steps of a session, by the part of the code that takes them *)

Begins == LogStart \/ Spawn
Polls ==
  \/ WaitReturns \/ Wake \/ DurationHit \/ Warn \/ NextIteration
  \/ \E stats, cpu \in BOOLEAN : Sample(stats, cpu)
Stops ==
  \/ Enforce \/ NoOpWrapUp \/ HermesWrapUp \/ WrapUpRaises \/ PlainStop
  \/ ClientReaped \/ KillClient \/ GiveUpOnClient
Closes == MergeEvents \/ LogEnd \/ Interrupt
DockerActs == CreateBox \/ StartBox \/ BoxExits \/ ClientExits \/ ClientLost
AgentActs == AgentTraffic \/ AgentWrites

LEMMA StepsOf ==
  [Next]_vars =>
    \/ Begins \/ Polls \/ Stops \/ Closes \/ DockerActs \/ AgentActs
    \/ Tick \/ UNCHANGED vars
BY DEF Next, Monitor, Environment, Begins, Polls, Stops, Closes, DockerActs, AgentActs

\* The warning of a cap of two ticks or more is due after the start.
LEMMA LeadBelow ==
  ASSUME NEW d \in Nat, d > 1
  PROVE  Lead(d) \in Nat /\ Lead(d) < d
<1>1. d \div 5 \in Nat /\ d \div 5 < d
  OBVIOUS
<1> QED BY <1>1, EnforcementConstants DEF Lead

-----------------------------------------------------------------------------
(* The types *)

TimesTyped ==
  /\ Poll \in Nat /\ SampleTime \in Nat /\ StopTime \in Nat /\ ReapTime \in Nat
  /\ KillTime \in Nat /\ MaxLead \in Nat /\ CreateTime \in Nat
  /\ duration \in Int /\ (duration # NoLimit => duration \in Nat)
  /\ idleLimit \in Int /\ (idleLimit # NoLimit => idleLimit \in Nat)

ClocksTyped == waited \in Nat /\ elapsed \in Nat /\ idle \in Nat /\ quiet \in Nat

PlacesTyped ==
  /\ pc \in {"launch", "wait", "check", "sample", "expired", "wrapup", "stop",
             "reap", "killed", "merge", "close", "ended", "raised"}
  /\ reason \in {"clean", "duration", "idle"}
  /\ client \in {"none", "up", "gone"}
  /\ box \in {"none", "created", "running", "exited"}
  /\ prev \in {"none", "blind", "stats"}

FlagsTyped ==
  cid \in BOOLEAN /\ warned \in BOOLEAN /\ ioMoved \in BOOLEAN /\ fileMoved \in BOOLEAN

LimitsTyped == duration \in Durations /\ idleLimit \in Idles /\ adapter \in Adapters

HistoryTyped == log \subseteq Records /\ struck \subseteq Faults

LEMMA TypeParts ==
  TypeOK <=> LimitsTyped /\ ClocksTyped /\ PlacesTyped /\ FlagsTyped /\ HistoryTyped
BY DEF TypeOK, LimitsTyped, ClocksTyped, PlacesTyped, FlagsTyped, HistoryTyped

LEMMA TimesOf ==
  ASSUME LimitsTyped
  PROVE  TimesTyped
BY EnforcementConstants DEF LimitsTyped, TimesTyped, NoLimit

LEMMA InitTypeOK == Init => TypeOK
<1> SUFFICES ASSUME Init PROVE TypeOK
  OBVIOUS
<1> USE DEF Init
<1>1. LimitsTyped /\ HistoryTyped
  BY DEF LimitsTyped, HistoryTyped
<1>2. ClocksTyped /\ PlacesTyped
  BY DEF ClocksTyped, PlacesTyped
<1>3. FlagsTyped
  BY Zenon DEF FlagsTyped
<1> QED BY <1>1, <1>2, <1>3, TypeParts

LEMMA LimitsStep ==
  ASSUME LimitsTyped, [Next]_vars
  PROVE  LimitsTyped'
<1> USE DEF limits, docker, tracker, agent, GoTo, Record, Fault, LimitsTyped
<1>1. CASE Begins \/ Stops \/ Closes
  BY <1>1 DEF Begins, LogStart, Spawn, Stops, Enforce, NoOpWrapUp, HermesWrapUp,
     WrapUpRaises, PlainStop, DockerStop, Stopped, ClientReaped, KillClient,
     GiveUpOnClient, Closes, MergeEvents, LogEnd, Interrupt
<1>2. CASE Polls
  <2>1. CASE WaitReturns \/ Wake \/ DurationHit \/ Warn \/ NextIteration
    BY <2>1 DEF WaitReturns, Wake, DurationHit, Warn, NextIteration, Expire
  <2>2. ASSUME NEW stats \in BOOLEAN, NEW cpu \in BOOLEAN, Sample(stats, cpu)
        PROVE  LimitsTyped'
    BY <2>2 DEF Sample, Expire
  <2> QED BY <1>2, <2>1, <2>2 DEF Polls
<1>3. CASE DockerActs \/ AgentActs \/ Tick \/ UNCHANGED vars
  BY <1>3 DEF DockerActs, CreateBox, StartBox, BoxExits, ClientExits, ClientLost,
     AgentActs, AgentTraffic, AgentWrites, Tick, vars
<1> QED BY <1>1, <1>2, <1>3, StepsOf

LEMMA ClocksStep ==
  ASSUME TimesTyped, ClocksTyped, [Next]_vars
  PROVE  ClocksTyped'
<1> USE DEF limits, docker, tracker, agent, GoTo, Record, Fault, ClocksTyped, TimesTyped
<1>1. CASE Begins \/ Stops \/ Closes
  BY <1>1 DEF Begins, LogStart, Spawn, Stops, Enforce, NoOpWrapUp, HermesWrapUp,
     WrapUpRaises, PlainStop, DockerStop, Stopped, ClientReaped, KillClient,
     GiveUpOnClient, Closes, MergeEvents, LogEnd, Interrupt
<1>2. CASE Polls
  <2>1. CASE WaitReturns \/ Wake \/ DurationHit \/ Warn \/ NextIteration
    BY <2>1 DEF WaitReturns, Wake, DurationHit, Warn, NextIteration, Expire
  <2>2. ASSUME NEW stats \in BOOLEAN, NEW cpu \in BOOLEAN, Sample(stats, cpu)
        PROVE  ClocksTyped'
    BY <2>2 DEF Sample, Expire
  <2> QED BY <1>2, <2>1, <2>2 DEF Polls
<1>3. CASE DockerActs \/ AgentActs \/ Tick \/ UNCHANGED vars
  BY <1>3 DEF DockerActs, CreateBox, StartBox, BoxExits, ClientExits, ClientLost,
     AgentActs, AgentTraffic, AgentWrites, Tick, Later, vars
<1> QED BY <1>1, <1>2, <1>3, StepsOf

LEMMA PlacesStep ==
  ASSUME PlacesTyped, [Next]_vars
  PROVE  PlacesTyped'
<1> USE DEF limits, docker, tracker, agent, GoTo, Record, Fault, PlacesTyped
<1>1. CASE Begins
  BY <1>1 DEF Begins, LogStart, Spawn
<1>2. CASE Polls
  <2>1. CASE WaitReturns \/ Wake \/ DurationHit \/ Warn \/ NextIteration
    BY <2>1 DEF WaitReturns, Wake, DurationHit, Warn, NextIteration, Expire
  <2>2. ASSUME NEW stats \in BOOLEAN, NEW cpu \in BOOLEAN, Sample(stats, cpu)
        PROVE  PlacesTyped'
    BY <2>2 DEF Sample, Expire
  <2> QED BY <1>2, <2>1, <2>2 DEF Polls
<1>3. CASE Stops
  BY <1>3 DEF Stops, Enforce, NoOpWrapUp, HermesWrapUp, WrapUpRaises, PlainStop,
     DockerStop, Stopped, ClientReaped, KillClient, GiveUpOnClient
<1>4. CASE Closes
  BY <1>4 DEF Closes, MergeEvents, LogEnd, Interrupt
<1>5. CASE DockerActs \/ AgentActs
  BY <1>5 DEF DockerActs, CreateBox, StartBox, BoxExits, ClientExits, ClientLost,
     AgentActs, AgentTraffic, AgentWrites
<1>6. CASE Tick
  BY <1>6 DEF Tick
<1>7. CASE UNCHANGED vars
  BY <1>7 DEF vars
<1> QED BY <1>1, <1>2, <1>3, <1>4, <1>5, <1>6, <1>7, StepsOf

LEMMA FlagsStep ==
  ASSUME FlagsTyped, [Next]_vars
  PROVE  FlagsTyped'
<1> USE DEF limits, docker, tracker, agent, GoTo, Record, Fault, FlagsTyped
<1>1. CASE Begins
  BY <1>1, Zenon DEF Begins, LogStart, Spawn
<1>2. CASE Polls
  <2>1. CASE WaitReturns \/ Wake \/ DurationHit \/ Warn \/ NextIteration
    BY <2>1, Zenon DEF WaitReturns, Wake, DurationHit, Warn, NextIteration, Expire
  <2>2. ASSUME NEW stats \in BOOLEAN, NEW cpu \in BOOLEAN, Sample(stats, cpu)
        PROVE  FlagsTyped'
    BY <2>2, Zenon DEF Sample, Expire
  <2> QED BY <1>2, <2>1, <2>2 DEF Polls
<1>3. CASE Stops
  BY <1>3, Zenon DEF Stops, Enforce, NoOpWrapUp, HermesWrapUp, WrapUpRaises, PlainStop,
     DockerStop, Stopped, ClientReaped, KillClient, GiveUpOnClient
<1>4. CASE Closes
  BY <1>4, Zenon DEF Closes, MergeEvents, LogEnd, Interrupt
<1>5. CASE DockerActs \/ AgentActs
  BY <1>5, Zenon DEF DockerActs, CreateBox, StartBox, BoxExits, ClientExits, ClientLost,
     AgentActs, AgentTraffic, AgentWrites
<1>6. CASE Tick
  BY <1>6, Zenon DEF Tick
<1>7. CASE UNCHANGED vars
  BY <1>7, Zenon DEF vars
<1> QED BY <1>1, <1>2, <1>3, <1>4, <1>5, <1>6, <1>7, StepsOf

LEMMA HistoryStep ==
  ASSUME HistoryTyped, [Next]_vars
  PROVE  HistoryTyped'
<1> USE DEF limits, docker, tracker, agent, GoTo, Record, Fault, HistoryTyped, Records
<1>1. CASE Begins \/ Stops \/ Closes
  BY <1>1 DEF Begins, LogStart, Spawn, Stops, Enforce, NoOpWrapUp, HermesWrapUp,
     WrapUpRaises, PlainStop, DockerStop, Stopped, ClientReaped, KillClient,
     GiveUpOnClient, Closes, MergeEvents, LogEnd, Interrupt
<1>2. CASE Polls
  <2>1. CASE WaitReturns \/ Wake \/ DurationHit \/ Warn \/ NextIteration
    BY <2>1 DEF WaitReturns, Wake, DurationHit, Warn, NextIteration, Expire
  <2>2. ASSUME NEW stats \in BOOLEAN, NEW cpu \in BOOLEAN, Sample(stats, cpu)
        PROVE  HistoryTyped'
    BY <2>2 DEF Sample, Expire
  <2> QED BY <1>2, <2>1, <2>2 DEF Polls
<1>3. CASE DockerActs \/ AgentActs \/ Tick \/ UNCHANGED vars
  BY <1>3 DEF DockerActs, CreateBox, StartBox, BoxExits, ClientExits, ClientLost,
     AgentActs, AgentTraffic, AgentWrites, Tick, vars
<1> QED BY <1>1, <1>2, <1>3, StepsOf

LEMMA NextTypeOK == TypeOK /\ [Next]_vars => TypeOK'
<1>1. TypeOK' <=>
        LimitsTyped' /\ ClocksTyped' /\ PlacesTyped' /\ FlagsTyped' /\ HistoryTyped'
  BY TypeParts, PTL
<1> QED BY <1>1, TypeParts, TimesOf, LimitsStep, ClocksStep, PlacesStep, FlagsStep, HistoryStep

-----------------------------------------------------------------------------
(* The inductive invariant *)

Polling == {"wait", "check", "sample"}
Stopping == {"expired", "wrapup", "stop"}
After == {"reap", "killed", "merge", "close", "ended", "raised"}

\* Nothing is spawned before session_start is logged, and session_end is last.
NotYet ==
  pc = "launch" =>
    client = "none" /\ log \subseteq {"start"} /\ elapsed = 0 /\ idle = 0

Spawned ==
  /\ client # "none" => "start" \in log
  /\ client = "none" => box = "none" /\ pc \in {"launch", "raised"}

EndIsLast == "end" \in log => pc = "ended"

Ordered == NotYet /\ Spawned /\ EndIsLast

\* While the container has not started, the idle clock is no older than the
\* session, and the session no older than docker takes.
Starting ==
  client = "up" /\ box \in {"none", "created"} =>
    /\ elapsed <= CreateTime /\ idle <= elapsed
    /\ pc \in Polling => waited <= elapsed

\* No subprocess call outlasts its timeout, and only one of an idle session is
\* a sample.
InTime ==
  /\ pc = "wait" /\ Limited => waited <= Poll
  /\ pc = "sample" => waited <= SampleTime /\ idleLimit # NoLimit
  /\ pc \in {"wrapup", "stop"} => waited <= StopTime

\* How far past the cap the monitor can be at each of its positions.
Paced ==
  duration # NoLimit =>
    /\ pc = "wait" => elapsed <= duration + SampleTime + waited
    /\ pc = "check" => elapsed <= duration + SampleTime + Poll
    /\ pc = "sample" => elapsed <= duration + waited
    /\ pc = "expired" => elapsed <= duration + Poll + SampleTime
    /\ pc = "wrapup" => elapsed <= duration + Poll + SampleTime + waited
    /\ pc = "stop" => elapsed <= duration + Poll + SampleTime + StopTime + waited

\* And how far past the moment of the warning, as long as it is not sent.
WarningPaced ==
  duration # NoLimit /\ ~ warned =>
    /\ pc = "wait" => elapsed < duration - Lead(duration) + SampleTime + waited
    /\ pc = "check" => elapsed < duration - Lead(duration) + SampleTime + Poll
    /\ pc = "sample" => elapsed < duration - Lead(duration) + waited

Undecided == pc \in {"launch"} \cup Polling => reason = "clean"

\* Since the last sample the agent was quiet for as long as it was idle, but
\* for the length of the sample.
IdleIsQuiet ==
  idleLimit # NoLimit =>
    idle <= idleLimit + SampleTime /\ (~ fileMoved => idle <= quiet + SampleTime)

\* Without a fault that excuses it a container is over when its client has
\* gone, has started when it is being stopped, and is over for good afterwards.
GoneIsOver == client = "gone" /\ ~ Excused => box # "running"

StartedWhenStopping ==
  pc \in Stopping => client = "gone" \/ box \in {"running", "exited"}

OverForGood ==
  pc \in After /\ ~ Excused =>
    box # "running" /\ (client = "gone" \/ box = "exited")

Finished == GoneIsOver /\ StartedWhenStopping /\ OverForGood

IInv ==
  /\ TypeOK /\ Ordered /\ Starting /\ InTime /\ Paced
  /\ WarningPaced /\ Undecided /\ WarnedBeforeCap /\ IdleIsQuiet /\ Finished

-----------------------------------------------------------------------------
(* Every step keeps it *)

LEMMA OrderedStep ==
  ASSUME PlacesTyped, Ordered, [Next]_vars
  PROVE  Ordered'
<1> USE DEF limits, docker, tracker, agent, GoTo, Record, Fault, PlacesTyped, Ordered,
        NotYet, Spawned, EndIsLast
<1>1. CASE Begins
  BY <1>1 DEF Begins, LogStart, Spawn
<1>2. CASE Polls
  <2>1. CASE WaitReturns \/ Wake \/ DurationHit \/ Warn \/ NextIteration
    BY <2>1 DEF WaitReturns, Wake, DurationHit, Warn, NextIteration, Expire
  <2>2. ASSUME NEW stats \in BOOLEAN, NEW cpu \in BOOLEAN, Sample(stats, cpu)
        PROVE  Ordered'
    BY <2>2 DEF Sample, Expire
  <2> QED BY <1>2, <2>1, <2>2 DEF Polls
<1>3. CASE Stops
  BY <1>3 DEF Stops, Enforce, NoOpWrapUp, HermesWrapUp, WrapUpRaises, PlainStop,
     DockerStop, Stopped, ClientReaped, KillClient, GiveUpOnClient
<1>4. CASE Closes
  BY <1>4 DEF Closes, MergeEvents, LogEnd, Interrupt
<1>5. CASE DockerActs \/ AgentActs
  BY <1>5 DEF DockerActs, CreateBox, StartBox, BoxExits, ClientExits, ClientLost,
     AgentActs, AgentTraffic, AgentWrites
<1>6. CASE Tick
  BY <1>6 DEF Tick, MayWait
<1>7. CASE UNCHANGED vars
  BY <1>7 DEF vars
<1> QED BY <1>1, <1>2, <1>3, <1>4, <1>5, <1>6, <1>7, StepsOf

LEMMA StartingStep ==
  ASSUME LimitsOutlastStart, LimitsTyped, TimesTyped, ClocksTyped, PlacesTyped, Ordered,
         InTime, Starting, [Next]_vars
  PROVE  Starting'
<1> USE DEF limits, docker, tracker, agent, GoTo, Record, Fault, TimesTyped, ClocksTyped,
        PlacesTyped, Ordered, NotYet, Spawned, InTime, Starting, Polling
<1>1. CASE Begins
  BY <1>1 DEF Begins, LogStart, Spawn
<1>2. CASE Polls
  <2>1. CASE WaitReturns \/ Wake \/ DurationHit \/ Warn \/ NextIteration
    BY <2>1 DEF WaitReturns, Wake, DurationHit, Warn, NextIteration, Expire
  <2>2. ASSUME NEW stats \in BOOLEAN, NEW cpu \in BOOLEAN, Sample(stats, cpu)
        PROVE  Starting'
    BY <2>2 DEF Sample, Expire
  <2> QED BY <1>2, <2>1, <2>2 DEF Polls
<1>3. CASE Stops
  BY <1>3 DEF Stops, Enforce, NoOpWrapUp, HermesWrapUp, WrapUpRaises, PlainStop,
     DockerStop, Stopped, ClientReaped, KillClient, GiveUpOnClient
<1>4. CASE Closes
  BY <1>4 DEF Closes, MergeEvents, LogEnd, Interrupt
<1>5. CASE DockerActs \/ AgentActs
  BY <1>5 DEF DockerActs, CreateBox, StartBox, BoxExits, ClientExits, ClientLost,
     AgentActs, AgentTraffic, AgentWrites
<1>6. CASE Tick
  BY <1>6 DEF Tick, Later, MayWait, Over, StartsInTime, LastTick, LimitsTyped,
     LimitsOutlastStart
<1>7. CASE UNCHANGED vars
  BY <1>7 DEF vars
<1> QED BY <1>1, <1>2, <1>3, <1>4, <1>5, <1>6, <1>7, StepsOf

LEMMA InTimeStep ==
  ASSUME TimesTyped, ClocksTyped, InTime, [Next]_vars
  PROVE  InTime'
<1> USE DEF limits, docker, tracker, agent, GoTo, Record, Fault, TimesTyped, ClocksTyped,
        InTime, Limited
<1>1. CASE Begins
  BY <1>1 DEF Begins, LogStart, Spawn
<1>2. CASE Polls
  <2>1. CASE WaitReturns \/ Wake \/ DurationHit \/ Warn \/ NextIteration
    BY <2>1 DEF WaitReturns, Wake, DurationHit, Warn, NextIteration, Expire, Sampled
  <2>2. ASSUME NEW stats \in BOOLEAN, NEW cpu \in BOOLEAN, Sample(stats, cpu)
        PROVE  InTime'
    BY <2>2 DEF Sample, Expire
  <2> QED BY <1>2, <2>1, <2>2 DEF Polls
<1>3. CASE Stops
  BY <1>3 DEF Stops, Enforce, NoOpWrapUp, HermesWrapUp, WrapUpRaises, PlainStop,
     DockerStop, Stopped, ClientReaped, KillClient, GiveUpOnClient
<1>4. CASE Closes
  BY <1>4 DEF Closes, MergeEvents, LogEnd, Interrupt
<1>5. CASE DockerActs \/ AgentActs
  BY <1>5 DEF DockerActs, CreateBox, StartBox, BoxExits, ClientExits, ClientLost,
     AgentActs, AgentTraffic, AgentWrites
<1>6. CASE Tick
  BY <1>6 DEF Tick, MayWait, Over
<1>7. CASE UNCHANGED vars
  BY <1>7 DEF vars
<1> QED BY <1>1, <1>2, <1>3, <1>4, <1>5, <1>6, <1>7, StepsOf

LEMMA PacedStep ==
  ASSUME TimesTyped, ClocksTyped, Ordered, InTime, Paced, [Next]_vars
  PROVE  Paced'
<1> USE DEF limits, docker, tracker, agent, GoTo, Record, Fault, TimesTyped, ClocksTyped,
        Ordered, NotYet, InTime, Paced, Limited, Expired
<1>1. CASE Begins
  BY <1>1 DEF Begins, LogStart, Spawn
<1>2. CASE Polls
  <2>1. CASE WaitReturns \/ Wake
    BY <2>1 DEF WaitReturns, Wake
  <2>2. CASE DurationHit
    BY <2>2 DEF DurationHit, Expire
  <2>3. CASE Warn
    BY <2>3 DEF Warn
  <2>4. CASE NextIteration
    BY <2>4 DEF NextIteration
  <2>5. ASSUME NEW stats \in BOOLEAN, NEW cpu \in BOOLEAN, Sample(stats, cpu)
        PROVE  Paced'
    BY <2>5 DEF Sample, Expire
  <2> QED BY <1>2, <2>1, <2>2, <2>3, <2>4, <2>5 DEF Polls
<1>3. CASE Stops
  BY <1>3 DEF Stops, Enforce, NoOpWrapUp, HermesWrapUp, WrapUpRaises, PlainStop,
     DockerStop, Stopped, ClientReaped, KillClient, GiveUpOnClient
<1>4. CASE Closes
  BY <1>4 DEF Closes, MergeEvents, LogEnd, Interrupt
<1>5. CASE DockerActs \/ AgentActs
  BY <1>5 DEF DockerActs, CreateBox, StartBox, BoxExits, ClientExits, ClientLost,
     AgentActs, AgentTraffic, AgentWrites
<1>6. CASE Tick
  BY <1>6 DEF Tick, Later, MayWait, Over
<1>7. CASE UNCHANGED vars
  BY <1>7 DEF vars
<1> QED BY <1>1, <1>2, <1>3, <1>4, <1>5, <1>6, <1>7, StepsOf

LEMMA WarningStep ==
  ASSUME LimitsOutlastStart, LimitsTyped, TimesTyped, ClocksTyped, Ordered, InTime,
         WarningPaced, [Next]_vars
  PROVE  WarningPaced'
<1>0. duration # NoLimit => Lead(duration) \in Nat /\ Lead(duration) < duration
  BY LeadBelow, TimesOf DEF LimitsOutlastStart, LimitsTyped, TimesTyped
<1> USE DEF limits, docker, tracker, agent, GoTo, Record, Fault, TimesTyped, ClocksTyped,
        Ordered, NotYet, InTime, WarningPaced, Limited, WarningDue
<1>1. CASE Begins
  BY <1>1, <1>0 DEF Begins, LogStart, Spawn
<1>2. CASE Polls
  <2>1. CASE WaitReturns \/ Wake
    BY <2>1, <1>0 DEF WaitReturns, Wake
  <2>2. CASE DurationHit
    BY <2>2, <1>0 DEF DurationHit, Expire
  <2>3. CASE Warn
    BY <2>3, <1>0 DEF Warn
  <2>4. CASE NextIteration
    BY <2>4, <1>0 DEF NextIteration
  <2>5. ASSUME NEW stats \in BOOLEAN, NEW cpu \in BOOLEAN, Sample(stats, cpu)
        PROVE  WarningPaced'
    BY <2>5, <1>0 DEF Sample, Expire
  <2> QED BY <1>2, <2>1, <2>2, <2>3, <2>4, <2>5 DEF Polls
<1>3. CASE Stops
  BY <1>3, <1>0 DEF Stops, Enforce, NoOpWrapUp, HermesWrapUp, WrapUpRaises, PlainStop,
     DockerStop, Stopped, ClientReaped, KillClient, GiveUpOnClient
<1>4. CASE Closes
  BY <1>4, <1>0 DEF Closes, MergeEvents, LogEnd, Interrupt
<1>5. CASE DockerActs \/ AgentActs
  BY <1>5, <1>0 DEF DockerActs, CreateBox, StartBox, BoxExits, ClientExits, ClientLost,
     AgentActs, AgentTraffic, AgentWrites
<1>6. CASE Tick
  BY <1>6, <1>0 DEF Tick, Later, MayWait, Over
<1>7. CASE UNCHANGED vars
  BY <1>7, <1>0 DEF vars
<1> QED BY <1>1, <1>2, <1>3, <1>4, <1>5, <1>6, <1>7, StepsOf

LEMMA UndecidedStep ==
  ASSUME Undecided, [Next]_vars
  PROVE  Undecided'
<1> USE DEF limits, docker, tracker, agent, GoTo, Record, Fault, Undecided, Polling
<1>1. CASE Begins \/ Stops \/ Closes
  BY <1>1 DEF Begins, LogStart, Spawn, Stops, Enforce, NoOpWrapUp, HermesWrapUp,
     WrapUpRaises, PlainStop, DockerStop, Stopped, ClientReaped, KillClient,
     GiveUpOnClient, Closes, MergeEvents, LogEnd, Interrupt
<1>2. CASE Polls
  <2>1. CASE WaitReturns \/ Wake \/ DurationHit \/ Warn \/ NextIteration
    BY <2>1 DEF WaitReturns, Wake, DurationHit, Warn, NextIteration, Expire
  <2>2. ASSUME NEW stats \in BOOLEAN, NEW cpu \in BOOLEAN, Sample(stats, cpu)
        PROVE  Undecided'
    BY <2>2 DEF Sample, Expire
  <2> QED BY <1>2, <2>1, <2>2 DEF Polls
<1>3. CASE DockerActs \/ AgentActs \/ Tick \/ UNCHANGED vars
  BY <1>3 DEF DockerActs, CreateBox, StartBox, BoxExits, ClientExits, ClientLost,
     AgentActs, AgentTraffic, AgentWrites, Tick, vars
<1> QED BY <1>1, <1>2, <1>3, StepsOf

LEMMA WarnedStep ==
  ASSUME LimitsOutlastStart, LimitsTyped, TimesTyped, ClocksTyped, Undecided,
         WarningPaced, WarnedBeforeCap, [Next]_vars
  PROVE  WarnedBeforeCap'
<1>0. duration # NoLimit => Lead(duration) \in Nat /\ Lead(duration) < duration
  BY LeadBelow, TimesOf DEF LimitsOutlastStart, LimitsTyped, TimesTyped
<1> USE DEF limits, docker, tracker, agent, GoTo, Record, Fault, TimesTyped, ClocksTyped,
        Undecided, Polling, WarningPaced, WarnedBeforeCap, Expired
<1>1. CASE Begins
  BY <1>1, <1>0 DEF Begins, LogStart, Spawn
<1>2. CASE Polls
  <2>1. CASE WaitReturns \/ Wake
    BY <2>1, <1>0 DEF WaitReturns, Wake
  <2>2. CASE DurationHit
    BY <2>2, <1>0 DEF DurationHit, Expire
  <2>3. CASE Warn
    BY <2>3, <1>0 DEF Warn
  <2>4. CASE NextIteration
    BY <2>4, <1>0 DEF NextIteration
  <2>5. ASSUME NEW stats \in BOOLEAN, NEW cpu \in BOOLEAN, Sample(stats, cpu)
        PROVE  WarnedBeforeCap'
    BY <2>5, <1>0 DEF Sample, Expire
  <2> QED BY <1>2, <2>1, <2>2, <2>3, <2>4, <2>5 DEF Polls
<1>3. CASE Stops
  BY <1>3, <1>0 DEF Stops, Enforce, NoOpWrapUp, HermesWrapUp, WrapUpRaises, PlainStop,
     DockerStop, Stopped, ClientReaped, KillClient, GiveUpOnClient
<1>4. CASE Closes
  BY <1>4, <1>0 DEF Closes, MergeEvents, LogEnd, Interrupt
<1>5. CASE DockerActs \/ AgentActs
  BY <1>5, <1>0 DEF DockerActs, CreateBox, StartBox, BoxExits, ClientExits, ClientLost,
     AgentActs, AgentTraffic, AgentWrites
<1>6. CASE Tick
  BY <1>6, <1>0 DEF Tick
<1>7. CASE UNCHANGED vars
  BY <1>7, <1>0 DEF vars
<1> QED BY <1>1, <1>2, <1>3, <1>4, <1>5, <1>6, <1>7, StepsOf

LEMMA QuietStep ==
  ASSUME TimesTyped, ClocksTyped, InTime, IdleIsQuiet, [Next]_vars
  PROVE  IdleIsQuiet'
<1> USE DEF limits, docker, tracker, agent, GoTo, Record, Fault, TimesTyped, ClocksTyped,
        InTime, IdleIsQuiet
<1>1. CASE Begins \/ Stops \/ Closes
  BY <1>1 DEF Begins, LogStart, Spawn, Stops, Enforce, NoOpWrapUp, HermesWrapUp,
     WrapUpRaises, PlainStop, DockerStop, Stopped, ClientReaped, KillClient,
     GiveUpOnClient, Closes, MergeEvents, LogEnd, Interrupt
<1>2. CASE Polls
  <2>1. CASE WaitReturns \/ Wake \/ DurationHit \/ Warn \/ NextIteration
    BY <2>1 DEF WaitReturns, Wake, DurationHit, Warn, NextIteration, Expire
  <2>2. ASSUME NEW stats \in BOOLEAN, NEW cpu \in BOOLEAN, Sample(stats, cpu)
        PROVE  IdleIsQuiet'
    BY <2>2 DEF Sample, Expire, Active
  <2> QED BY <1>2, <2>1, <2>2 DEF Polls
<1>3. CASE DockerActs \/ AgentActs \/ Tick \/ UNCHANGED vars
  BY <1>3 DEF DockerActs, CreateBox, StartBox, BoxExits, ClientExits, ClientLost,
     AgentActs, AgentTraffic, AgentWrites, Tick, Later, vars
<1> QED BY <1>1, <1>2, <1>3, StepsOf

LEMMA FinishedStep ==
  ASSUME LimitsOutlastStart, LimitsTyped, TimesTyped, ClocksTyped, PlacesTyped, Ordered,
         InTime, Starting, Undecided, Finished, [Next]_vars
  PROVE  Finished'
<1> USE DEF limits, docker, tracker, agent, GoTo, Record, Fault, PlacesTyped, Ordered,
        NotYet, Spawned, Finished, GoneIsOver, StartedWhenStopping, OverForGood, Stopping,
        After, Excused
<1>1. CASE Begins
  BY <1>1 DEF Begins, LogStart, Spawn
<1>2. CASE Polls
  <2>1. CASE WaitReturns \/ Wake
    BY <2>1 DEF WaitReturns, Wake
  <2>2. CASE DurationHit
    BY <2>2
      DEF DurationHit, Expire, Expired, Starting, LimitsTyped, LimitsOutlastStart, TimesTyped,
          ClocksTyped
  <2>3. CASE Warn
    BY <2>3 DEF Warn
  <2>4. CASE NextIteration
    BY <2>4 DEF NextIteration
  <2>5. ASSUME NEW stats \in BOOLEAN, NEW cpu \in BOOLEAN, Sample(stats, cpu)
        PROVE  Finished'
    BY <2>5
      DEF Sample, Expire, InTime, Polling, Starting, LimitsTyped, LimitsOutlastStart,
          TimesTyped, ClocksTyped
  <2> QED BY <1>2, <2>1, <2>2, <2>3, <2>4, <2>5 DEF Polls
<1>3. CASE Stops
  BY <1>3 DEF Stops, Enforce, NoOpWrapUp, HermesWrapUp, WrapUpRaises, PlainStop,
     DockerStop, Stopped, ClientReaped, KillClient, GiveUpOnClient
<1>4. CASE Closes
  BY <1>4 DEF Closes, MergeEvents, LogEnd, Interrupt
<1>5. CASE DockerActs \/ AgentActs
  BY <1>5 DEF DockerActs, CreateBox, StartBox, BoxExits, ClientExits, ClientLost,
     AgentActs, AgentTraffic, AgentWrites
<1>6. CASE Tick
  BY <1>6 DEF Tick, MayWait
<1>7. CASE UNCHANGED vars
  BY <1>7 DEF vars
<1> QED BY <1>1, <1>2, <1>3, <1>4, <1>5, <1>6, <1>7, StepsOf

LEMMA InitIInv == LimitsOutlastStart /\ Init => IInv
<1> SUFFICES ASSUME LimitsOutlastStart, Init PROVE IInv
  OBVIOUS
<1>1. TypeOK /\ LimitsTyped /\ TimesTyped
  BY InitTypeOK, TypeParts, TimesOf
<1> USE DEF Init
<1>2. Ordered /\ Undecided /\ Finished
  BY DEF Ordered, NotYet, Spawned, EndIsLast, Undecided, Finished, GoneIsOver,
     StartedWhenStopping, OverForGood, Stopping, After
<1>3. Starting /\ InTime /\ Paced /\ WarningPaced /\ WarnedBeforeCap
  BY DEF Starting, InTime, Paced, WarningPaced, WarnedBeforeCap
<1>4. IdleIsQuiet
  BY <1>1 DEF IdleIsQuiet, TimesTyped
<1> QED BY <1>1, <1>2, <1>3, <1>4 DEF IInv

LEMMA NextIInv == LimitsOutlastStart /\ IInv /\ [Next]_vars => IInv'
<1> SUFFICES ASSUME LimitsOutlastStart, IInv, [Next]_vars PROVE IInv'
  OBVIOUS
<1>1. LimitsTyped /\ TimesTyped /\ ClocksTyped /\ PlacesTyped
  BY TypeParts, TimesOf DEF IInv
<1>2. TypeOK' /\ Ordered' /\ Starting' /\ InTime' /\ Paced'
  BY <1>1, NextTypeOK, OrderedStep, StartingStep, InTimeStep, PacedStep DEF IInv
<1>3. WarningPaced' /\ Undecided' /\ WarnedBeforeCap' /\ IdleIsQuiet' /\ Finished'
  BY <1>1, WarningStep, UndecidedStep, WarnedStep, QuietStep, FinishedStep DEF IInv
<1> QED BY <1>2, <1>3 DEF IInv

LEMMA MonitorInvariant ==
  ASSUME LimitsOutlastStart
  PROVE  Spec => []IInv
BY InitIInv, NextIInv, PTL DEF Spec

-----------------------------------------------------------------------------
(* SessionLife *)

LifeRecord ==
  IF "end" \in log THEN "ended" ELSE IF "start" \in log THEN "started" ELSE "none"
LifeBox == CASE box = "running" -> "running" [] box = "exited" -> "gone" [] OTHER -> "none"

\* A step appends one of the two records, or starts or ends the container, or
\* does neither.
LifeStep ==
  /\ UNCHANGED duration
  /\ Excused => Excused'
  /\ \/ UNCHANGED << LifeRecord, LifeBox >>
     \/ LifeRecord = "none" /\ LifeRecord' = "started" /\ UNCHANGED LifeBox
     \/ /\ LifeRecord = "started" /\ LifeRecord' = "ended" /\ UNCHANGED LifeBox
        /\ LifeBox # "running" \/ Excused
     \/ /\ LifeBox = "none" /\ LifeBox' = "running" /\ UNCHANGED LifeRecord
        /\ LifeRecord = "started" \/ Excused
     \/ LifeBox = "running" /\ LifeBox' = "gone" /\ UNCHANGED LifeRecord

LEMMA NextIsLifeStep ==
  ASSUME PlacesTyped, Ordered, Finished, [Next]_vars
  PROVE  LifeStep
<1> USE DEF limits, docker, tracker, agent, GoTo, Record, Fault, LifeStep, LifeRecord,
        LifeBox, PlacesTyped, Ordered, NotYet, Spawned, EndIsLast, Finished, OverForGood,
        After, Excused
<1>1. CASE Begins
  BY <1>1 DEF Begins, LogStart, Spawn
<1>2. CASE Polls
  <2>1. CASE WaitReturns \/ Wake \/ DurationHit \/ Warn \/ NextIteration
    BY <2>1 DEF WaitReturns, Wake, DurationHit, Warn, NextIteration, Expire
  <2>2. ASSUME NEW stats \in BOOLEAN, NEW cpu \in BOOLEAN, Sample(stats, cpu)
        PROVE  LifeStep
    BY <2>2 DEF Sample, Expire
  <2> QED BY <1>2, <2>1, <2>2 DEF Polls
<1>3. CASE Stops
  BY <1>3 DEF Stops, Enforce, NoOpWrapUp, HermesWrapUp, WrapUpRaises, PlainStop,
     DockerStop, Stopped, ClientReaped, KillClient, GiveUpOnClient
<1>4. CASE Closes
  BY <1>4 DEF Closes, MergeEvents, LogEnd, Interrupt
<1>5. CASE DockerActs \/ AgentActs
  BY <1>5 DEF DockerActs, CreateBox, StartBox, BoxExits, ClientExits, ClientLost,
     AgentActs, AgentTraffic, AgentWrites
<1>6. CASE Tick
  BY <1>6 DEF Tick
<1>7. CASE UNCHANGED vars
  BY <1>7 DEF vars
<1> QED BY <1>1, <1>2, <1>3, <1>4, <1>5, <1>6, <1>7, StepsOf

LEMMA LifeStepIsNext == LifeStep => [Life!Next]_(Life!vars)
<1> SUFFICES ASSUME LifeStep PROVE [Life!Next]_(Life!vars)
  OBVIOUS
<1> USE DEF LifeStep, LifeRecord, LifeBox, Life!Next, Life!vars
<1>a. Excused' \in {Excused, TRUE} /\ (Excused' = Excused \/ Excused' = TRUE)
  <2>1. Excused \in BOOLEAN /\ Excused' \in BOOLEAN
    BY DEF Excused
  <2> QED BY <2>1
<1>b. UNCHANGED (duration # NoLimit)
  OBVIOUS
<1>1. CASE UNCHANGED << LifeRecord, LifeBox >>
  BY <1>a, <1>b, <1>1 DEF Life!Lose
<1>2. CASE LifeRecord = "none" /\ LifeRecord' = "started" /\ UNCHANGED LifeBox
  BY <1>a, <1>b, <1>2 DEF Life!Start
<1>3. CASE /\ LifeRecord = "started" /\ LifeRecord' = "ended" /\ UNCHANGED LifeBox
           /\ LifeBox # "running" \/ Excused
  BY <1>a, <1>b, <1>3 DEF Life!End
<1>4. CASE /\ LifeBox = "none" /\ LifeBox' = "running" /\ UNCHANGED LifeRecord
           /\ LifeRecord = "started" \/ Excused
  BY <1>a, <1>b, <1>4 DEF Life!Run
<1>5. CASE LifeBox = "running" /\ LifeBox' = "gone" /\ UNCHANGED LifeRecord
  BY <1>a, <1>b, <1>5 DEF Life!Exit
<1> QED BY <1>1, <1>2, <1>3, <1>4, <1>5

-----------------------------------------------------------------------------
(* What holds of any limits *)

\* Every part of the state keeps its type, for any limits and timeouts
\* (run_shell, monitor_and_enforce).
THEOREM TypeCorrect == Spec => []TypeOK
BY InitTypeOK, NextTypeOK, PTL DEF Spec

\* The cap is a hard one: one poll, one sample and the stop ladder after it the
\* container is gone, whatever the warner, the adapter, the client or docker
\* stats do, if limits outlast the start of a container (monitor_and_enforce).
THEOREM CapIsHard ==
  ASSUME LimitsOutlastStart
  PROVE  Spec => []HardCap
<1>1. IInv => HardCap
  <2> SUFFICES ASSUME IInv, box = "running", duration # NoLimit, ~ Excused
               PROVE  elapsed <= duration + Poll + SampleTime + 2 * StopTime
    BY DEF HardCap
  <2>1. TimesTyped /\ ClocksTyped /\ PlacesTyped
    BY TypeParts, TimesOf DEF IInv
  <2>2. pc \in Polling \cup Stopping
    <3>1. client # "none"
      BY DEF IInv, Ordered, Spawned
    <3> QED BY <2>1, <3>1 DEF IInv, Ordered, NotYet, Finished, OverForGood, After,
            Polling, Stopping, PlacesTyped
  <2>3. pc \in Polling => elapsed <= duration + SampleTime + Poll
    BY <2>1 DEF IInv, InTime, Paced, Limited, Polling, TimesTyped, ClocksTyped
  <2>4. pc \in Stopping => elapsed <= duration + Poll + SampleTime + 2 * StopTime
    BY <2>1 DEF IInv, InTime, Paced, Stopping, TimesTyped, ClocksTyped
  <2> QED BY <2>1, <2>2, <2>3, <2>4 DEF TimesTyped, ClocksTyped
<1> QED BY <1>1, MonitorInvariant, PTL

\* No session is logged as ended with its container running, for any sequence
\* of failing warnings, wrap-ups and reapings (run_shell).
THEOREM EndIsOver ==
  ASSUME LimitsOutlastStart
  PROVE  Spec => []EndMeansOver
<1>1. IInv => EndMeansOver
  BY DEF IInv, Ordered, EndIsLast, Finished, OverForGood, After, EndMeansOver
<1> QED BY <1>1, MonitorInvariant, PTL

\* No session ends at its cap without an attempt to warn, for any cap whose lead is one
\* iteration of the loop or more (_warning_lead).
THEOREM CapIsWarned ==
  ASSUME LimitsOutlastStart
  PROVE  Spec => []WarnedBeforeCap
<1>1. IInv => WarnedBeforeCap
  BY DEF IInv
<1> QED BY <1>1, MonitorInvariant, PTL

\* No agent that writes within its idle limit is declared idle, however long
\* docker stats is out and however short the limits are (ActivityTracker.observe).
THEOREM WritersAreNotIdle == Spec => WriterIsNotIdle
<1> DEFINE Inv == TypeOK /\ InTime /\ IdleIsQuiet
<1>1. Init => Inv
  <2> SUFFICES ASSUME Init PROVE Inv
    OBVIOUS
  <2>1. TypeOK /\ TimesTyped
    BY InitTypeOK, TypeParts, TimesOf
  <2> QED BY <2>1 DEF Init, InTime, IdleIsQuiet, TimesTyped
<1>2. Inv /\ [Next]_vars => Inv'
  BY TypeParts, TimesOf, NextTypeOK, InTimeStep, QuietStep
<1>3. Inv /\ [Next]_vars =>
        [reason' = "idle" /\ reason = "clean" => quiet + SampleTime >= idleLimit]_vars
  <2> SUFFICES ASSUME Inv, [Next]_vars, reason' = "idle", reason = "clean"
               PROVE  quiet + SampleTime >= idleLimit
    OBVIOUS
  <2>1. TimesTyped /\ ClocksTyped /\ LimitsTyped
    BY TypeParts, TimesOf
  <2>2. PICK stats, cpu \in BOOLEAN : Sample(stats, cpu)
    BY DEF Next, Monitor, Environment, LogStart, Spawn, WaitReturns, Wake, DurationHit, Expire,
       Warn, NextIteration, Enforce, NoOpWrapUp, HermesWrapUp, WrapUpRaises, PlainStop,
       DockerStop, ClientReaped, KillClient, GiveUpOnClient, MergeEvents, LogEnd, CreateBox,
       StartBox, BoxExits, ClientExits, ClientLost, AgentTraffic, AgentWrites, Interrupt,
       Tick, vars
  <2>3. waited <= SampleTime /\ idleLimit # NoLimit
    BY <2>2 DEF Sample, InTime
  <2>4. idle' - waited >= idleLimit
    BY <2>2 DEF Sample, Expire
  <2>5. CASE idleLimit = 0
    BY <2>1, <2>5 DEF TimesTyped, ClocksTyped
  <2>6. CASE idleLimit # 0
    <3>1. idle' = idle /\ ~ fileMoved
      BY <2>1, <2>2, <2>3, <2>4, <2>6 DEF Sample, Active, TimesTyped, ClocksTyped
    <3> QED BY <2>1, <2>3, <2>4, <3>1 DEF IdleIsQuiet, TimesTyped, ClocksTyped
  <2> QED BY <2>5, <2>6
<1> QED BY <1>1, <1>2, <1>3, PTL DEF Spec, WriterIsNotIdle

\* Whoever raised out of run_shell did so for good.
RaisedForGood == struck \cap {"log", "interrupt"} # {} => pc = "raised"

LEMMA RaisedStep ==
  ASSUME RaisedForGood, [Next]_vars
  PROVE  RaisedForGood'
<1> USE DEF limits, docker, tracker, agent, GoTo, Record, Fault, RaisedForGood
<1>1. CASE Begins
  BY <1>1 DEF Begins, LogStart, Spawn
<1>2. CASE Polls
  <2>1. CASE WaitReturns \/ Wake \/ DurationHit \/ Warn \/ NextIteration
    BY <2>1 DEF WaitReturns, Wake, DurationHit, Warn, NextIteration, Expire
  <2>2. ASSUME NEW stats \in BOOLEAN, NEW cpu \in BOOLEAN, Sample(stats, cpu)
        PROVE  RaisedForGood'
    BY <2>2 DEF Sample, Expire
  <2> QED BY <1>2, <2>1, <2>2 DEF Polls
<1>3. CASE Stops
  BY <1>3 DEF Stops, Enforce, NoOpWrapUp, HermesWrapUp, WrapUpRaises, PlainStop,
     DockerStop, ClientReaped, KillClient, GiveUpOnClient
<1>4. CASE Closes
  BY <1>4 DEF Closes, MergeEvents, LogEnd, Interrupt
<1>5. CASE DockerActs \/ AgentActs
  BY <1>5 DEF DockerActs, CreateBox, StartBox, BoxExits, ClientExits, ClientLost,
     AgentActs, AgentTraffic, AgentWrites
<1>6. CASE Tick \/ UNCHANGED vars
  BY <1>6 DEF Tick, vars
<1> QED BY <1>1, <1>2, <1>3, <1>4, <1>5, <1>6, StepsOf

\* What the run EnforceLogFails shows can happen happens at two places only:
\* the append of any other record, the merge of the agent's events and the end
\* of the session leave no container behind when they raise (run_shell).
THEOREM LeaksLocated ==
  ASSUME LimitsOutlastStart
  PROVE  Spec => LeaksWhereRecorded
<1> DEFINE Located ==
      /\ pc # "raised" /\ pc' = "raised" /\ box = "running"
      /\ struck \cap {"stop", "detach"} = {}
      => \/ "interrupt" \in struck' \ struck
         \/ /\ "log" \in struck' \ struck
            /\ (pc = "check" /\ WarningDue) \/ (pc = "wrapup" /\ adapter = "hermes")
<1>1. Init => RaisedForGood
  BY DEF Init, RaisedForGood
<1>2. RaisedForGood /\ [Next]_vars => RaisedForGood'
  BY RaisedStep
<1>3. IInv /\ RaisedForGood /\ [Next]_vars => [Located]_vars
  <2> SUFFICES ASSUME IInv, RaisedForGood, [Next]_vars, pc # "raised", pc' = "raised",
                      box = "running", struck \cap {"stop", "detach"} = {}
               PROVE  Located
    OBVIOUS
  <2>1. pc \notin {"launch", "killed", "merge", "close"}
    BY DEF IInv, Ordered, Spawned, NotYet, Finished, OverForGood, After, Excused, RaisedForGood
  <2>2. Warn \/ WrapUpRaises \/ Interrupt
    BY <2>1 DEF Next, Monitor, Environment, LogStart, Spawn, WaitReturns, Wake, DurationHit,
       Expire, NextIteration, Sample, Enforce, NoOpWrapUp, HermesWrapUp, PlainStop, DockerStop,
       ClientReaped, KillClient, GiveUpOnClient, MergeEvents, LogEnd, CreateBox, StartBox,
       BoxExits, ClientExits, ClientLost, AgentTraffic, AgentWrites, Tick, vars, GoTo, Record
  <2> QED BY <2>2 DEF Warn, WrapUpRaises, Interrupt, Record, Fault
<1> QED BY <1>1, <1>2, <1>3, MonitorInvariant, PTL DEF Spec, LeaksWhereRecorded

\* The monitor delivers what SessionLife says the other commands may assume of
\* a session, but for its fairness.
THEOREM LivesSafely ==
  ASSUME LimitsOutlastStart
  PROVE  Spec => Life!Spec
<1>1. Init => Life!Init
  BY DEF Init, Life!Init, Excused
<1>2. IInv /\ [Next]_vars => [Life!Next]_(Life!vars)
  BY TypeParts, NextIsLifeStep, LifeStepIsNext DEF IInv
<1> QED BY <1>1, <1>2, MonitorInvariant, PTL DEF Spec, Life!Spec

=============================================================================
