------------------------------- MODULE Grants -------------------------------
(***************************************************************************)
(* What a session may do, from its launch through the adjustments, granted *)
(* requests and wakes that replace it (cli/_launch.py, adjust.py, wake.py, *)
(* requests.py), checked against the mount registry (mounts.py) and the    *)
(* path policy (safety.py).                                                *)
(*                                                                         *)
(* A relaunch knows its predecessor only by the session_start record, so   *)
(* the state is split in two: `event' is what was logged, `cell' what the  *)
(* log does not say.  A wake goes by the last session_start under the      *)
(* session's id, which the cell may have written: when a session ends,     *)
(* merge_agent_events (session_log.py) appends what its cell emitted, and  *)
(* wake.py asks no record for its origin.  One operator and one session at *)
(* a time: what happens when commands overlap is SessionChain's.  The      *)
(* registry and the paths change at any moment.  `grant' is a history      *)
(* variable: what the operator has agreed to since the chain of sessions   *)
(* began, and whether it is genuine: no wake in it went by a record that a *)
(* cell wrote.                                                             *)
(***************************************************************************)
EXTENDS Integers, FiniteSets

CONSTANTS
  Mounts,      \* names in the registry
  Tier,        \* per name, how safety.py classes its path by itself
  Within,      \* <<n, m>>: the path of n lies inside that of m
  Profile,     \* profiles.json: name -> [broad, limit, idle, network]
  Presets,     \* presets.json: [profile, mounts, platforms]
  Platforms,   \* the platforms of the harness
  HasHome,     \* it has a hermes_home that outlives the container
  HasSecret,   \* it has a model_credential.secret
  Handlings,   \* --credential-handling as given, or "profile" if it is not
  Registries,  \* the mounts.json to start from
  Emitted,     \* the session_start records that a cell may emit
  Extensions,  \* durations that are asked for
  Floor,       \* the 60 s of _apply_changes
  StopTime,    \* bound on docker stop and the bring-up of the next session
  MaxAsked,    \* bound on the mounts one command names
  MaxTime,     \* bound on durations, and on the clock while a prompt is open
  MaxEdits     \* bound on the changes of the registry and the paths

Modes    == {"no", "ro", "rw"}   \* "no": not registered, not attached
Specs    == Modes \cup {"any"}   \* "any": a name without a mode
Networks == {"none", "open", "mediated", "onecli", "hybrid"}
Level    == [no |-> 0, ro |-> 1, rw |-> 2]

\* None, for a duration: no limit, no override, no extension
Unlimited == 0

\* What the parsers of profiles.json and presets.json let through, of what
\* decides a session's permissions
ProfileSpecs ==
  [broad : BOOLEAN, limit : Nat, idle : BOOLEAN, network : Networks]
PresetSpecs ==
  [profile : DOMAIN Profile, mounts : SUBSET Mounts, platforms : SUBSET Platforms]

\* A session_start record, and whether the log says that the session ended idle:
\* the host's own, one that is marked as an agent's, or none yet.
Events ==
  [ profile : DOMAIN Profile, mounts : [Mounts -> Modes],
    overrides : SUBSET Mounts, limit : Nat, ephemeral : BOOLEAN,
    idle : BOOLEAN, origin : {"host", "agent", "none"} ]

ASSUME GrantsConstants ==
  /\ Tier \in [Mounts -> {"open", "broad", "hard"}]
  /\ Within \subseteq Mounts \X Mounts
  /\ \A p \in DOMAIN Profile : Profile[p] \in ProfileSpecs
  /\ Presets \subseteq PresetSpecs
  /\ HasHome \in BOOLEAN /\ HasSecret \in BOOLEAN
  /\ Handlings \subseteq {"profile", "mediated", "onecli", "hybrid"}
  /\ Registries \subseteq [Mounts -> Modes]
  /\ Emitted \subseteq {e \in Events : e.origin = "agent"}
  /\ Extensions \subseteq Nat \ {0}
  /\ Floor \in Nat \ {0} /\ StopTime \in Nat
  /\ MaxAsked \in Nat /\ MaxTime \in Nat /\ MaxEdits \in Nat

VARIABLES
  registry,  \* mounts.json: name -> default_mode
  paths,     \* host path of each name: "there", "gone", or replaced by a "link"
  event,     \* session_start of the last session, and whether it ended idle
  cell,      \* what else is true of it
  command,   \* the operator's adjustment in progress
  edits,     \* changes of registry and paths so far
  grant      \* what the operator has granted

vars == << registry, paths, event, cell, command, edits, grant >>

Larger(a, b) == IF a > b THEN a ELSE b

-----------------------------------------------------------------------------
(* Changes (adjust.py) *)

Changes ==
  [ adds : [Mounts -> Specs], removes : SUBSET Mounts,
    extend : Extensions \cup {Unlimited}, broad : BOOLEAN ]

NoMounts  == [m \in Mounts |-> "no"]
NoChanges == [ adds |-> NoMounts, removes |-> {}, extend |-> Unlimited,
               broad |-> FALSE ]

Asked(specs) == {m \in Mounts : specs[m] # "no"}

\* Those one command line of the model's operator can hold
Asks == {specs \in [Mounts -> Specs] : Cardinality(Asked(specs)) <= MaxAsked}

\* What an agent can ask for (request_to_changes)
AddMount(m, spec) == [NoChanges EXCEPT !.adds[m] = spec]
Extend(d)         == [NoChanges EXCEPT !.extend = d]

Requests == {AddMount(m, spec) : m \in Mounts, spec \in Specs \ {"no"}}
              \cup {Extend(d) : d \in {x \in Extensions : event.limit + x <= MaxTime}}

NarrowingOnly(c) ==
  /\ c.removes # {} /\ Asked(c.adds) = {}
  /\ c.extend = Unlimited /\ ~ c.broad

\* The allowlist of what an agent may ask for
AgentAllowed(c) == ~ c.broad

\* What is left of a change when the session is in part as asked already
Effective(c) ==
  LET attached == Asked(event.mounts) IN
  [ c EXCEPT !.adds    = [m \in Mounts |-> IF m \in attached THEN "no" ELSE @[m]],
             !.removes = @ \cap attached,
             !.extend  = IF event.limit = Unlimited THEN Unlimited ELSE @ ]

-----------------------------------------------------------------------------
(* The gates of a launch (mounts.py, safety.py, cli/_launch.py) *)

\* The registered mode is the ceiling.
Resolves(m, spec) ==
  registry[m] # "no" /\ ~ (registry[m] = "ro" /\ spec = "rw")

ModeOf(m, spec) == IF spec = "any" THEN registry[m] ELSE spec

HardBlocked(m) == Tier[m] = "hard"
BroadFolder(m) == Tier[m] = "broad"
RegisteredInside(m) ==
  {n \in Mounts \ {m} : registry[n] # "no" /\ << n, m >> \in Within}

\* The reasons for an override: a broad folder, the parent of another mount
NeedsOverride(m) == BroadFolder(m) \/ RegisteredInside(m) # {}

Safe(m, profile, flag) ==
  /\ paths[m] # "gone"
  /\ ~ HardBlocked(m)
  /\ NeedsOverride(m) => Profile[profile].broad /\ flag

\* --credential-handling overrides the network of the profile.
NetworkOf(p) ==
  IF p.handling = "profile" THEN Profile[p.profile].network ELSE p.handling

\* An agent harness needs a home that lasts, or the word that it need not.
Preflight(p) == HasHome \/ p.ephemeral

HasCredential(p) == NetworkOf(p) \in {"mediated", "hybrid"} => HasSecret

Admitted(p) ==
  /\ Preflight(p) /\ HasCredential(p)
  /\ \A m \in Asked(p.specs) :
       Resolves(m, p.specs[m]) /\ Safe(m, p.profile, p.flag)

\* The override of an adjustment, or else the profile's limit
LimitOf(p) ==
  IF p.override = Unlimited THEN Profile[p.profile].limit ELSE p.override

\* The session_start record, and what it leaves out
Logged(p) ==
  [ profile   |-> p.profile,
    mounts    |-> [m \in Mounts |-> ModeOf(m, p.specs[m])],
    overrides |-> {m \in Asked(p.specs) : NeedsOverride(m)},
    limit     |-> LimitOf(p),
    ephemeral |-> p.ephemeral,
    idle      |-> FALSE,
    origin    |-> "host" ]

Unlogged(p) ==
  [ up |-> TRUE, platforms |-> p.platforms, network |-> NetworkOf(p),
    elapsed |-> 0, edits |-> edits ]

Start(p) ==
  /\ Admitted(p)
  /\ event' = Logged(p) /\ cell' = Unlogged(p)

-----------------------------------------------------------------------------
(* Launches of the operator's own *)

\* Before the first, and once a record that a cell wrote has been gone by: from
\* there on nothing is kept of what the operator agreed to.
NoGrant    == [mounts |-> NoMounts, broad |-> FALSE, time |-> 0, genuine |-> TRUE]
NotGenuine == [NoGrant EXCEPT !.genuine = FALSE]

Granted(p) ==
  [ mounts  |-> [m \in Mounts |-> ModeOf(m, p.specs[m])],
    broad   |-> p.flag,
    time    |-> Profile[p.profile].limit,
    genuine |-> TRUE ]

Launch(p) ==
  /\ ~ cell.up /\ command.step = "none"
  /\ Start(p) /\ grant' = Granted(p)
  /\ UNCHANGED << registry, paths, command, edits >>

Run(profile, specs, flag, ephemeral, handling) ==
  Launch([ profile |-> profile, specs |-> specs, flag |-> flag,
           ephemeral |-> ephemeral, handling |-> handling,
           platforms |-> Platforms, override |-> Unlimited ])

\* A preset stands for the flag, and may restrict the platforms.
LaunchPreset(preset, ephemeral, handling) ==
  Launch([ profile   |-> preset.profile,
           specs     |-> [m \in Mounts |-> IF m \in preset.mounts THEN "any" ELSE "no"],
           flag      |-> TRUE,
           ephemeral |-> ephemeral,
           handling  |-> handling,
           platforms |-> IF preset.platforms = {} THEN Platforms ELSE preset.platforms,
           override  |-> Unlimited ])

-----------------------------------------------------------------------------
(* Wake (wake.py) *)

\* Variants of the two below, each wrong: the mode is forgotten, the profile's
\* capability is taken for the flag, the flag is forgotten
CarriedNames(e)      == [m \in Mounts |-> IF e.mounts[m] = "no" THEN "no" ELSE "any"]
CarriedCapability(e) == Profile[e.profile].broad
FlagForgotten(e)     == FALSE

\* What a relaunch carries over from the record: mounts by name and mode, and
\* the flag if the session made use of it
CarriedSpecs(e) == e.mounts
CarriedFlag(e)  == e.overrides # {}

Reconstructed(e, drop) ==
  [ profile   |-> e.profile,
    specs     |-> [m \in Mounts |-> IF m \in drop THEN "no" ELSE CarriedSpecs(e)[m]],
    flag      |-> CarriedFlag(e),
    ephemeral |-> e.ephemeral,
    handling  |-> "profile",
    platforms |-> Platforms,
    override  |-> Unlimited ]

\* What a wake may find once the cell's records have been merged: the host's
\* session_start or a later one of the cell's, with an end that is taken for
\* idle.  Of the ends a cell emitted, a bare wake takes an idle one, whatever end
\* the host has logged after it.
Found ==
  IF event.origin = "none" THEN {}
  ELSE {[start EXCEPT !.idle = TRUE] : start \in {event} \cup Emitted}

\* check_mounts_exist counts a link as missing, missing_mount_names does not.
\* A record of the cell's gives what host paths it likes: some that are there.
MissingPaths(e) == {m \in Asked(e.mounts) : e.origin = "host" /\ paths[m] # "there"}
MissingNames(e) == {m \in MissingPaths(e) : paths[m] = "gone"}

\* The woken session starts under the whole limit of the profile in the record.
Wake(e, allowMissing) ==
  /\ ~ cell.up /\ command.step = "none"
  /\ MissingPaths(e) # {} => allowMissing
  /\ Start(Reconstructed(e, IF MissingPaths(e) = {} THEN {} ELSE MissingNames(e)))
  /\ grant' = IF grant.genuine /\ e = event
              THEN [grant EXCEPT !.time = Profile[event.profile].limit]
              ELSE NotGenuine
  /\ UNCHANGED << registry, paths, command, edits >>

-----------------------------------------------------------------------------
(* Adjustments and requests (adjust.py, requests.py) *)

NoCommand ==
  [ step |-> "none", by |-> "operator", changes |-> NoChanges,
    left |-> Unlimited, approved |-> FALSE, seen |-> 0, waited |-> 0 ]

\* Variants of LeftOver, each wrong: no floor, no account of the elapsed time
LeftOverUnfloored(c) ==
  IF event.limit = Unlimited THEN Unlimited
  ELSE event.limit - cell.elapsed + c.extend

LeftOverWhole(c) ==
  IF event.limit = Unlimited THEN Unlimited
  ELSE Larger(event.limit + c.extend, Floor)

\* The duration of the next session
LeftOver(c) ==
  IF event.limit = Unlimited THEN Unlimited
  ELSE Larger(event.limit - cell.elapsed + c.extend, Floor)

\* adjust_session up to the prompt, which a narrowing change skips
Begin(who, c) ==
  LET e == Effective(c) IN
  command' =
    IF e = NoChanges THEN NoCommand
    ELSE IF NarrowingOnly(e)
    THEN [NoCommand EXCEPT !.step = "stop", !.by = who, !.changes = e,
                           !.left = LeftOver(e), !.seen = edits]
    ELSE [NoCommand EXCEPT !.step = "prompt", !.by = who, !.changes = e,
                           !.seen = edits]

\* The session must be found among the running containers.
Adjust(c) ==
  /\ command.step = "none" /\ cell.up
  /\ Begin("operator", c)
  /\ UNCHANGED << registry, paths, event, cell, edits, grant >>

\* A wrong variant of RequestFlag: the flag that the relaunch would carry over
RequestFlagCarried == CarriedFlag(event)

\* The check before anything is stopped.  It resolves the name without the mode
\* and asks the policy as if no flag were given.
RequestFlag == FALSE

Valid(c) ==
  \A m \in Asked(c.adds) :
    Resolves(m, "any") /\ Safe(m, event.profile, RequestFlag)

\* whiz requests approve, up to the prompt.  The request is whatever the cell's
\* file holds at the moment it is read; one that fails the check changes nothing.
TakeRequest(c) ==
  /\ command.step = "none" /\ cell.up
  /\ Valid(c) /\ AgentAllowed(c)
  /\ Begin("agent", c)
  /\ UNCHANGED << registry, paths, event, cell, edits, grant >>

Approve ==
  /\ command.step = "prompt"
  /\ command' = [command EXCEPT !.step = "stop", !.approved = TRUE,
                                !.left = LeftOver(command.changes)]
  /\ UNCHANGED << registry, paths, event, cell, edits, grant >>

Decline ==
  /\ command.step = "prompt"
  /\ command' = NoCommand
  /\ UNCHANGED << registry, paths, event, cell, edits, grant >>

\* docker stop, also of a container that is gone already
Stop ==
  /\ command.step = "stop"
  /\ command' = [command EXCEPT !.step = "launch"]
  /\ cell' = [cell EXCEPT !.up = FALSE]
  /\ UNCHANGED << registry, paths, event, edits, grant >>

StopFails ==
  /\ command.step = "stop"
  /\ command' = NoCommand
  /\ UNCHANGED << registry, paths, event, cell, edits, grant >>

\* _apply_changes
Applied(e, c, left) ==
  [ Reconstructed(e, c.removes) EXCEPT
      !.specs    = [m \in Mounts |-> IF c.adds[m] # "no" THEN c.adds[m] ELSE @[m]],
      !.flag     = @ \/ c.broad,
      !.override = left ]

\* What the operator has agreed to by letting the change pass.  A mount without
\* a mode may get either.  What was left when the change was approved is handed
\* on, so the deadline moves by the time the stop takes, and to the floor.
Extended(c, approved) ==
  [ grant EXCEPT
      !.mounts = [m \in Mounts |->
                    IF m \in c.removes THEN "no"
                    ELSE IF ~ approved \/ c.adds[m] = "no" THEN @[m]
                    ELSE IF c.adds[m] = "any" THEN "rw" ELSE c.adds[m]],
      !.broad  = @ \/ (approved /\ c.broad),
      !.time   = IF event.limit = Unlimited THEN @
                 ELSE Larger(@ + command.waited
                               + (IF approved THEN c.extend ELSE 0), Floor) ]

Relaunch ==
  LET p == Applied(event, command.changes, command.left) IN
  /\ command.step = "launch"
  /\ \/ /\ Start(p)
        /\ grant' = IF grant.genuine
                    THEN Extended(command.changes, command.approved) ELSE grant
     \/ ~ Admitted(p) /\ UNCHANGED << event, cell, grant >>
  /\ command' = NoCommand
  /\ UNCHANGED << registry, paths, edits >>

-----------------------------------------------------------------------------
(* The session's end, the clock, and the operator's other hand *)

\* At its cap, by itself, or idle
End(idle) ==
  /\ cell.up /\ (idle => Profile[event.profile].idle)
  /\ cell' = [cell EXCEPT !.up = FALSE]
  /\ event' = [event EXCEPT !.idle = idle]
  /\ UNCHANGED << registry, paths, command, edits, grant >>

\* The start time counts on while a prompt is open, up to the model's bound.
Tick ==
  /\ event.limit # Unlimited /\ cell.elapsed < MaxTime
  /\ cell.up \/ command.step # "none"
  /\ cell.up => cell.elapsed < event.limit
  /\ command.step \in {"stop", "launch"} => command.waited < StopTime
  /\ cell' = [cell EXCEPT !.elapsed = @ + 1]
  /\ command' = IF command.step \in {"stop", "launch"}
                THEN [command EXCEPT !.waited = @ + 1] ELSE command
  /\ grant' = IF grant.genuine THEN [grant EXCEPT !.time = @ - 1] ELSE grant
  /\ UNCHANGED << registry, paths, event, edits >>

Edit ==
  /\ edits < MaxEdits /\ edits' = edits + 1
  /\ UNCHANGED << event, cell, command, grant >>

\* whiz mounts add
Register(m, mode) ==
  /\ registry[m] = "no" /\ ~ HardBlocked(m) /\ paths[m] = "there"
  /\ registry' = [registry EXCEPT ![m] = mode]
  /\ paths' = paths /\ Edit

EditPath(m, state) ==
  /\ paths[m] # state
  /\ paths' = [paths EXCEPT ![m] = state]
  /\ registry' = registry /\ Edit

-----------------------------------------------------------------------------

\* No session yet
Init ==
  /\ registry \in Registries
  /\ paths = [m \in Mounts |-> "there"]
  /\ event \in [ profile : DOMAIN Profile, mounts : {NoMounts}, overrides : {{}},
                 limit : {Unlimited}, ephemeral : {FALSE}, idle : {FALSE},
                 origin : {"none"} ]
  /\ cell = [up |-> FALSE, platforms |-> {}, network |-> "none",
             elapsed |-> 0, edits |-> 0]
  /\ command = NoCommand
  /\ edits = 0 /\ grant = NoGrant

Operator ==
  \/ \E profile \in DOMAIN Profile, specs \in Asks, flag \in BOOLEAN,
        ephemeral \in BOOLEAN, handling \in Handlings :
       Run(profile, specs, flag, ephemeral, handling)
  \/ \E preset \in Presets, ephemeral \in BOOLEAN,
        handling \in Handlings :
       LaunchPreset(preset, ephemeral, handling)
  \/ \E e \in Found, allowMissing \in BOOLEAN : Wake(e, allowMissing)
  \/ \E adds \in Asks, removes \in SUBSET Mounts,
        extend \in Extensions \cup {Unlimited}, broad \in BOOLEAN :
       /\ Cardinality(Asked(adds)) + Cardinality(removes) <= MaxAsked
       /\ event.limit + extend <= MaxTime
       /\ Adjust([ adds |-> adds, removes |-> removes, extend |-> extend,
                   broad |-> broad ])
  \/ \E c \in Requests : TakeRequest(c)
  \/ Approve \/ Decline \/ Stop \/ StopFails \/ Relaunch

Environment ==
  \/ \E idle \in BOOLEAN : End(idle)
  \/ Tick
  \/ \E m \in Mounts, mode \in Modes \ {"no"} : Register(m, mode)
  \/ \E m \in Mounts, state \in {"there", "gone", "link"} : EditPath(m, state)

Next == Operator \/ Environment

Spec == Init /\ [][Next]_vars

-----------------------------------------------------------------------------
(* Properties *)

Cells ==
  [ up : BOOLEAN, platforms : SUBSET Platforms, network : Networks,
    elapsed : Nat, edits : Nat ]
Adjustments ==
  [ step : {"none", "prompt", "stop", "launch"}, by : {"operator", "agent"},
    changes : Changes, left : Nat, approved : BOOLEAN, seen : Nat,
    waited : Nat ]
GrantStates ==
  [ mounts : [Mounts -> Modes], broad : BOOLEAN, time : Int, genuine : BOOLEAN ]

\* Types.  A duration that came out negative would fail it: left and limit.
TypeOK ==
  /\ registry \in [Mounts -> Modes]
  /\ paths \in [Mounts -> {"there", "gone", "link"}]
  /\ event \in Events /\ cell \in Cells
  /\ command \in Adjustments
  /\ edits \in Nat /\ grant \in GrantStates

\* The two gates of a broad mount (safety.py), along the whole chain: a running
\* session has an override only if its profile permits them, and in a genuine
\* chain only if the operator gave the flag at the launch, with the preset, or
\* in an approved adjustment.
BroadIsConsented ==
  cell.up /\ event.overrides # {} =>
    /\ Profile[event.profile].broad
    /\ grant.genuine => grant.broad

\* No silent upgrade: in a genuine chain whatever is attached, and to write, was
\* named in a launch or in a change the operator approved, and not removed since.
\* In any chain, one that goes by a record a cell wrote too, the registry allows
\* it.
OnlyWhatWasGranted ==
  cell.up =>
    \A m \in Mounts :
      /\ Level[event.mounts[m]] <= Level[registry[m]]
      /\ grant.genuine => Level[event.mounts[m]] <= Level[grant.mounts[m]]

\* The deadline: a session of a genuine chain has no more time left than its
\* launch gave it, plus the approved extensions, the time the stops took, and
\* the floor.
WithinBudget ==
  cell.up /\ grant.genuine /\ event.limit # Unlimited =>
    event.limit - cell.elapsed <= grant.time

\* A step of a relaunch, of a change the operator was asked about or not
Relaunched == command.step = "launch" /\ command'.step = "none"

\* An agent never brings about an override (requests.py): what its request has
\* added needs none, unless registry or paths changed after the check.
AgentAddsNothingBroad ==
  [][ Relaunched /\ cell'.up /\ command.by = "agent" /\ command.seen = edits =>
        event'.overrides \cap Asked(command.changes.adds) = {} ]_vars

\* The check keeps a request that cannot be granted from stopping the session:
\* one that passed it relaunches, if the registry and the paths are as the
\* running session found them and it did not ask to write a read-only mount.
ValidRequestRelaunches ==
  [][ /\ Relaunched /\ command.by = "agent" /\ cell.edits = edits
      /\ cell.network = Profile[event.profile].network
      /\ \A m \in Mounts : ~ (registry[m] = "ro" /\ command.changes.adds[m] = "rw")
      => cell'.up ]_vars

\* A change that skips the prompt widens nothing.
NarrowingWidensNothing ==
  [][ Relaunched /\ cell'.up /\ ~ command.approved =>
        /\ cell'.platforms \subseteq cell.platforms
        /\ cell'.network = cell.network ]_vars

\* Nothing else of it widens: the relaunch of an unprompted change is the
\* session that was stopped less the mounts removed, under the same profile,
\* with no override if it had none, for what was left when the stop began, or
\* for the floor.
NarrowingWidensNoMount ==
  [][ Relaunched /\ cell'.up /\ ~ command.approved =>
        /\ event'.profile = event.profile
        /\ event'.mounts = [m \in Mounts |-> IF m \in command.changes.removes
                                               THEN "no" ELSE event.mounts[m]]
        /\ event'.overrides # {} => event.overrides # {}
        /\ event.limit # Unlimited =>
             /\ event'.limit # Unlimited
             /\ event'.limit
                  = Larger(event.limit - cell.elapsed + command.waited, Floor)
        /\ cell.network = Profile[event.profile].network =>
             cell'.network = cell.network ]_vars

\* The host's record of a session says enough to wake it: if a wake may find it,
\* the cell having emitted none, it passes every gate of its launch again, and no
\* path of it is missing by name, if nothing was edited since it was launched and
\* its network was its profile's.
UneditedSessionsWake ==
  /\ event \in Found /\ ~ cell.up /\ cell.edits = edits
  /\ cell.network = Profile[event.profile].network
  => MissingNames(event) = {} /\ Admitted(Reconstructed(event, {}))
=============================================================================
