----------------------------- MODULE HermesHome -----------------------------
(***************************************************************************)
(* The host directories a Hermes cell is given (adapters/hermes.py).       *)
(* `whiz hermes profile create` and the wizard's step 1b clone one home    *)
(* into another (create_profile), a launch inspects a home and then mounts *)
(* it read-write (preflight, container_mounts), and meanwhile host-side    *)
(* Hermes and the cells already running write to the same directories:     *)
(* nothing locks them.                                                     *)
(*                                                                         *)
(* A home is a tree of two levels, "top" and "sub", of files that matter   *)
(* here: credentials (auth.json and auth.lock in any case), symlinks and   *)
(* memories.  gateway.lock, at the top, is kept apart and stands for the   *)
(* gateway whose pid it records.  Any directory, lock or process may be    *)
(* one the user who launches cannot read or ask about: the code then goes  *)
(* on as if nothing were there.                                            *)
(***************************************************************************)
EXTENDS FiniteSets, Integers

CONSTANTS
    Default,        \* ~/.hermes, host-side Hermes's own home
    Profiles,       \* the homes `profile create` may make
    Files,          \* the files, <<kind, level>>, that may appear in a home
    Creators,       \* the `profile create` processes, one call each
    Launches,       \* the launches, one session each
    HostGateways,   \* the gateways host-side Hermes may run, one life each
    None            \* no home, no lock, no maker

Homes == Profiles \cup {Default}
Levels == {"top", "sub"}
Kinds == {"auth", "link", "memory"}
Gateways == HostGateways \cup Launches

(***************************************************************************)
(* gateway.lock and the sub-directory as entries of a directory listing.   *)
(* "garbled" is a gateway.lock whose JSON or pid cannot be read.           *)
(***************************************************************************)
LockFile == <<"lock", "top">>
SubDir == <<"dir", "sub">>

ASSUME HomeAssumption ==
    /\ Default \notin Profiles
    /\ {None, "new"} \cap Homes = {}
    /\ Files \subseteq Kinds \X Levels
    /\ Launches \cap HostGateways = {}
    /\ Creators \cap Launches = {}
    /\ None \notin Creators \cup Launches \cup HostGateways
    /\ "garbled" \notin Launches \cup HostGateways \cup {None}
    /\ "host" \notin Creators \cup {None}
    /\ None # "new"

VARIABLES
    holds,      \* the files of each home
    maker,      \* who made each home's directory: None when there is none
    lock,       \* whose pid each home's gateway.lock records
    creator,    \* each `profile create`
    launch,     \* each launch
    gateway     \* the home each host gateway runs on: None before and after

vars == <<holds, maker, lock, creator, launch, gateway>>

NotCreating(pc) ==
    [pc |-> pc, target |-> None, source |-> None, todo |-> {}]
NotLaunching(pc) ==
    [pc |-> pc, home |-> None, gateway |-> FALSE, unread |-> {},
     read |-> None, blind |-> FALSE, unseen |-> {}, held |-> {}]

(***************************************************************************)
(* A create holds what it still has to copy, the entries of the source as  *)
(* it listed them.  A launch holds the levels its walk has yet to read,    *)
(* the lock it read, and three histories no code keeps: blind, whether an  *)
(* error hid the lock or its process; unseen, the files written to its     *)
(* home since container_mounts began or hidden from that walk by an error; *)
(* and held, the host gateways that have held the lock since a gateway     *)
(* launch began its preflight.                                             *)
(***************************************************************************)
Entries == Files \cup {LockFile, SubDir}
CreatorPcs == {"idle", "checked", "copying", "created", "failed"}
LaunchPcs == {"idle", "preflight", "lock", "probe", "clear", "ready", "walk",
              "mount", "up", "over"}

CreatorRecords ==
    [pc: CreatorPcs, target: Profiles \cup {None},
     source: Homes \cup {None}, todo: SUBSET Entries]
LaunchRecords ==
    [pc: LaunchPcs, home: Homes \cup {None}, gateway: BOOLEAN,
     unread: SUBSET Levels, read: Gateways \cup {None}, blind: BOOLEAN,
     unseen: SUBSET Files, held: SUBSET HostGateways]

(***************************************************************************)
(* Every part of the state is what the code can make of it.                *)
(***************************************************************************)
TypeOK ==
    /\ holds \in [Homes -> SUBSET Files]
    /\ maker \in [Homes -> Creators \cup Launches \cup {"host", None}]
    /\ lock \in [Homes -> Gateways \cup {"garbled", None}]
    /\ creator \in [Creators -> CreatorRecords]
    /\ launch \in [Launches -> LaunchRecords]
    /\ gateway \in [HostGateways -> Homes \cup {"new", None}]

(***************************************************************************)
(* Host-side Hermes may have been set up before Whizzard, with any files   *)
(* and perhaps the lock a crashed gateway left garbled.                    *)
(***************************************************************************)
Init ==
    /\ \E present \in BOOLEAN :
         /\ maker = [h \in Homes |->
                       IF h = Default /\ present THEN "host" ELSE None]
         /\ \E files \in SUBSET Files, left \in {"garbled", None} :
              /\ ~present => files = {} /\ left = None
              /\ holds = [h \in Homes |-> IF h = Default THEN files ELSE {}]
              /\ lock = [h \in Homes |-> IF h = Default THEN left ELSE None]
    /\ creator = [c \in Creators |-> NotCreating("idle")]
    /\ launch = [l \in Launches |-> NotLaunching("idle")]
    /\ gateway = [g \in HostGateways |-> "new"]

(***************************************************************************)
(* No write to a home is sure to be seen by the launches past their mkdir. *)
(***************************************************************************)
Exists(h) == maker[h] # None
Mounting(l, h) == launch[l].home = h /\ launch[l].pc \in {"walk", "mount"}
Noticed(h, f) ==
    [l \in Launches |->
        IF Mounting(l, h)
        THEN [launch[l] EXCEPT !.unseen = @ \cup {f}]
        ELSE launch[l]]
WriteFile(h, f) ==
    /\ holds' = [holds EXCEPT ![h] = @ \cup {f}]
    /\ launch' = Noticed(h, f)

(***************************************************************************)
(* A lock that changes is no longer held by who held it since the launches *)
(* on its home began.                                                      *)
(***************************************************************************)
SetLock(h, holder, ls) ==
    /\ lock' = [lock EXCEPT ![h] = holder]
    /\ launch' = [l \in Launches |->
          IF ls[l].home = h THEN [ls[l] EXCEPT !.held = {}] ELSE ls[l]]
-----------------------------------------------------------------------------
(* create_profile *)

\* (mutant) "default" is not reserved.
CreateAnyName(c) ==
    /\ creator[c].pc = "idle"
    /\ \E target \in Homes :
         creator' = [creator EXCEPT ![c] =
            IF Exists(target) THEN NotCreating("failed")
            ELSE [NotCreating("checked") EXCEPT !.target = target]]
    /\ UNCHANGED <<holds, maker, lock, launch, gateway>>

(***************************************************************************)
(* The names are checked, the target must not exist, a named source must.  *)
(* The bare command clones the default home and falls back to an empty     *)
(* profile when there is none; --no-clone always makes an empty one.       *)
(***************************************************************************)
CreateProfile(c) ==
    /\ creator[c].pc = "idle"
    /\ \E target \in Profiles, from \in Homes \cup {None} :
         \E noClone \in {b \in BOOLEAN : b => from = None} :
           LET source == IF from # None THEN from
                         ELSE IF noClone \/ ~Exists(Default) THEN None
                         ELSE Default
           IN creator' = [creator EXCEPT ![c] =
                IF Exists(target) \/ (source # None /\ ~Exists(source))
                THEN NotCreating("failed")
                ELSE [pc |-> "checked", target |-> target,
                      source |-> source, todo |-> {}]]
    /\ UNCHANGED <<holds, maker, lock, launch, gateway>>

\* (mutant) the clone leaves credentials behind and nothing else.
CloneIgnoredAuth(f) == f[1] = "auth"

(***************************************************************************)
(* _clone_ignore, and the listing copytree asks it about.                  *)
(***************************************************************************)
CloneIgnored(f) == f[1] = "auth" \/ f = LockFile
Listing(h, level) ==
    {f \in holds[h] : f[2] = level}
      \cup {f \in {LockFile} : level = "top" /\ lock[h] # None}
      \cup {f \in {SubDir} :
              level = "top" /\ \E g \in holds[h] : g[2] = "sub"}
ToCopy(h, level) == {f \in Listing(h, level) : ~CloneIgnored(f)}

\* (mutant) the directory is made exist_ok.
MakeTargetAnyway(c) ==
    LET r == creator[c] IN
    /\ r.pc = "checked"
    /\ maker' = [maker EXCEPT ![r.target] = IF Exists(r.target) THEN @ ELSE c]
    /\ creator' = [creator EXCEPT ![c].pc = "copying",
          ![c].todo = IF r.source = None THEN {} ELSE ToCopy(r.source, "top")]
    /\ UNCHANGED <<holds, lock, launch, gateway>>

(***************************************************************************)
(* mkdir(exist_ok=False), or copytree's makedirs after its first listing:  *)
(* either fails when someone made the directory since it was checked.      *)
(***************************************************************************)
MakeTarget(c) ==
    LET r == creator[c] IN
    /\ r.pc = "checked"
    /\ IF Exists(r.target)
       THEN /\ creator' = [creator EXCEPT ![c] = NotCreating("failed")]
            /\ UNCHANGED maker
       ELSE /\ maker' = [maker EXCEPT ![r.target] = c]
            /\ creator' = [creator EXCEPT ![c].pc = "copying",
                  ![c].todo = IF r.source = None THEN {}
                              ELSE ToCopy(r.source, "top")]
    /\ UNCHANGED <<holds, lock, launch, gateway>>

(***************************************************************************)
(* copytree takes one entry at a time: it lists a directory, or copies a   *)
(* file, and a symlink as a symlink.  A gateway.lock it would copy too,    *)
(* were it not for the filter.                                             *)
(***************************************************************************)
CopyLevel(c) ==
    /\ creator[c].pc = "copying"
    /\ SubDir \in creator[c].todo
    /\ creator' = [creator EXCEPT ![c].todo =
          (@ \ {SubDir}) \cup ToCopy(creator[c].source, "sub")]
    /\ UNCHANGED <<holds, maker, lock, launch, gateway>>

CopyFile(c) ==
    LET r == creator[c] IN
    /\ r.pc = "copying"
    /\ \E f \in r.todo \ {SubDir} :
         /\ creator' = [creator EXCEPT ![c].todo = @ \ {f}]
         /\ IF f = LockFile
            THEN /\ SetLock(r.target, lock[r.source], launch)
                 /\ UNCHANGED holds
            ELSE /\ WriteFile(r.target, f)
                 /\ UNCHANGED lock
    /\ UNCHANGED <<maker, gateway>>

Created(c) ==
    /\ creator[c].pc = "copying"
    /\ creator[c].todo = {}
    /\ creator' = [creator EXCEPT ![c].pc = "created"]
    /\ UNCHANGED <<holds, maker, lock, launch, gateway>>

(* Interrupted or killed, it leaves the directory as far as it came. *)
CreatorDies(c) ==
    /\ creator[c].pc \in {"checked", "copying"}
    /\ creator' = [creator EXCEPT ![c] = NotCreating("failed")]
    /\ UNCHANGED <<holds, maker, lock, launch, gateway>>
-----------------------------------------------------------------------------
(* A launch: preflight, then container_mounts, then the cell *)

(***************************************************************************)
(* Without a hermes_home a launch needs --allow-ephemeral and mounts no    *)
(* home.  With one, preflight walks it.  A walk of a home that does not    *)
(* exist has nothing to read.                                              *)
(***************************************************************************)
TopOf(h) == {level \in {"top"} : Exists(h)}
HoldingAt(h) == {g \in HostGateways : gateway[g] = h /\ lock[h] = g}

Preflight(l) ==
    /\ launch[l].pc = "idle"
    /\ \/ \E allowEphemeral \in BOOLEAN :
            launch' = [launch EXCEPT ![l] =
               NotLaunching(IF allowEphemeral THEN "up" ELSE "over")]
       \/ \E h \in Homes, gatewayMode \in BOOLEAN :
            launch' = [launch EXCEPT ![l] =
               [NotLaunching("preflight") EXCEPT !.home = h,
                  !.gateway = gatewayMode, !.unread = TopOf(h),
                  !.held = {g \in HoldingAt(h) : gatewayMode}]]
    /\ UNCHANGED <<holds, maker, lock, creator, gateway>>

(***************************************************************************)
(* An OSError hides a whole directory, or single entries of it, but no     *)
(* symlink: what cannot even be told from one is refused.                  *)
(***************************************************************************)
Dangerous(f) == f[1] \in {"auth", "link"}
Hidden(h, level) ==
    {Listing(h, level)} \cup SUBSET {f \in Listing(h, level) : f[1] # "link"}
Below(entries) == {f[2] : f \in entries \cap {SubDir}}

(***************************************************************************)
(* _check_no_auth_json reads one directory at a time and refuses on a      *)
(* credential or a symlink it sees.  Refused, the launch is over:          *)
(* preflight says so, and container_mounts raises out of it before docker  *)
(* runs.  With a directory it cannot enter goes all that is below.         *)
(***************************************************************************)
Walk(l) ==
    LET r == launch[l] IN
    /\ r.pc \in {"preflight", "walk"}
    /\ \E level \in r.unread : \E hidden \in Hidden(r.home, level) :
         LET seen == Listing(r.home, level) \ hidden
             missed == {f \in holds[r.home] :
                          f \in hidden \/ f[2] \in Below(hidden)}
         IN launch' = [launch EXCEPT ![l] =
              IF \E f \in seen : Dangerous(f)
              THEN NotLaunching("over")
              ELSE [r EXCEPT
                      !.unread = (@ \ {level}) \cup Below(seen),
                      !.unseen = IF r.pc = "walk" THEN @ \cup missed ELSE @]]
    /\ UNCHANGED <<holds, maker, lock, creator, gateway>>

(***************************************************************************)
(* The walk done, only a gateway launch looks at gateway.lock; the second  *)
(* walk is followed by docker run.                                         *)
(***************************************************************************)
Walked(l) ==
    LET r == launch[l] IN
    /\ r.unread = {}
    /\ \/ /\ r.pc = "preflight"
          /\ launch' = [launch EXCEPT ![l].pc =
                IF r.gateway THEN "lock" ELSE "ready"]
       \/ /\ r.pc = "walk"
          /\ launch' = [launch EXCEPT ![l].pc = "mount"]
    /\ UNCHANGED <<holds, maker, lock, creator, gateway>>

\* (mutant) any lock that can be read is taken as stale.
ReadGatewayLockUnprobed(l) ==
    LET r == launch[l] IN
    /\ r.pc = "lock"
    /\ launch' = [launch EXCEPT ![l] =
          IF lock[r.home] \in {None, "garbled"}
          THEN [r EXCEPT !.pc = "ready"]
          ELSE [r EXCEPT !.pc = "clear", !.read = lock[r.home]]]
    /\ UNCHANGED <<holds, maker, lock, creator, gateway>>

(***************************************************************************)
(* _read_gateway_lock takes a lock for absent that it cannot parse, and    *)
(* one that it cannot read.  Some garbled ones raise out of preflight.     *)
(***************************************************************************)
ReadGatewayLock(l) ==
    LET r == launch[l]
        holder == lock[r.home] IN
    /\ r.pc = "lock"
    /\ \/ /\ holder \in {None, "garbled"}
          /\ launch' = [launch EXCEPT ![l].pc = "ready"]
       \/ /\ holder = "garbled"
          /\ launch' = [launch EXCEPT ![l] = NotLaunching("over")]
       \/ /\ holder \in Gateways
          /\ launch' = [launch EXCEPT ![l].pc = "probe", ![l].read = holder]
       \/ /\ holder \in Gateways
          /\ launch' = [launch EXCEPT ![l].pc = "ready", ![l].blind = TRUE]
    /\ UNCHANGED <<holds, maker, lock, creator, gateway>>

\* (mutant) a process one may not signal is taken as dead.
IsPidSignalled(holder, failed) == BOOLEAN

(***************************************************************************)
(* _is_pid_alive asks the host's kernel, and takes any error for a dead    *)
(* process: OpenProcess refused, say, for another user's on Windows.       *)
(* Without an error it knows a host gateway that lives; the pid one in a   *)
(* cell has recorded is the cell's own numbering, and, as a dead one's,    *)
(* names some host process or none.                                        *)
(***************************************************************************)
IsPidAlive(holder, failed) ==
    IF failed THEN {FALSE}
    ELSE IF holder \in HostGateways /\ gateway[holder] \in Homes THEN {TRUE}
    ELSE BOOLEAN

ProbePid(l) ==
    /\ launch[l].pc = "probe"
    /\ \E failed \in BOOLEAN :
         \E alive \in IsPidAlive(launch[l].read, failed) :
           launch' = [launch EXCEPT ![l] =
              IF alive THEN NotLaunching("over")
              ELSE [@ EXCEPT !.pc = "clear", !.blind = failed]]
    /\ UNCHANGED <<holds, maker, lock, creator, gateway>>

(***************************************************************************)
(* The stale lock is unlinked, whatever the file is by now; if it cannot   *)
(* be, or has gone, the launch goes on all the same.                       *)
(***************************************************************************)
ClearStaleLock(l) ==
    LET passed == [launch EXCEPT ![l].pc = "ready", ![l].read = None]
        h == launch[l].home IN
    /\ launch[l].pc = "clear"
    /\ \/ SetLock(h, None, passed)
       \/ launch' = passed /\ UNCHANGED lock
    /\ UNCHANGED <<holds, maker, creator, gateway>>

\* (mutant) container_mounts relies on the walk preflight made.
ContainerMountsUnwalked(l) ==
    LET h == launch[l].home IN
    /\ launch[l].pc = "ready"
    /\ maker' = [maker EXCEPT ![h] = IF Exists(h) THEN @ ELSE l]
    /\ launch' = [launch EXCEPT ![l].pc = "mount", ![l].unseen = {},
          ![l].blind = FALSE, ![l].held = {}]
    /\ UNCHANGED <<holds, lock, creator, gateway>>

(* container_mounts: mkdir(exist_ok=True), and the walk once more. *)
ContainerMounts(l) ==
    LET h == launch[l].home IN
    /\ launch[l].pc = "ready"
    /\ maker' = [maker EXCEPT ![h] = IF Exists(h) THEN @ ELSE l]
    /\ launch' = [launch EXCEPT ![l].pc = "walk", ![l].unread = {"top"},
          ![l].unseen = {}, ![l].blind = FALSE, ![l].held = {}]
    /\ UNCHANGED <<holds, lock, creator, gateway>>

(* docker run bind-mounts the home as it now is. *)
Mount(l) ==
    /\ launch[l].pc = "mount"
    /\ launch' = [launch EXCEPT ![l].pc = "up", ![l].unseen = {}]
    /\ UNCHANGED <<holds, maker, lock, creator, gateway>>

(***************************************************************************)
(* A launch fails or is killed before docker runs; a cell ends, cleanly or *)
(* not: a gateway in it may leave its lock behind.                         *)
(***************************************************************************)
LaunchEnds(l) ==
    LET over == [launch EXCEPT ![l] = NotLaunching("over")]
        h == launch[l].home IN
    /\ launch[l].pc \notin {"idle", "over"}
    /\ \/ launch' = over /\ UNCHANGED lock
       \/ /\ launch[l].pc = "up" /\ h # None /\ lock[h] = l
          /\ SetLock(h, None, over)
    /\ UNCHANGED <<holds, maker, creator, gateway>>
-----------------------------------------------------------------------------
(* What Hermes does, on the host and in a cell: external to this code *)

(* A cell may write anything in the home it was given. *)
CellWrites(l) ==
    /\ launch[l].pc = "up"
    /\ launch[l].home # None
    /\ \E f \in Files \ holds[launch[l].home] : WriteFile(launch[l].home, f)
    /\ UNCHANGED <<maker, lock, creator, gateway>>

(* A gateway overwrites gateway.lock when it starts. *)
CellGatewayStarts(l) ==
    /\ launch[l].pc = "up"
    /\ launch[l].gateway
    /\ SetLock(launch[l].home, l, launch)
    /\ UNCHANGED <<holds, maker, creator, gateway>>

(* The user logs in, links a directory or is set up for the first time. *)
HostWrites ==
    \E h \in Homes, f \in Files :
      /\ Exists(h) \/ h = Default
      /\ f \notin holds[h]
      /\ maker' = [maker EXCEPT ![h] = IF Exists(h) THEN @ ELSE "host"]
      /\ WriteFile(h, f)
      /\ UNCHANGED <<lock, creator, gateway>>

HostGatewayStarts(g) ==
    /\ gateway[g] = "new"
    /\ \E h \in {h \in Homes : Exists(h)} :
         /\ gateway' = [gateway EXCEPT ![g] = h]
         /\ SetLock(h, g, launch)
    /\ UNCHANGED <<holds, maker, creator>>

(* It removes its lock, or crashes and leaves it. *)
HostGatewayEnds(g) ==
    LET h == gateway[g] IN
    /\ h \in Homes
    /\ gateway' = [gateway EXCEPT ![g] = None]
    /\ LET ended == [l \in Launches |-> [launch[l] EXCEPT !.held = @ \ {g}]]
       IN \/ launch' = ended /\ UNCHANGED lock
          \/ lock[h] = g /\ SetLock(h, None, ended)
    /\ UNCHANGED <<holds, maker, creator>>
-----------------------------------------------------------------------------
Next ==
    \/ \E c \in Creators :
         \/ CreateProfile(c) \/ MakeTarget(c) \/ CopyLevel(c)
         \/ CopyFile(c) \/ Created(c) \/ CreatorDies(c)
    \/ \E l \in Launches :
         \/ Preflight(l) \/ Walk(l) \/ Walked(l) \/ ReadGatewayLock(l)
         \/ ProbePid(l) \/ ClearStaleLock(l) \/ ContainerMounts(l)
         \/ Mount(l) \/ LaunchEnds(l) \/ CellWrites(l)
         \/ CellGatewayStarts(l)
    \/ HostWrites
    \/ \E g \in HostGateways : HostGatewayStarts(g) \/ HostGatewayEnds(g)

Spec == Init /\ [][Next]_vars
-----------------------------------------------------------------------------
(***************************************************************************)
(* D-80, as far as a walk can keep it: a cell is given a home with a       *)
(* credential or a symlink in it only if that file was written after       *)
(* container_mounts began, or an OSError kept container_mounts's walk from *)
(* it.  preflight's walk alone would not do: the user and other cells      *)
(* write to the home between the two, and it may have been kept from it.   *)
(***************************************************************************)
MountsNoCredential ==
    [][\A l \in Launches :
         launch[l].pc = "mount" /\ launch'[l].pc = "up" =>
           {f \in holds[launch[l].home] : Dangerous(f)}
             \subseteq launch[l].unseen]_vars

(***************************************************************************)
(* D-87, host against cell: no gateway launch gets past preflight on a     *)
(* home whose lock a host gateway has held, alive, ever since preflight    *)
(* began, unless an error kept it from reading the lock or asking about    *)
(* its pid.                                                                *)
(***************************************************************************)
YieldsToHostGateway ==
    \A l \in Launches :
      /\ launch[l].gateway
      /\ launch[l].pc \in {"clear", "ready"}
      /\ ~launch[l].blind
      => launch[l].held = {}

(***************************************************************************)
(* preflight takes a live host gateway's lock away only if that gateway    *)
(* wrote it after the launch read the stale one, the code's own race, or   *)
(* if the probe of its pid met an error, which counts as dead.             *)
(***************************************************************************)
ClearsOnlyStale ==
    [][\A l \in Launches, h \in Homes :
         /\ launch[l].pc = "clear" /\ launch'[l].pc = "ready"
         /\ launch[l].home = h
         /\ lock[h] \in HostGateways /\ gateway[lock[h]] = h
         => \/ lock'[h] = lock[h]
            \/ launch[l].read # lock[h]
            \/ launch[l].blind]_vars

(***************************************************************************)
(* A gateway.lock names a gateway of its own home: a clone never brings    *)
(* one along that would refuse, or be cleared by, the copy's launches.     *)
(***************************************************************************)
RanOn(g) == IF g \in HostGateways THEN gateway[g] ELSE launch[g].home
LocksAreLocal ==
    \A h \in Homes :
      lock[h] \in Gateways => RanOn(lock[h]) \in {h, None}

(***************************************************************************)
(* A create fills only a directory it made itself: neither another create  *)
(* nor a launch's mkdir, after the check that the target does not exist,   *)
(* lets two of them share one.                                             *)
(***************************************************************************)
FillsItsOwnHome ==
    \A c \in Creators :
      creator[c].pc \in {"copying", "created"} =>
        maker[creator[c].target] = c
=============================================================================
