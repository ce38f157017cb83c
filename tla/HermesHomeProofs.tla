-------------------------- MODULE HermesHomeProofs --------------------------
(***************************************************************************)
(* What the runs of HermesHome show for two launches, proved for any       *)
(* number of homes, files, creates, launches and host gateways.            *)
(***************************************************************************)
EXTENDS HermesHome, TLAPS

(***************************************************************************)
(* The inductive invariant.  A create or launch under way has its home; a  *)
(* create never has a lock to copy; a lock's holder runs on the lock's     *)
(* home, or over; what a launch has in held does hold the lock, and is     *)
(* what the launch reads; a launch about to clear a host gateway's lock    *)
(* read it from a dead one, or an error misled it; and what a walk has     *)
(* passed is clean or unseen.                                              *)
(***************************************************************************)
HomesKnown ==
    /\ \A c \in Creators :
         creator[c].pc \in {"checked", "copying", "created"} =>
           creator[c].target \in Profiles
    /\ \A c \in Creators :
         creator[c].todo # {} => creator[c].source \in Homes
    /\ \A l \in Launches :
         launch[l].pc \notin {"idle", "up", "over"} => launch[l].home \in Homes

NoLockToCopy == \A c \in Creators : LockFile \notin creator[c].todo

HoldersRun ==
    \A h \in Homes :
      /\ lock[h] \in Launches =>
           /\ launch[lock[h]].pc \in {"up", "over"}
           /\ launch[lock[h]].home \in {h, None}
      /\ lock[h] \in HostGateways => gateway[lock[h]] \in {h, None}

HeldNow ==
    \A l \in Launches : \A g \in launch[l].held :
      /\ launch[l].home \in Homes
      /\ lock[launch[l].home] = g
      /\ gateway[g] = launch[l].home
      /\ launch[l].pc = "probe" => launch[l].read = g

ReadIsReal ==
    \A l \in Launches :
      launch[l].read \in HostGateways =>
        /\ launch[l].pc \in {"probe", "clear"} =>
             gateway[launch[l].read] # "new"
        /\ launch[l].pc = "clear" =>
             gateway[launch[l].read] = None \/ launch[l].blind

PassedIsClean ==
    \A l \in Launches : \A f \in Files :
      /\ launch[l].pc \in {"walk", "mount"}
      /\ f \in holds[launch[l].home]
      /\ Dangerous(f)
      /\ f \notin launch[l].unseen
      => /\ launch[l].pc = "walk"
         /\ "top" \in launch[l].unread \/ f[2] \in launch[l].unread

HomeIInv ==
    /\ TypeOK
    /\ HomesKnown
    /\ FillsItsOwnHome
    /\ NoLockToCopy
    /\ HoldersRun
    /\ HeldNow
    /\ YieldsToHostGateway
    /\ ReadIsReal
    /\ PassedIsClean
-----------------------------------------------------------------------------
(* Idle, failed or finished, a create and a launch are of their types. *)
LEMMA NotCreatingType ==
  ASSUME NEW pc \in CreatorPcs
  PROVE  NotCreating(pc) \in CreatorRecords
  BY DEF NotCreating, CreatorRecords

LEMMA NotLaunchingType ==
  ASSUME NEW pc \in LaunchPcs
  PROVE  NotLaunching(pc) \in LaunchRecords
  BY DEF NotLaunching, LaunchRecords

(* A listing holds entries, and what a clone takes of it no lock. *)
LEMMA ToCopyType ==
  ASSUME TypeOK, NEW h \in Homes, NEW level
  PROVE  ToCopy(h, level) \subseteq Entries /\ LockFile \notin ToCopy(h, level)
  BY DEF TypeOK, ToCopy, Listing, Entries, CloneIgnored

(* What a change of a lock, and a write, make of the launches. *)
LEMMA SetLockType ==
  ASSUME TypeOK, NEW h, NEW holder \in Gateways \cup {"garbled", None},
         NEW ls \in [Launches -> LaunchRecords], SetLock(h, holder, ls)
  PROVE  /\ lock' \in [Homes -> Gateways \cup {"garbled", None}]
         /\ launch' \in [Launches -> LaunchRecords]
<1>1. \A l \in Launches : [ls[l] EXCEPT !.held = {}] \in LaunchRecords
  BY DEF LaunchRecords
<1> QED
  BY <1>1 DEF TypeOK, SetLock

LEMMA WriteFileType ==
  ASSUME TypeOK, NEW h, NEW f \in Files, WriteFile(h, f)
  PROVE  /\ holds' \in [Homes -> SUBSET Files]
         /\ launch' \in [Launches -> LaunchRecords]
<1>1. \A l \in Launches :
        [launch[l] EXCEPT !.unseen = @ \cup {f}] \in LaunchRecords
  BY DEF TypeOK, LaunchRecords
<1> QED
  BY <1>1 DEF TypeOK, WriteFile, Noticed

(***************************************************************************)
(* What one step of a walk changes: a credential or symlink of the walk's  *)
(* home is refused, becomes unseen, or is where the walk has yet to look.  *)
(***************************************************************************)
LEMMA WalkFacts ==
  ASSUME TypeOK, HomesKnown, NEW l \in Launches, Walk(l)
  PROVE  /\ UNCHANGED <<holds, maker, lock, creator, gateway>>
         /\ launch[l].pc \in {"preflight", "walk"}
         /\ \E r \in LaunchRecords :
              /\ launch' = [launch EXCEPT ![l] = r]
              /\ \/ r = NotLaunching("over")
                 \/ /\ r.pc = launch[l].pc /\ r.home = launch[l].home
                    /\ r.gateway = launch[l].gateway
                    /\ r.read = launch[l].read /\ r.blind = launch[l].blind
                    /\ r.held = launch[l].held
                    /\ launch[l].unseen \subseteq r.unseen
                    /\ launch[l].pc = "walk" =>
                         \A f \in holds[launch[l].home] \ r.unseen :
                           Dangerous(f) =>
                             \/ {"top", f[2]} \cap launch[l].unread = {}
                             \/ {"top", f[2]} \cap r.unread # {}
<1> USE HomeAssumption
<1> DEFINE r == launch[l]
           Seen(level, hidden) == Listing(r.home, level) \ hidden
           Missed(hidden) == {f \in holds[r.home] :
                                f \in hidden \/ f[2] \in Below(hidden)}
           Left(level, hidden) ==
             (r.unread \ {level}) \cup Below(Seen(level, hidden))
           Unseen(hidden) ==
             IF r.pc = "walk" THEN r.unseen \cup Missed(hidden) ELSE r.unseen
<1>1. /\ r \in LaunchRecords /\ r.home \in Homes
      /\ r.unread \subseteq Levels /\ r.unseen \subseteq Files
      /\ holds[r.home] \subseteq Files
  BY DEF Walk, TypeOK, HomesKnown, LaunchRecords
<1>2. PICK level \in r.unread :
        \E hidden \in Hidden(r.home, level) :
          \/ launch' = [launch EXCEPT ![l] = NotLaunching("over")]
          \/ /\ ~ \E f \in Seen(level, hidden) : Dangerous(f)
             /\ launch' = [launch EXCEPT ![l] =
                  [r EXCEPT !.unread = Left(level, hidden),
                            !.unseen = Unseen(hidden)]]
  BY DEF Walk
<1>3. PICK hidden \in Hidden(r.home, level) :
          \/ launch' = [launch EXCEPT ![l] = NotLaunching("over")]
          \/ /\ ~ \E f \in Seen(level, hidden) : Dangerous(f)
             /\ launch' = [launch EXCEPT ![l] =
                  [r EXCEPT !.unread = Left(level, hidden),
                            !.unseen = Unseen(hidden)]]
  BY <1>2
<1>4. Left(level, hidden) \in SUBSET Levels
  BY <1>1 DEF Below, SubDir, Levels
<1>5. Unseen(hidden) \in SUBSET Files /\ r.unseen \subseteq Unseen(hidden)
  BY <1>1
<1>6. ASSUME ~ \E f \in Seen(level, hidden) : Dangerous(f), r.pc = "walk",
             NEW f \in holds[r.home] \ Unseen(hidden), Dangerous(f),
             {"top", f[2]} \cap r.unread # {}
      PROVE  {"top", f[2]} \cap Left(level, hidden) # {}
  <2>1. f \notin hidden /\ f[2] \notin Below(hidden) /\ f[2] \in Levels
    BY <1>1, <1>6
  <2>2. f[2] # level
    <3>1. f[2] = level => f \in Listing(r.home, level)
      BY <1>6 DEF Listing
    <3> QED
      BY <1>6, <2>1, <3>1
  <2>3. CASE level = "top"
    <3>1. f[2] = "sub"
      BY <2>1, <2>2, <2>3 DEF Levels
    <3>2. SubDir \in Listing(r.home, level)
      BY <1>6, <2>3, <3>1 DEF Listing
    <3>3. SubDir \notin hidden
      BY <2>1, <3>1 DEF Below, SubDir
    <3>4. "sub" \in Below(Seen(level, hidden))
      BY <3>2, <3>3 DEF Below, SubDir
    <3> QED
      BY <3>1, <3>4
  <2>4. CASE level # "top"
    BY <1>6, <2>2, <2>4
  <2> QED
    BY <2>3, <2>4
<1>7. /\ UNCHANGED <<holds, maker, lock, creator, gateway>>
      /\ r.pc \in {"preflight", "walk"}
  BY DEF Walk
<1>8. CASE launch' = [launch EXCEPT ![l] = NotLaunching("over")]
  BY <1>7, <1>8, NotLaunchingType DEF LaunchPcs
<1>9. ASSUME ~ \E f \in Seen(level, hidden) : Dangerous(f),
             launch' = [launch EXCEPT ![l] =
               [r EXCEPT !.unread = Left(level, hidden),
                         !.unseen = Unseen(hidden)]]
      PROVE  \E q \in LaunchRecords :
               /\ launch' = [launch EXCEPT ![l] = q]
               /\ q.pc = r.pc /\ q.home = r.home /\ q.gateway = r.gateway
               /\ q.read = r.read /\ q.blind = r.blind /\ q.held = r.held
               /\ r.unseen \subseteq q.unseen
               /\ r.pc = "walk" =>
                    \A f \in holds[r.home] \ q.unseen :
                      Dangerous(f) => \/ {"top", f[2]} \cap r.unread = {}
                                      \/ {"top", f[2]} \cap q.unread # {}
  <2> HIDE DEF Left, Unseen
  <2> DEFINE q == [r EXCEPT !.unread = Left(level, hidden),
                            !.unseen = Unseen(hidden)]
  <2>1. /\ q \in LaunchRecords /\ q.pc = r.pc /\ q.home = r.home
        /\ q.gateway = r.gateway /\ q.read = r.read /\ q.blind = r.blind
        /\ q.held = r.held /\ q.unread = Left(level, hidden)
        /\ q.unseen = Unseen(hidden)
    BY <1>1, <1>4, <1>5 DEF LaunchRecords
  <2>2. launch' = [launch EXCEPT ![l] = q]
    BY <1>9
  <2> HIDE DEF q
  <2> q \in LaunchRecords
    BY <2>1
  <2> WITNESS q \in LaunchRecords
  <2> QED
    BY <1>5, <1>6, <1>9, <2>1, <2>2
<1> QED
  BY <1>3, <1>7, <1>8, <1>9

(* What reading a lock makes of the launch that reads it. *)
LEMMA ReadLockFacts ==
  ASSUME TypeOK, NEW l \in Launches, ReadGatewayLock(l)
  PROVE  /\ UNCHANGED <<holds, maker, lock, creator, gateway>>
         /\ launch[l].pc = "lock"
         /\ \E r \in LaunchRecords :
              /\ launch' = [launch EXCEPT ![l] = r]
              /\ \/ r = NotLaunching("over")
                 \/ /\ r.home = launch[l].home
                    /\ r.held = launch[l].held
                    /\ \/ /\ r.pc = "ready"
                          /\ r.read = launch[l].read
                          /\ \/ r.blind
                             \/ lock[launch[l].home] \notin HostGateways
                       \/ /\ r.pc = "probe"
                          /\ r.read = lock[launch[l].home]
<1> USE HomeAssumption
<1>1. launch[l] \in LaunchRecords
  BY DEF TypeOK
<1>2. UNCHANGED <<holds, maker, lock, creator, gateway>>
      /\ launch[l].pc = "lock"
  BY DEF ReadGatewayLock
<1>3. CASE /\ lock[launch[l].home] \in {None, "garbled"}
           /\ launch' = [launch EXCEPT ![l].pc = "ready"]
  <2> DEFINE r == [launch[l] EXCEPT !.pc = "ready"]
  <2>1. /\ r \in LaunchRecords /\ r.pc = "ready" /\ r.home = launch[l].home
        /\ r.held = launch[l].held /\ r.read = launch[l].read
    BY <1>1 DEF LaunchRecords, LaunchPcs
  <2>2. launch' = [launch EXCEPT ![l] = r]
    BY <1>3
  <2> HIDE DEF r
  <2> QED
    BY <1>2, <1>3, <2>1, <2>2
<1>4. CASE launch' = [launch EXCEPT ![l] = NotLaunching("over")]
  BY <1>2, <1>4, NotLaunchingType DEF LaunchPcs
<1>5. CASE /\ lock[launch[l].home] \in Gateways
           /\ launch' = [launch EXCEPT ![l].pc = "probe",
                           ![l].read = lock[launch[l].home]]
  <2> DEFINE r == [launch[l] EXCEPT !.pc = "probe",
                                    !.read = lock[launch[l].home]]
  <2>1. /\ r \in LaunchRecords /\ r.pc = "probe" /\ r.home = launch[l].home
        /\ r.held = launch[l].held /\ r.read = lock[launch[l].home]
    BY <1>1, <1>5 DEF LaunchRecords, LaunchPcs
  <2>2. launch' = [launch EXCEPT ![l] = r]
    BY <1>5 DEF TypeOK
  <2> HIDE DEF r
  <2> QED
    BY <1>2, <2>1, <2>2
<1>6. CASE launch' = [launch EXCEPT ![l].pc = "ready", ![l].blind = TRUE]
  <2> DEFINE r == [launch[l] EXCEPT !.pc = "ready", !.blind = TRUE]
  <2>1. /\ r \in LaunchRecords /\ r.pc = "ready" /\ r.home = launch[l].home
        /\ r.held = launch[l].held /\ r.read = launch[l].read /\ r.blind
    BY <1>1 DEF LaunchRecords, LaunchPcs
  <2>2. launch' = [launch EXCEPT ![l] = r]
    BY <1>6 DEF TypeOK
  <2> HIDE DEF r
  <2> QED
    BY <1>2, <2>1, <2>2
<1> QED
  BY <1>3, <1>4, <1>5, <1>6 DEF ReadGatewayLock

(* What a probe makes of the launch that probes. *)
LEMMA ProbeFacts ==
  ASSUME TypeOK, NEW l \in Launches, ProbePid(l)
  PROVE  /\ UNCHANGED <<holds, maker, lock, creator, gateway>>
         /\ launch[l].pc = "probe"
         /\ \E r \in LaunchRecords :
              /\ launch' = [launch EXCEPT ![l] = r]
              /\ \/ r = NotLaunching("over")
                 \/ /\ r.pc = "clear"
                    /\ r.home = launch[l].home
                    /\ r.held = launch[l].held
                    /\ r.read = launch[l].read
                    /\ \/ r.blind
                       \/ ~ /\ launch[l].read \in HostGateways
                            /\ gateway[launch[l].read] \in Homes
<1>1. launch[l] \in LaunchRecords
  BY DEF TypeOK
<1>2. UNCHANGED <<holds, maker, lock, creator, gateway>>
      /\ launch[l].pc = "probe"
  BY DEF ProbePid
<1>3. PICK failed \in BOOLEAN :
        \E alive \in IsPidAlive(launch[l].read, failed) :
          launch' = [launch EXCEPT ![l] =
            IF alive THEN NotLaunching("over")
            ELSE [launch[l] EXCEPT !.pc = "clear", !.blind = failed]]
  BY DEF ProbePid
<1>4. PICK alive \in IsPidAlive(launch[l].read, failed) :
        launch' = [launch EXCEPT ![l] =
          IF alive THEN NotLaunching("over")
          ELSE [launch[l] EXCEPT !.pc = "clear", !.blind = failed]]
  BY <1>3
<1>5. CASE alive
  BY <1>2, <1>4, <1>5, NotLaunchingType DEF LaunchPcs
<1>6. CASE ~alive
  <2> DEFINE r == [launch[l] EXCEPT !.pc = "clear", !.blind = failed]
  <2>1. /\ r \in LaunchRecords /\ r.pc = "clear" /\ r.home = launch[l].home
        /\ r.held = launch[l].held /\ r.read = launch[l].read
        /\ r.blind = failed
    BY <1>1 DEF LaunchRecords, LaunchPcs
  <2>2. launch' = [launch EXCEPT ![l] = r]
    BY <1>4, <1>6
  <2>3. \/ failed
        \/ ~ /\ launch[l].read \in HostGateways
             /\ gateway[launch[l].read] \in Homes
    BY <1>4, <1>6 DEF IsPidAlive
  <2> HIDE DEF r
  <2> QED
    BY <1>2, <2>1, <2>2, <2>3
<1> QED
  BY <1>5, <1>6

(* Every step keeps the types. *)
LEMMA TypeStep ==
  ASSUME TypeOK, HomesKnown, NoLockToCopy, [Next]_vars
  PROVE  TypeOK'
<1> USE HomeAssumption
<1>1. ASSUME NEW c \in Creators, CreateProfile(c)
      PROVE  TypeOK'
  <2>1. \A target \in Profiles, source \in Homes \cup {None} :
          [pc |-> "checked", target |-> target, source |-> source,
           todo |-> {}] \in CreatorRecords
    BY DEF CreatorRecords, CreatorPcs
  <2>2. creator' \in [Creators -> CreatorRecords]
    BY <1>1, <2>1, NotCreatingType
    DEF CreateProfile, TypeOK, CreatorPcs, Homes
  <2> QED
    BY <1>1, <2>2 DEF CreateProfile, TypeOK
<1>2. ASSUME NEW c \in Creators, MakeTarget(c)
      PROVE  TypeOK'
  <2>1. creator[c] \in CreatorRecords /\ creator[c].target \in Profiles
    BY <1>2 DEF TypeOK, HomesKnown, MakeTarget
  <2> DEFINE todo == IF creator[c].source = None THEN {}
                     ELSE ToCopy(creator[c].source, "top")
  <2>2. todo \subseteq Entries
    BY <2>1, ToCopyType DEF CreatorRecords
  <2> HIDE DEF todo
  <2>3. [creator[c] EXCEPT !.pc = "copying", !.todo = todo] \in CreatorRecords
    BY <2>1, <2>2 DEF CreatorRecords, CreatorPcs
  <2>4. creator' \in [Creators -> CreatorRecords]
    <3>1. \/ creator' = [creator EXCEPT ![c] = NotCreating("failed")]
          \/ creator' = [creator EXCEPT ![c] =
               [creator[c] EXCEPT !.pc = "copying", !.todo = todo]]
      BY <1>2 DEF MakeTarget, TypeOK, todo
    <3> QED
      BY <2>3, <3>1, NotCreatingType DEF TypeOK, CreatorPcs
  <2> QED
    BY <1>2, <2>4 DEF MakeTarget, TypeOK
<1>3. ASSUME NEW c \in Creators, CopyLevel(c) \/ Created(c) \/ CreatorDies(c)
      PROVE  TypeOK'
  <2>1. creator[c] \in CreatorRecords
    BY DEF TypeOK
  <2>2. CASE CopyLevel(c)
    <3> DEFINE todo == (creator[c].todo \ {SubDir})
                         \cup ToCopy(creator[c].source, "sub")
    <3>1. todo \subseteq Entries
      BY <2>1, <2>2, ToCopyType DEF CreatorRecords, CopyLevel, HomesKnown
    <3> HIDE DEF todo
    <3>2. [creator[c] EXCEPT !.todo = todo] \in CreatorRecords
      BY <2>1, <3>1 DEF CreatorRecords
    <3>3. creator' = [creator EXCEPT ![c] = [creator[c] EXCEPT !.todo = todo]]
      BY <2>2 DEF CopyLevel, TypeOK, todo
    <3> QED
      <4>1. UNCHANGED <<holds, maker, lock, launch, gateway>>
        BY <2>2 DEF CopyLevel
      <4> QED
        BY <3>2, <3>3, <4>1 DEF TypeOK
  <2>3. CASE Created(c)
    <3>1. [creator[c] EXCEPT !.pc = "created"] \in CreatorRecords
      BY <2>1 DEF CreatorRecords, CreatorPcs
    <3> QED
      BY <2>3, <3>1 DEF Created, TypeOK
  <2>4. CASE CreatorDies(c)
    BY <2>4, NotCreatingType DEF CreatorDies, TypeOK, CreatorPcs
  <2> QED
    BY <1>3, <2>2, <2>3, <2>4
<1>4. ASSUME NEW c \in Creators, CopyFile(c)
      PROVE  TypeOK'
  <2>1. PICK f \in creator[c].todo \ {SubDir} :
          /\ creator' = [creator EXCEPT ![c].todo = @ \ {f}]
          /\ f # LockFile =>
               WriteFile(creator[c].target, f) /\ UNCHANGED lock
    BY <1>4 DEF CopyFile
  <2>2. f \in Files
    BY <2>1 DEF TypeOK, CreatorRecords, Entries, NoLockToCopy
  <2>3. f # LockFile
    BY <2>1 DEF NoLockToCopy
  <2>4. [creator[c] EXCEPT !.todo = @ \ {f}] \in CreatorRecords
    BY DEF TypeOK, CreatorRecords
  <2> QED
    BY <1>4, <2>1, <2>2, <2>3, <2>4, WriteFileType DEF CopyFile, TypeOK
<1>5. ASSUME NEW l \in Launches, Preflight(l)
      PROVE  TypeOK'
  <2>1. \A h \in Homes, b \in BOOLEAN :
          [NotLaunching("preflight") EXCEPT !.home = h, !.gateway = b,
             !.unread = TopOf(h), !.held = {g \in HoldingAt(h) : b}]
            \in LaunchRecords
    <3>1. \A h \in Homes, b \in BOOLEAN :
            /\ TopOf(h) \in SUBSET Levels
            /\ {g \in HoldingAt(h) : b} \in SUBSET HostGateways
      BY DEF TopOf, HoldingAt, Levels
    <3>2. NotLaunching("preflight") \in LaunchRecords
      BY NotLaunchingType DEF LaunchPcs
    <3> QED
      BY <3>1, <3>2 DEF LaunchRecords
  <2>2. PICK r \in LaunchRecords : launch' = [launch EXCEPT ![l] = r]
    BY <1>5, <2>1, NotLaunchingType DEF Preflight, LaunchPcs
  <2> QED
    BY <1>5, <2>2 DEF Preflight, TypeOK
<1>6. ASSUME NEW l \in Launches, Walk(l)
      PROVE  TypeOK'
  BY <1>6, WalkFacts DEF TypeOK
<1>7. ASSUME NEW l \in Launches,
             Walked(l) \/ ReadGatewayLock(l) \/ ProbePid(l) \/ Mount(l)
      PROVE  TypeOK'
  <2>1. launch[l] \in LaunchRecords
    BY DEF TypeOK
  <2>2. \A pc \in LaunchPcs :
          /\ [launch[l] EXCEPT !.pc = pc] \in LaunchRecords
          /\ [launch[l] EXCEPT !.pc = pc, !.unseen = {}] \in LaunchRecords
    BY <2>1 DEF LaunchRecords
  <2>4. CASE Walked(l)
    <3>1. PICK pc \in LaunchPcs :
            launch' = [launch EXCEPT ![l] = [launch[l] EXCEPT !.pc = pc]]
      BY <2>4 DEF Walked, TypeOK, LaunchPcs
    <3> QED
      BY <2>2, <2>4, <3>1 DEF Walked, TypeOK
  <2>5. CASE ReadGatewayLock(l)
    BY <2>5, ReadLockFacts DEF TypeOK
  <2>6. CASE ProbePid(l)
    BY <2>6, ProbeFacts DEF TypeOK
  <2>7. CASE Mount(l)
    <3>1. launch' = [launch EXCEPT ![l] =
             [launch[l] EXCEPT !.pc = "up", !.unseen = {}]]
      BY <2>7 DEF Mount, TypeOK
    <3> QED
      BY <2>2, <2>7, <3>1 DEF Mount, TypeOK, LaunchPcs
  <2> QED
    BY <1>7, <2>4, <2>5, <2>6, <2>7
<1>8. ASSUME NEW l \in Launches, ClearStaleLock(l)
      PROVE  TypeOK'
  <2> DEFINE passed == [launch EXCEPT ![l].pc = "ready", ![l].read = None]
  <2>1. passed \in [Launches -> LaunchRecords]
    <3>1. launch[l] \in LaunchRecords
      BY DEF TypeOK
    <3>2. [launch[l] EXCEPT !.pc = "ready", !.read = None] \in LaunchRecords
      BY <3>1 DEF LaunchRecords, LaunchPcs
    <3> QED
      BY <3>2 DEF TypeOK
  <2>2. \/ SetLock(launch[l].home, None, passed)
        \/ launch' = passed /\ UNCHANGED lock
    BY <1>8 DEF ClearStaleLock
  <2> HIDE DEF passed
  <2> QED
    BY <1>8, <2>1, <2>2, SetLockType DEF ClearStaleLock, TypeOK
<1>9. ASSUME NEW l \in Launches, ContainerMounts(l)
      PROVE  TypeOK'
  <2> DEFINE begun == [launch[l] EXCEPT !.pc = "walk", !.unread = {"top"},
                         !.unseen = {}, !.blind = FALSE, !.held = {}]
  <2>1. begun \in LaunchRecords
    <3>1. launch[l] \in LaunchRecords
      BY DEF TypeOK
    <3> QED
      BY <3>1 DEF LaunchRecords, LaunchPcs, Levels
  <2>2. launch' = [launch EXCEPT ![l] = begun]
    BY <1>9 DEF ContainerMounts, TypeOK
  <2>3. maker' \in [Homes -> Creators \cup Launches \cup {"host", None}]
    BY <1>9 DEF ContainerMounts, TypeOK
  <2>4. UNCHANGED <<holds, lock, creator, gateway>>
    BY <1>9 DEF ContainerMounts
  <2> QED
    BY <2>1, <2>2, <2>3, <2>4 DEF TypeOK
<1>10. ASSUME NEW l \in Launches, LaunchEnds(l)
       PROVE  TypeOK'
  <2> DEFINE over == [launch EXCEPT ![l] = NotLaunching("over")]
  <2>1. over \in [Launches -> LaunchRecords]
    BY NotLaunchingType DEF TypeOK, LaunchPcs
  <2>2. \/ SetLock(launch[l].home, None, over)
        \/ launch' = over /\ UNCHANGED lock
    BY <1>10 DEF LaunchEnds
  <2> HIDE DEF over
  <2> QED
    BY <1>10, <2>1, <2>2, SetLockType DEF LaunchEnds, TypeOK
<1>11. ASSUME NEW l \in Launches, CellWrites(l) \/ CellGatewayStarts(l)
       PROVE  TypeOK'
  <2>1. CASE CellWrites(l)
    BY <2>1, WriteFileType DEF CellWrites, TypeOK
  <2>2. CASE CellGatewayStarts(l)
    BY <2>2, SetLockType DEF CellGatewayStarts, TypeOK, Gateways
  <2> QED
    BY <1>11, <2>1, <2>2
<1>12. CASE HostWrites
  BY <1>12, WriteFileType DEF HostWrites, TypeOK
<1>13. ASSUME NEW g \in HostGateways, HostGatewayStarts(g)
       PROVE  TypeOK'
  <2>1. PICK h \in Homes : gateway' = [gateway EXCEPT ![g] = h]
                           /\ SetLock(h, g, launch)
    BY <1>13 DEF HostGatewayStarts
  <2> QED
    BY <1>13, <2>1, SetLockType DEF HostGatewayStarts, TypeOK, Gateways
<1>14. ASSUME NEW g \in HostGateways, HostGatewayEnds(g)
       PROVE  TypeOK'
  <2> DEFINE ended ==
        [l \in Launches |-> [launch[l] EXCEPT !.held = @ \ {g}]]
  <2>1. ended \in [Launches -> LaunchRecords]
    <3>1. \A l \in Launches :
            [launch[l] EXCEPT !.held = @ \ {g}] \in LaunchRecords
      BY DEF TypeOK, LaunchRecords
    <3> QED
      BY <3>1
  <2>2. \/ SetLock(gateway[g], None, ended)
        \/ launch' = ended /\ UNCHANGED lock
    BY <1>14 DEF HostGatewayEnds
  <2> HIDE DEF ended
  <2> QED
    BY <1>14, <2>1, <2>2, SetLockType DEF HostGatewayEnds, TypeOK
<1>15. CASE UNCHANGED vars
  BY <1>15 DEF vars, TypeOK
<1> QED
  BY <1>1, <1>2, <1>3, <1>4, <1>5, <1>6, <1>7, <1>8, <1>9, <1>10, <1>11,
     <1>12, <1>13, <1>14, <1>15 DEF Next
-----------------------------------------------------------------------------
(***************************************************************************)
(* The creates.                                                            *)
(***************************************************************************)

(* Only creates move creates, and only they and two more steps make homes. *)
LEMMA CreatesStep ==
  ASSUME TypeOK, HomesKnown, FillsItsOwnHome, NoLockToCopy, [Next]_vars
  PROVE  /\ FillsItsOwnHome'
         /\ NoLockToCopy'
         /\ \A c \in Creators :
              /\ creator'[c].pc \in {"checked", "copying", "created"} =>
                   creator'[c].target \in Profiles
              /\ creator'[c].todo # {} => creator'[c].source \in Homes
<1> USE HomeAssumption
<1>1. ASSUME NEW c \in Creators, CreateProfile(c) \/ CreatorDies(c)
      PROVE  /\ UNCHANGED maker
             /\ \A d \in Creators \ {c} : creator'[d] = creator[d]
             /\ creator'[c].pc \in {"checked", "failed"}
             /\ creator'[c].pc = "checked" => creator'[c].target \in Profiles
             /\ creator'[c].todo = {}
  BY <1>1 DEF CreateProfile, CreatorDies, NotCreating, TypeOK
<1>2. ASSUME NEW c \in Creators, MakeTarget(c)
      PROVE  /\ \A d \in Creators \ {c} : creator'[d] = creator[d]
             /\ \A h \in Homes : maker[h] # None => maker'[h] = maker[h]
             /\ LockFile \notin creator'[c].todo
             /\ creator'[c].todo # {} => creator'[c].source \in Homes
             /\ \/ creator'[c].pc = "failed"
                \/ /\ creator'[c].target \in Profiles
                   /\ maker'[creator'[c].target] = c
  <2>1. /\ creator[c].target \in Profiles
        /\ creator[c].source \in Homes \cup {None}
    BY <1>2 DEF MakeTarget, HomesKnown, TypeOK, CreatorRecords
  <2> DEFINE todo == IF creator[c].source = None THEN {}
                     ELSE ToCopy(creator[c].source, "top")
  <2>2. LockFile \notin todo
    BY <2>1, ToCopyType
  <2>3. todo # {} => creator[c].source \in Homes
    BY <2>1
  <2>4. \/ /\ creator' = [creator EXCEPT ![c] = NotCreating("failed")]
           /\ UNCHANGED maker
        \/ /\ maker[creator[c].target] = None
           /\ maker' = [maker EXCEPT ![creator[c].target] = c]
           /\ creator' = [creator EXCEPT ![c].pc = "copying", ![c].todo = todo]
    BY <1>2 DEF MakeTarget, Exists
  <2> HIDE DEF todo
  <2> QED
    BY <2>1, <2>2, <2>3, <2>4
    DEF NotCreating, TypeOK, CreatorRecords, Homes
<1>3. ASSUME NEW c \in Creators, CopyLevel(c) \/ CopyFile(c) \/ Created(c)
      PROVE  /\ UNCHANGED maker
             /\ \A d \in Creators \ {c} : creator'[d] = creator[d]
             /\ creator[c].pc = "copying"
             /\ creator'[c].target = creator[c].target
             /\ creator'[c].source = creator[c].source
             /\ creator'[c].todo # {} => creator[c].todo # {}
             /\ LockFile \notin creator'[c].todo
  <2>1. CASE CopyLevel(c)
    <3>1. LockFile \notin ToCopy(creator[c].source, "sub")
      BY <2>1, ToCopyType DEF CopyLevel, HomesKnown
    <3> DEFINE todo == (creator[c].todo \ {SubDir})
                         \cup ToCopy(creator[c].source, "sub")
    <3>2. LockFile \notin todo /\ creator[c].todo # {}
      BY <2>1, <3>1 DEF CopyLevel, NoLockToCopy
    <3>3. /\ creator' = [creator EXCEPT ![c].todo = todo]
          /\ UNCHANGED maker
          /\ creator[c].pc = "copying"
      BY <2>1 DEF CopyLevel
    <3> HIDE DEF todo
    <3> QED
      BY <3>2, <3>3 DEF TypeOK, CreatorRecords
  <2>2. CASE CopyFile(c)
    BY <2>2 DEF CopyFile, NoLockToCopy, TypeOK, CreatorRecords
  <2>3. CASE Created(c)
    BY <2>3 DEF Created, NoLockToCopy, TypeOK, CreatorRecords
  <2> QED
    BY <1>3, <2>1, <2>2, <2>3
<1>4. ASSUME UNCHANGED creator,
             \A h \in Homes : maker[h] # None => maker'[h] = maker[h]
      PROVE  /\ FillsItsOwnHome'
             /\ NoLockToCopy'
             /\ \A c \in Creators :
                  /\ creator'[c].pc \in {"checked", "copying", "created"} =>
                       creator'[c].target \in Profiles
                  /\ creator'[c].todo # {} => creator'[c].source \in Homes
  BY <1>4 DEF FillsItsOwnHome, NoLockToCopy, HomesKnown, Homes
<1>5. ASSUME NEW l \in Launches,
             \/ Preflight(l) \/ Walk(l) \/ Walked(l) \/ ReadGatewayLock(l)
             \/ ProbePid(l) \/ ClearStaleLock(l) \/ ContainerMounts(l)
             \/ Mount(l) \/ LaunchEnds(l) \/ CellWrites(l)
             \/ CellGatewayStarts(l)
      PROVE  /\ UNCHANGED creator
             /\ \A h \in Homes : maker[h] # None => maker'[h] = maker[h]
  <2>1. CASE ContainerMounts(l)
    BY <2>1 DEF ContainerMounts, TypeOK, Exists
  <2>2. CASE \/ Preflight(l) \/ Walk(l) \/ Walked(l) \/ ReadGatewayLock(l)
             \/ ProbePid(l) \/ ClearStaleLock(l)
    BY <2>2 DEF Preflight, Walk, Walked, ReadGatewayLock, ProbePid,
        ClearStaleLock
  <2>3. CASE Mount(l) \/ LaunchEnds(l) \/ CellWrites(l) \/ CellGatewayStarts(l)
    BY <2>3 DEF Mount, LaunchEnds, CellWrites, CellGatewayStarts
  <2> QED
    BY <1>5, <2>1, <2>2, <2>3
<1>6. ASSUME \/ HostWrites
             \/ \E g \in HostGateways :
                  HostGatewayStarts(g) \/ HostGatewayEnds(g)
             \/ UNCHANGED vars
      PROVE  /\ UNCHANGED creator
             /\ \A h \in Homes : maker[h] # None => maker'[h] = maker[h]
  BY <1>6
  DEF HostWrites, HostGatewayStarts, HostGatewayEnds, vars, TypeOK, Exists
<1>7. ASSUME NEW c \in Creators,
             \/ CreateProfile(c) \/ MakeTarget(c) \/ CopyLevel(c)
             \/ CopyFile(c) \/ Created(c) \/ CreatorDies(c)
      PROVE  /\ FillsItsOwnHome'
             /\ NoLockToCopy'
             /\ \A d \in Creators :
                  /\ creator'[d].pc \in {"checked", "copying", "created"} =>
                       creator'[d].target \in Profiles
                  /\ creator'[d].todo # {} => creator'[d].source \in Homes
  <2>1. CASE CreateProfile(c) \/ CreatorDies(c)
    BY <1>1, <2>1 DEF FillsItsOwnHome, NoLockToCopy, HomesKnown
  <2>2. CASE MakeTarget(c)
    BY <1>2, <2>2 DEF FillsItsOwnHome, NoLockToCopy, HomesKnown, Homes
  <2>3. CASE CopyLevel(c) \/ CopyFile(c) \/ Created(c)
    BY <1>3, <2>3 DEF FillsItsOwnHome, NoLockToCopy, HomesKnown
  <2> QED
    BY <1>7, <2>1, <2>2, <2>3
<1> QED
  BY <1>4, <1>5, <1>6, <1>7 DEF Next
-----------------------------------------------------------------------------
(***************************************************************************)
(* The launches.                                                           *)
(***************************************************************************)

(* How a launch begins. *)
LEMMA PreflightFacts ==
  ASSUME TypeOK, NEW l \in Launches, Preflight(l)
  PROVE  /\ UNCHANGED <<holds, maker, lock, creator, gateway>>
         /\ launch[l].pc = "idle"
         /\ \A k \in Launches \ {l} : launch'[k] = launch[k]
         /\ launch'[l].read = None
         /\ \/ /\ launch'[l].pc \in {"up", "over"}
               /\ launch'[l].held = {}
            \/ /\ launch'[l].pc = "preflight"
               /\ launch'[l].home \in Homes
               /\ \A g \in launch'[l].held :
                    g \in HostGateways /\ gateway[g] = launch'[l].home
                                       /\ lock[launch'[l].home] = g
<1>1. PICK r : /\ launch' = [launch EXCEPT ![l] = r]
               /\ r.read = None
               /\ \/ r.pc \in {"up", "over"} /\ r.held = {}
                  \/ /\ r.pc = "preflight"
                     /\ r.home \in Homes
                     /\ r.held \subseteq HoldingAt(r.home)
  <2>1. \A pc : NotLaunching(pc).read = None /\ NotLaunching(pc).pc = pc
                                             /\ NotLaunching(pc).held = {}
    BY DEF NotLaunching
  <2>2. CASE \E allowEphemeral \in BOOLEAN :
               launch' = [launch EXCEPT ![l] =
                  NotLaunching(IF allowEphemeral THEN "up" ELSE "over")]
    <3>1. PICK pc \in {"up", "over"} :
            launch' = [launch EXCEPT ![l] = NotLaunching(pc)]
      BY <2>2
    <3> DEFINE r == NotLaunching(pc)
    <3>2. r.read = None /\ r.pc \in {"up", "over"} /\ r.held = {}
      BY <2>1
    <3> HIDE DEF r
    <3>3. launch' = [launch EXCEPT ![l] = r]
      BY <3>1 DEF r
    <3> QED
      BY <3>2, <3>3
  <2>3. ASSUME NEW h \in Homes, NEW gatewayMode \in BOOLEAN,
               launch' = [launch EXCEPT ![l] =
                 [NotLaunching("preflight") EXCEPT !.home = h,
                    !.gateway = gatewayMode, !.unread = TopOf(h),
                    !.held = {g \in HoldingAt(h) : gatewayMode}]]
        PROVE  \E r : /\ launch' = [launch EXCEPT ![l] = r]
                      /\ r.read = None
                      /\ r.pc = "preflight"
                      /\ r.home \in Homes
                      /\ r.held \subseteq HoldingAt(r.home)
    <3> DEFINE r == [NotLaunching("preflight") EXCEPT !.home = h,
                       !.gateway = gatewayMode, !.unread = TopOf(h),
                       !.held = {g \in HoldingAt(h) : gatewayMode}]
    <3>1. /\ r.read = None /\ r.pc = "preflight" /\ r.home = h
          /\ r.held = {g \in HoldingAt(h) : gatewayMode}
      BY DEF NotLaunching
    <3> HIDE DEF r
    <3>2. launch' = [launch EXCEPT ![l] = r]
      BY <2>3 DEF r
    <3> QED
      BY <3>1, <3>2
  <2> QED
    BY <2>2, <2>3 DEF Preflight
<1> QED
  BY <1>1 DEF Preflight, HoldingAt, TypeOK

(* What the end of a host gateway leaves of locks and launches. *)
LEMMA GatewayEndFacts ==
  ASSUME TypeOK, NEW g \in HostGateways, HostGatewayEnds(g)
  PROVE  /\ UNCHANGED <<holds, maker, creator>>
         /\ gateway[g] \in Homes
         /\ gateway' = [gateway EXCEPT ![g] = None]
         /\ \A l \in Launches :
              /\ launch'[l].pc = launch[l].pc
              /\ launch'[l].home = launch[l].home
              /\ launch'[l].gateway = launch[l].gateway
              /\ launch'[l].unread = launch[l].unread
              /\ launch'[l].read = launch[l].read
              /\ launch'[l].blind = launch[l].blind
              /\ launch'[l].unseen = launch[l].unseen
              /\ launch'[l].held \subseteq launch[l].held \ {g}
         /\ \/ UNCHANGED lock
            \/ /\ lock' = [lock EXCEPT ![gateway[g]] = None]
               /\ \A l \in Launches :
                    launch[l].home = gateway[g] => launch'[l].held = {}
<1> DEFINE ended ==
      [l \in Launches |-> [launch[l] EXCEPT !.held = @ \ {g}]]
<1>1. /\ UNCHANGED <<holds, maker, creator>>
      /\ gateway[g] \in Homes
      /\ gateway' = [gateway EXCEPT ![g] = None]
      /\ \/ launch' = ended /\ UNCHANGED lock
         \/ SetLock(gateway[g], None, ended)
  BY DEF HostGatewayEnds
<1>2. \A l \in Launches :
        /\ ended[l].pc = launch[l].pc
        /\ ended[l].home = launch[l].home
        /\ ended[l].gateway = launch[l].gateway
        /\ ended[l].unread = launch[l].unread
        /\ ended[l].read = launch[l].read
        /\ ended[l].blind = launch[l].blind
        /\ ended[l].unseen = launch[l].unseen
        /\ ended[l].held = launch[l].held \ {g}
        /\ [ended[l] EXCEPT !.held = {}] =
             [launch[l] EXCEPT !.held = {}]
  BY DEF TypeOK, LaunchRecords
<1> HIDE DEF ended
<1>3. CASE launch' = ended /\ UNCHANGED lock
  BY <1>1, <1>2, <1>3
<1>4. CASE SetLock(gateway[g], None, ended)
  <2>1. \A l \in Launches :
          launch'[l] = IF launch[l].home = gateway[g]
                       THEN [launch[l] EXCEPT !.held = {}] ELSE ended[l]
    BY <1>2, <1>4 DEF SetLock
  <2>2. \A l \in Launches :
          /\ launch[l] \in LaunchRecords
          /\ [launch[l] EXCEPT !.held = {}].pc = launch[l].pc
          /\ [launch[l] EXCEPT !.held = {}].home = launch[l].home
          /\ [launch[l] EXCEPT !.held = {}].gateway = launch[l].gateway
          /\ [launch[l] EXCEPT !.held = {}].unread = launch[l].unread
          /\ [launch[l] EXCEPT !.held = {}].read = launch[l].read
          /\ [launch[l] EXCEPT !.held = {}].blind = launch[l].blind
          /\ [launch[l] EXCEPT !.held = {}].unseen = launch[l].unseen
          /\ [launch[l] EXCEPT !.held = {}].held = {}
    BY DEF TypeOK, LaunchRecords
  <2>3. lock' = [lock EXCEPT ![gateway[g]] = None]
    BY <1>4 DEF SetLock
  <2>4. ASSUME NEW l \in Launches
        PROVE  /\ launch'[l].pc = launch[l].pc
               /\ launch'[l].home = launch[l].home
               /\ launch'[l].gateway = launch[l].gateway
               /\ launch'[l].unread = launch[l].unread
               /\ launch'[l].read = launch[l].read
               /\ launch'[l].blind = launch[l].blind
               /\ launch'[l].unseen = launch[l].unseen
               /\ launch'[l].held \subseteq launch[l].held \ {g}
               /\ launch[l].home = gateway[g] => launch'[l].held = {}
    <3>1. CASE launch[l].home = gateway[g]
      BY <2>1, <2>2, <3>1
    <3>2. CASE launch[l].home # gateway[g]
      <4>1. launch'[l] = ended[l]
        BY <2>1, <3>2
      <4> QED
        BY <1>2, <3>2, <4>1
    <3> QED
      BY <3>1, <3>2
  <2> QED
    BY <1>1, <2>3, <2>4
<1> QED
  BY <1>1, <1>3, <1>4

(* What clearing a stale lock leaves of it and of the launches. *)
LEMMA ClearFacts ==
  ASSUME TypeOK, NEW l \in Launches, ClearStaleLock(l)
  PROVE  /\ UNCHANGED <<holds, maker, creator, gateway>>
         /\ launch[l].pc = "clear"
         /\ launch'[l].pc = "ready"
         /\ launch'[l].read = None
         /\ lock' \in {lock, [lock EXCEPT ![launch[l].home] = None]}
         /\ \A k \in Launches \ {l} :
              launch'[k].pc = launch[k].pc /\ launch'[k].read = launch[k].read
         /\ \A k \in Launches :
              /\ launch'[k].home = launch[k].home
              /\ launch'[k].gateway = launch[k].gateway
              /\ launch'[k].unread = launch[k].unread
              /\ launch'[k].blind = launch[k].blind
              /\ launch'[k].unseen = launch[k].unseen
              /\ launch'[k].held \subseteq launch[k].held
<1> DEFINE passed == [launch EXCEPT ![l].pc = "ready", ![l].read = None]
<1>1. /\ UNCHANGED <<holds, maker, creator, gateway>>
      /\ launch[l].pc = "clear"
      /\ lock' \in {lock, [lock EXCEPT ![launch[l].home] = None]}
      /\ \/ launch' = passed
         \/ launch' = [k \in Launches |->
                         IF passed[k].home = launch[l].home
                         THEN [passed[k] EXCEPT !.held = {}] ELSE passed[k]]
  BY DEF ClearStaleLock, SetLock
<1>2. /\ passed[l] = [launch[l] EXCEPT !.pc = "ready", !.read = None]
      /\ \A k \in Launches \ {l} : passed[k] = launch[k]
  BY DEF TypeOK
<1>3. \A k \in Launches :
        /\ passed[k].home = launch[k].home
        /\ passed[k].gateway = launch[k].gateway
        /\ passed[k].unread = launch[k].unread
        /\ passed[k].blind = launch[k].blind
        /\ passed[k].unseen = launch[k].unseen
        /\ passed[k].held = launch[k].held
        /\ k # l => passed[k].pc = launch[k].pc /\ passed[k].read =
            launch[k].read
        /\ k = l => passed[k].pc = "ready" /\ passed[k].read = None
        /\ [passed[k] EXCEPT !.held = {}].home = passed[k].home
        /\ [passed[k] EXCEPT !.held = {}].pc = passed[k].pc
        /\ [passed[k] EXCEPT !.held = {}].gateway = passed[k].gateway
        /\ [passed[k] EXCEPT !.held = {}].unread = passed[k].unread
        /\ [passed[k] EXCEPT !.held = {}].read = passed[k].read
        /\ [passed[k] EXCEPT !.held = {}].blind = passed[k].blind
        /\ [passed[k] EXCEPT !.held = {}].unseen = passed[k].unseen
        /\ [passed[k] EXCEPT !.held = {}].held = {}
  BY <1>2 DEF TypeOK, LaunchRecords
<1> HIDE DEF passed
<1>4. CASE launch' = passed
  BY <1>1, <1>3, <1>4
<1>5. CASE launch' = [k \in Launches |->
                        IF passed[k].home = launch[l].home
                        THEN [passed[k] EXCEPT !.held = {}] ELSE passed[k]]
  BY <1>1, <1>3, <1>5
<1> QED
  BY <1>1, <1>4, <1>5

(* What the end of a launch or cell leaves of it and of the others. *)
LEMMA LaunchEndFacts ==
  ASSUME TypeOK, NEW l \in Launches, LaunchEnds(l)
  PROVE  /\ UNCHANGED <<holds, maker, creator, gateway>>
         /\ launch'[l].pc = "over"
         /\ launch'[l].held = {}
         /\ \A k \in Launches \ {l} :
              /\ launch'[k].home = launch[k].home
              /\ launch'[k].pc = launch[k].pc
              /\ launch'[k].unread = launch[k].unread
              /\ launch'[k].read = launch[k].read
              /\ launch'[k].blind = launch[k].blind
              /\ launch'[k].unseen = launch[k].unseen
              /\ launch'[k].held \subseteq launch[k].held
         /\ \/ UNCHANGED lock
            \/ /\ lock' = [lock EXCEPT ![launch[l].home] = None]
               /\ \A k \in Launches \ {l} :
                    launch[k].home = launch[l].home => launch'[k].held = {}
<1> DEFINE over == [launch EXCEPT ![l] = NotLaunching("over")]
<1>1. /\ UNCHANGED <<holds, maker, creator, gateway>>
      /\ \/ launch' = over /\ UNCHANGED lock
         \/ /\ lock' = [lock EXCEPT ![launch[l].home] = None]
            /\ launch' = [k \in Launches |->
                            IF over[k].home = launch[l].home
                            THEN [over[k] EXCEPT !.held = {}] ELSE over[k]]
  BY DEF LaunchEnds, SetLock
<1>2. /\ \A k \in Launches \ {l} : over[k] = launch[k]
      /\ over[l].pc = "over" /\ over[l].held = {}
      /\ [over[l] EXCEPT !.held = {}].pc = "over"
      /\ [over[l] EXCEPT !.held = {}].held = {}
      /\ \A k \in Launches \ {l} :
           /\ [over[k] EXCEPT !.held = {}].pc = launch[k].pc
           /\ [over[k] EXCEPT !.held = {}].home = launch[k].home
           /\ [over[k] EXCEPT !.held = {}].unread = launch[k].unread
           /\ [over[k] EXCEPT !.held = {}].read = launch[k].read
           /\ [over[k] EXCEPT !.held = {}].blind = launch[k].blind
           /\ [over[k] EXCEPT !.held = {}].unseen = launch[k].unseen
           /\ [over[k] EXCEPT !.held = {}].held = {}
  BY DEF TypeOK, LaunchRecords, NotLaunching
<1> HIDE DEF over
<1>3. CASE launch' = over /\ UNCHANGED lock
  BY <1>1, <1>2, <1>3
<1>4. CASE /\ lock' = [lock EXCEPT ![launch[l].home] = None]
           /\ launch' = [k \in Launches |->
                           IF over[k].home = launch[l].home
                           THEN [over[k] EXCEPT !.held = {}] ELSE over[k]]
  <2>1. launch'[l].pc = "over" /\ launch'[l].held = {}
    BY <1>2, <1>4
  <2>2. ASSUME NEW k \in Launches \ {l}
        PROVE  /\ launch'[k].home = launch[k].home
               /\ launch'[k].pc = launch[k].pc
               /\ launch'[k].unread = launch[k].unread
               /\ launch'[k].read = launch[k].read
               /\ launch'[k].blind = launch[k].blind
               /\ launch'[k].unseen = launch[k].unseen
               /\ launch'[k].held \subseteq launch[k].held
               /\ launch[k].home = launch[l].home => launch'[k].held = {}
    <3>1. CASE over[k].home = launch[l].home
      BY <1>2, <1>4, <3>1
    <3>2. CASE over[k].home # launch[l].home
      BY <1>2, <1>4, <3>2
    <3> QED
      BY <3>1, <3>2
  <2> QED
    BY <1>1, <1>4, <2>1, <2>2
<1> QED
  BY <1>1, <1>3, <1>4

(* What a finished walk changes. *)
LEMMA WalkedFacts ==
  ASSUME TypeOK, NEW l \in Launches, Walked(l)
  PROVE  /\ UNCHANGED <<holds, maker, lock, creator, gateway>>
         /\ launch[l].unread = {}
         /\ launch'[l].pc \in {"lock", "ready", "mount"}
         /\ launch'[l].pc = "mount" => launch[l].pc = "walk"
         /\ launch[l].pc \in {"preflight", "walk"}
         /\ \A k \in Launches \ {l} : launch'[k].pc = launch[k].pc
         /\ \A k \in Launches :
              /\ launch'[k].home = launch[k].home
              /\ launch'[k].gateway = launch[k].gateway
              /\ launch'[k].unread = launch[k].unread
              /\ launch'[k].read = launch[k].read
              /\ launch'[k].blind = launch[k].blind
              /\ launch'[k].unseen = launch[k].unseen
              /\ launch'[k].held = launch[k].held
<1>1. CASE launch[l].pc = "preflight"
  <2>1. PICK next \in {"lock", "ready"} :
          launch' = [launch EXCEPT ![l].pc = next]
    BY <1>1 DEF Walked
  <2> QED
    BY <1>1, <2>1 DEF Walked, TypeOK, LaunchRecords
<1>2. CASE launch[l].pc = "walk"
  <2>1. launch' = [launch EXCEPT ![l].pc = "mount"]
    BY <1>2 DEF Walked
  <2> QED
    BY <1>2, <2>1 DEF Walked, TypeOK, LaunchRecords
<1> QED
  BY <1>1, <1>2 DEF Walked

(* What copying a file changes. *)
Copied(c, f) ==
    /\ UNCHANGED <<maker, lock, gateway>>
    /\ holds' = [holds EXCEPT ![creator[c].target] = @ \cup {f}]
    /\ \A k \in Launches :
         /\ launch'[k].pc = launch[k].pc
         /\ launch'[k].home = launch[k].home
         /\ launch'[k].gateway = launch[k].gateway
         /\ launch'[k].unread = launch[k].unread
         /\ launch'[k].read = launch[k].read
         /\ launch'[k].blind = launch[k].blind
         /\ launch'[k].held = launch[k].held
         /\ launch'[k].unseen =
              IF Mounting(k, creator[c].target)
              THEN launch[k].unseen \cup {f} ELSE launch[k].unseen

LEMMA CopyFileFacts ==
  ASSUME TypeOK, NoLockToCopy, NEW c \in Creators, CopyFile(c)
  PROVE  \E f \in Files : Copied(c, f)
<1>1. UNCHANGED <<maker, gateway>>
  BY DEF CopyFile
<1>2. PICK f \in creator[c].todo \ {SubDir} :
        IF f = LockFile
        THEN /\ SetLock(creator[c].target, lock[creator[c].source], launch)
             /\ UNCHANGED holds
        ELSE /\ WriteFile(creator[c].target, f)
             /\ UNCHANGED lock
  BY DEF CopyFile
<1>3. f \in Files /\ f # LockFile
  BY <1>2 DEF TypeOK, NoLockToCopy, CreatorRecords, Entries
<1>4. /\ UNCHANGED lock
      /\ holds' = [holds EXCEPT ![creator[c].target] = @ \cup {f}]
      /\ launch' = Noticed(creator[c].target, f)
  BY <1>2, <1>3 DEF WriteFile
<1>5. ASSUME NEW k \in Launches
      PROVE  /\ launch'[k].pc = launch[k].pc
             /\ launch'[k].home = launch[k].home
             /\ launch'[k].gateway = launch[k].gateway
             /\ launch'[k].unread = launch[k].unread
             /\ launch'[k].read = launch[k].read
             /\ launch'[k].blind = launch[k].blind
             /\ launch'[k].held = launch[k].held
             /\ launch'[k].unseen =
                  IF Mounting(k, creator[c].target)
                  THEN launch[k].unseen \cup {f} ELSE launch[k].unseen
  BY <1>4 DEF Noticed, TypeOK, LaunchRecords
<1>6. Copied(c, f)
  BY <1>1, <1>4, <1>5 DEF Copied
<1> QED
  BY <1>3, <1>6

(* A lock's holder runs on the lock's home, or is over. *)
LEMMA HoldersRunStep ==
  ASSUME TypeOK, HomesKnown, NoLockToCopy, HoldersRun, [Next]_vars
  PROVE  HoldersRun'
<1> USE HomeAssumption DEF TypeOK, LaunchRecords, HoldersRun, HomesKnown,
    NoLockToCopy, Gateways
<1>1. ASSUME NEW l \in Launches, Preflight(l)
      PROVE  HoldersRun'
  BY <1>1, PreflightFacts
<1>2. ASSUME NEW l \in Launches, Walk(l)
      PROVE  HoldersRun'
  BY <1>2, WalkFacts DEF NotLaunching
<1>3. ASSUME NEW l \in Launches, Walked(l)
      PROVE  HoldersRun'
  BY <1>3, WalkedFacts
<1>4. ASSUME NEW l \in Launches, ReadGatewayLock(l)
      PROVE  HoldersRun'
  BY <1>4, ReadLockFacts DEF NotLaunching
<1>5. ASSUME NEW l \in Launches, ProbePid(l)
      PROVE  HoldersRun'
  BY <1>5, ProbeFacts DEF NotLaunching
<1>6. ASSUME NEW l \in Launches, ClearStaleLock(l)
      PROVE  HoldersRun'
  <2>1. /\ UNCHANGED gateway
        /\ launch[l].pc = "clear"
        /\ lock' \in {lock, [lock EXCEPT ![launch[l].home] = None]}
    BY <1>6, ClearFacts
  <2>2. \A k \in Launches : launch'[k].home = launch[k].home
    BY <1>6, ClearFacts
  <2>3. \A k \in Launches \ {l} : launch'[k].pc = launch[k].pc
    BY <1>6, ClearFacts
  <2>4. \A h \in Homes : lock'[h] \in {lock[h], None} /\ lock[h] # l
    BY <2>1
  <2> QED
    BY <2>1, <2>2, <2>3, <2>4
<1>7. ASSUME NEW l \in Launches, ContainerMounts(l)
      PROVE  HoldersRun'
  BY <1>7 DEF ContainerMounts
<1>8. ASSUME NEW l \in Launches, Mount(l)
      PROVE  HoldersRun'
  BY <1>8 DEF Mount
<1>9. ASSUME NEW l \in Launches, LaunchEnds(l)
      PROVE  HoldersRun'
  BY <1>9 DEF LaunchEnds, NotLaunching, SetLock
<1>10. ASSUME NEW l \in Launches, CellWrites(l)
      PROVE  HoldersRun'
  BY <1>10 DEF CellWrites, WriteFile, Noticed
<1>11. ASSUME NEW l \in Launches, CellGatewayStarts(l)
      PROVE  HoldersRun'
  BY <1>11 DEF CellGatewayStarts, SetLock
<1>12. ASSUME NEW c \in Creators, CopyFile(c)
      PROVE  HoldersRun'
  BY <1>12 DEF CopyFile, WriteFile, Noticed, SetLock
<1>13. ASSUME NEW c \in Creators, CreateProfile(c) \/ MakeTarget(c) \/
              CopyLevel(c) \/ Created(c) \/ CreatorDies(c)
      PROVE  HoldersRun'
  BY <1>13 DEF CreateProfile, NotCreating, MakeTarget, ToCopy, Listing,
      CopyLevel, Created, CreatorDies
<1>14. CASE HostWrites
  BY <1>14 DEF HostWrites, WriteFile, Noticed
<1>15. ASSUME NEW g \in HostGateways, HostGatewayStarts(g)
      PROVE  HoldersRun'
  BY <1>15 DEF HostGatewayStarts, SetLock
<1>16. ASSUME NEW g \in HostGateways, HostGatewayEnds(g)
      PROVE  HoldersRun'
  BY <1>16, GatewayEndFacts
<1>17. CASE UNCHANGED vars
  BY <1>17 DEF vars
<1> QED
  BY <1>1, <1>2, <1>3, <1>4, <1>5, <1>6, <1>7, <1>8, <1>9, <1>10, <1>11, <1>12,
      <1>13, <1>14, <1>15, <1>16, <1>17 DEF Next

(* What is held is the lock there is, and what the probe reads. *)
LEMMA HeldNowStep ==
  ASSUME TypeOK, HomesKnown, NoLockToCopy, HeldNow, [Next]_vars
  PROVE  HeldNow'
<1> USE HomeAssumption DEF TypeOK, LaunchRecords, HeldNow, HomesKnown,
    NoLockToCopy
<1>1. ASSUME NEW l \in Launches, Preflight(l)
      PROVE  HeldNow'
  BY <1>1, PreflightFacts
<1>2. ASSUME NEW l \in Launches, Walk(l)
      PROVE  HeldNow'
  BY <1>2, WalkFacts DEF NotLaunching
<1>3. ASSUME NEW l \in Launches, Walked(l)
      PROVE  HeldNow'
  <2>1. PICK pc \in {"lock", "ready", "mount"} :
          launch' = [launch EXCEPT ![l] = [launch[l] EXCEPT !.pc = pc]]
    BY <1>3 DEF Walked
  <2> QED
    BY <1>3, <2>1 DEF Walked
<1>4. ASSUME NEW l \in Launches, ReadGatewayLock(l)
      PROVE  HeldNow'
  BY <1>4, ReadLockFacts DEF NotLaunching
<1>5. ASSUME NEW l \in Launches, ProbePid(l)
      PROVE  HeldNow'
  BY <1>5, ProbeFacts DEF NotLaunching
<1>6. ASSUME NEW l \in Launches, ClearStaleLock(l)
      PROVE  HeldNow'
  BY <1>6 DEF ClearStaleLock, SetLock
<1>7. ASSUME NEW l \in Launches, ContainerMounts(l)
      PROVE  HeldNow'
  BY <1>7 DEF ContainerMounts
<1>8. ASSUME NEW l \in Launches, Mount(l)
      PROVE  HeldNow'
  BY <1>8 DEF Mount
<1>9. ASSUME NEW l \in Launches, LaunchEnds(l)
      PROVE  HeldNow'
  BY <1>9, LaunchEndFacts
<1>10. ASSUME NEW l \in Launches, CellWrites(l)
      PROVE  HeldNow'
  BY <1>10 DEF CellWrites, WriteFile, Noticed
<1>11. ASSUME NEW l \in Launches, CellGatewayStarts(l)
      PROVE  HeldNow'
  BY <1>11 DEF CellGatewayStarts, SetLock
<1>12. ASSUME NEW c \in Creators, CopyFile(c)
      PROVE  HeldNow'
  <2>1. PICK f \in Files : Copied(c, f)
    BY <1>12, CopyFileFacts
  <2>2. /\ UNCHANGED <<lock, gateway>>
        /\ \A k \in Launches : /\ launch'[k].pc = launch[k].pc
                               /\ launch'[k].home = launch[k].home
                               /\ launch'[k].read = launch[k].read
                               /\ launch'[k].blind = launch[k].blind
                               /\ launch'[k].held = launch[k].held
    BY <2>1 DEF Copied
  <2> QED
    BY <2>2
<1>13. ASSUME NEW c \in Creators, CreateProfile(c) \/ MakeTarget(c) \/
              CopyLevel(c) \/ Created(c) \/ CreatorDies(c)
      PROVE  HeldNow'
  BY <1>13 DEF CreateProfile, NotCreating, MakeTarget, ToCopy, Listing,
      CopyLevel, Created, CreatorDies
<1>14. CASE HostWrites
  BY <1>14 DEF HostWrites, WriteFile, Noticed
<1>15. ASSUME NEW g \in HostGateways, HostGatewayStarts(g)
      PROVE  HeldNow'
  BY <1>15 DEF HostGatewayStarts, SetLock
<1>16. ASSUME NEW g \in HostGateways, HostGatewayEnds(g)
      PROVE  HeldNow'
  BY <1>16, GatewayEndFacts
<1>17. CASE UNCHANGED vars
  BY <1>17 DEF vars
<1> QED
  BY <1>1, <1>2, <1>3, <1>4, <1>5, <1>6, <1>7, <1>8, <1>9, <1>10, <1>11, <1>12,
      <1>13, <1>14, <1>15, <1>16, <1>17 DEF Next

(* Past the probe, nothing is held. *)
LEMMA YieldsToHostGatewayStep ==
  ASSUME TypeOK, HomesKnown, NoLockToCopy, HeldNow, YieldsToHostGateway,
      [Next]_vars
  PROVE  YieldsToHostGateway'
<1> USE HomeAssumption DEF TypeOK, LaunchRecords, YieldsToHostGateway, HeldNow,
    HomesKnown
<1>1. ASSUME NEW l \in Launches, Preflight(l)
      PROVE  YieldsToHostGateway'
  BY <1>1, PreflightFacts
<1>2. ASSUME NEW l \in Launches, Walk(l)
      PROVE  YieldsToHostGateway'
  BY <1>2, WalkFacts DEF NotLaunching
<1>3. ASSUME NEW l \in Launches, Walked(l)
      PROVE  YieldsToHostGateway'
  <2>1. \A k \in Launches : /\ launch'[k].gateway = launch[k].gateway
                           /\ launch'[k].blind = launch[k].blind
                           /\ launch'[k].held = launch[k].held
    BY <1>3, WalkedFacts
  <2>2. launch[l].pc = "preflight" /\ launch[l].gateway => launch'[l].pc = "lock"
    BY <1>3 DEF Walked
  <2>3. launch[l].pc = "walk" => launch'[l].pc = "mount"
    BY <1>3 DEF Walked
  <2>4. \A k \in Launches \ {l} : launch'[k].pc = launch[k].pc
    BY <1>3, WalkedFacts
  <2>5. launch[l].pc \in {"preflight", "walk"}
    BY <1>3 DEF Walked
  <2> QED
    BY <2>1, <2>2, <2>3, <2>4, <2>5
<1>4. ASSUME NEW l \in Launches, ReadGatewayLock(l)
      PROVE  YieldsToHostGateway'
  BY <1>4, ReadLockFacts DEF NotLaunching
<1>5. ASSUME NEW l \in Launches, ProbePid(l)
      PROVE  YieldsToHostGateway'
  <2>1. PICK r \in LaunchRecords :
          /\ launch' = [launch EXCEPT ![l] = r]
          /\ \/ r = NotLaunching("over")
             \/ /\ r.held = launch[l].held
                /\ \/ r.blind
                   \/ ~ /\ launch[l].read \in HostGateways
                        /\ gateway[launch[l].read] \in Homes
    BY <1>5, ProbeFacts
  <2>2. launch[l].pc = "probe" /\ launch[l].home \in Homes
    BY <1>5, ProbeFacts
  <2>3. r.pc \in {"clear", "ready"} /\ ~r.blind => r.held = {}
    BY <2>1, <2>2 DEF NotLaunching
  <2> QED
    BY <2>1, <2>3
<1>6. ASSUME NEW l \in Launches, ClearStaleLock(l)
      PROVE  YieldsToHostGateway'
  <2>1. \A k \in Launches :
          /\ launch'[k].gateway = launch[k].gateway
          /\ launch'[k].blind = launch[k].blind
          /\ launch'[k].held \subseteq launch[k].held
    BY <1>6, ClearFacts
  <2>2. \A k \in Launches :
          launch'[k].pc \in {"clear", "ready"} =>
            launch[k].pc \in {"clear", "ready"}
    BY <1>6, ClearFacts
  <2> QED
    BY <2>1, <2>2
<1>7. ASSUME NEW l \in Launches, ContainerMounts(l)
      PROVE  YieldsToHostGateway'
  BY <1>7 DEF ContainerMounts
<1>8. ASSUME NEW l \in Launches, Mount(l)
      PROVE  YieldsToHostGateway'
  BY <1>8 DEF Mount
<1>9. ASSUME NEW l \in Launches, LaunchEnds(l)
      PROVE  YieldsToHostGateway'
  BY <1>9 DEF LaunchEnds, NotLaunching, SetLock
<1>10. ASSUME NEW l \in Launches, CellWrites(l)
      PROVE  YieldsToHostGateway'
  BY <1>10 DEF CellWrites, WriteFile, Noticed
<1>11. ASSUME NEW l \in Launches, CellGatewayStarts(l)
      PROVE  YieldsToHostGateway'
  BY <1>11 DEF CellGatewayStarts, SetLock
<1>12. ASSUME NEW c \in Creators, CopyFile(c)
      PROVE  YieldsToHostGateway'
  <2>1. PICK f \in Files : Copied(c, f)
    BY <1>12, CopyFileFacts
  <2>2. \A k \in Launches : /\ launch'[k].pc = launch[k].pc
                           /\ launch'[k].gateway = launch[k].gateway
                           /\ launch'[k].blind = launch[k].blind
                           /\ launch'[k].held = launch[k].held
    BY <2>1 DEF Copied
  <2> QED
    BY <2>2
<1>13. ASSUME NEW c \in Creators, CreateProfile(c) \/ MakeTarget(c) \/
              CopyLevel(c) \/ Created(c) \/ CreatorDies(c)
      PROVE  YieldsToHostGateway'
  BY <1>13 DEF CreateProfile, NotCreating, MakeTarget, ToCopy, Listing,
      CopyLevel, Created, CreatorDies
<1>14. CASE HostWrites
  BY <1>14 DEF HostWrites, WriteFile, Noticed
<1>15. ASSUME NEW g \in HostGateways, HostGatewayStarts(g)
      PROVE  YieldsToHostGateway'
  BY <1>15 DEF HostGatewayStarts, SetLock
<1>16. ASSUME NEW g \in HostGateways, HostGatewayEnds(g)
      PROVE  YieldsToHostGateway'
  BY <1>16, GatewayEndFacts
<1>17. CASE UNCHANGED vars
  BY <1>17 DEF vars
<1> QED
  BY <1>1, <1>2, <1>3, <1>4, <1>5, <1>6, <1>7, <1>8, <1>9, <1>10, <1>11, <1>12,
      <1>13, <1>14, <1>15, <1>16, <1>17 DEF Next

(* What is about to be cleared was read from a dead host gateway. *)
LEMMA ReadIsRealStep ==
  ASSUME TypeOK, HomesKnown, NoLockToCopy, HoldersRun, ReadIsReal, [Next]_vars
  PROVE  ReadIsReal'
<1> USE HomeAssumption DEF TypeOK, LaunchRecords, ReadIsReal, HoldersRun,
    HomesKnown
<1>1. ASSUME NEW l \in Launches, Preflight(l)
      PROVE  ReadIsReal'
  BY <1>1, PreflightFacts
<1>2. ASSUME NEW l \in Launches, Walk(l)
      PROVE  ReadIsReal'
  BY <1>2, WalkFacts DEF NotLaunching
<1>3. ASSUME NEW l \in Launches, Walked(l)
      PROVE  ReadIsReal'
  BY <1>3, WalkedFacts
<1>4. ASSUME NEW l \in Launches, ReadGatewayLock(l)
      PROVE  ReadIsReal'
  BY <1>4, ReadLockFacts DEF NotLaunching
<1>5. ASSUME NEW l \in Launches, ProbePid(l)
      PROVE  ReadIsReal'
  BY <1>5, ProbeFacts DEF NotLaunching
<1>6. ASSUME NEW l \in Launches, ClearStaleLock(l)
      PROVE  ReadIsReal'
  BY <1>6, ClearFacts
<1>7. ASSUME NEW l \in Launches, ContainerMounts(l)
      PROVE  ReadIsReal'
  BY <1>7 DEF ContainerMounts
<1>8. ASSUME NEW l \in Launches, Mount(l)
      PROVE  ReadIsReal'
  BY <1>8 DEF Mount
<1>9. ASSUME NEW l \in Launches, LaunchEnds(l)
      PROVE  ReadIsReal'
  BY <1>9, LaunchEndFacts
<1>10. ASSUME NEW l \in Launches, CellWrites(l)
      PROVE  ReadIsReal'
  BY <1>10 DEF CellWrites, WriteFile, Noticed
<1>11. ASSUME NEW l \in Launches, CellGatewayStarts(l)
      PROVE  ReadIsReal'
  BY <1>11 DEF CellGatewayStarts, SetLock
<1>12. ASSUME NEW c \in Creators, CopyFile(c)
      PROVE  ReadIsReal'
  <2>1. PICK f \in Files : Copied(c, f)
    BY <1>12, CopyFileFacts
  <2>2. /\ UNCHANGED <<lock, gateway>>
        /\ \A k \in Launches : /\ launch'[k].pc = launch[k].pc
                               /\ launch'[k].home = launch[k].home
                               /\ launch'[k].read = launch[k].read
                               /\ launch'[k].blind = launch[k].blind
                               /\ launch'[k].held = launch[k].held
    BY <2>1 DEF Copied
  <2> QED
    BY <2>2
<1>13. ASSUME NEW c \in Creators, CreateProfile(c) \/ MakeTarget(c) \/
              CopyLevel(c) \/ Created(c) \/ CreatorDies(c)
      PROVE  ReadIsReal'
  BY <1>13 DEF CreateProfile, NotCreating, MakeTarget, ToCopy, Listing,
      CopyLevel, Created, CreatorDies
<1>14. CASE HostWrites
  BY <1>14 DEF HostWrites, WriteFile, Noticed
<1>15. ASSUME NEW g \in HostGateways, HostGatewayStarts(g)
      PROVE  ReadIsReal'
  BY <1>15 DEF HostGatewayStarts, SetLock
<1>16. ASSUME NEW g \in HostGateways, HostGatewayEnds(g)
      PROVE  ReadIsReal'
  BY <1>16, GatewayEndFacts
<1>17. CASE UNCHANGED vars
  BY <1>17 DEF vars
<1> QED
  BY <1>1, <1>2, <1>3, <1>4, <1>5, <1>6, <1>7, <1>8, <1>9, <1>10, <1>11, <1>12,
      <1>13, <1>14, <1>15, <1>16, <1>17 DEF Next

(* What a walk has passed is clean, or unseen. *)
LEMMA PassedIsCleanStep ==
  ASSUME TypeOK, HomesKnown, NoLockToCopy, PassedIsClean, [Next]_vars
  PROVE  PassedIsClean'
<1> USE HomeAssumption DEF TypeOK, LaunchRecords, PassedIsClean, HomesKnown,
    Mounting, Levels
<1>1. ASSUME NEW l \in Launches, Preflight(l)
      PROVE  PassedIsClean'
  BY <1>1, PreflightFacts
<1>2. ASSUME NEW l \in Launches, Walk(l)
      PROVE  PassedIsClean'
  BY <1>2, WalkFacts DEF NotLaunching
<1>3. ASSUME NEW l \in Launches, Walked(l)
      PROVE  PassedIsClean'
  BY <1>3, WalkedFacts
<1>4. ASSUME NEW l \in Launches, ReadGatewayLock(l)
      PROVE  PassedIsClean'
  BY <1>4, ReadLockFacts DEF NotLaunching
<1>5. ASSUME NEW l \in Launches, ProbePid(l)
      PROVE  PassedIsClean'
  BY <1>5, ProbeFacts DEF NotLaunching
<1>6. ASSUME NEW l \in Launches, ClearStaleLock(l)
      PROVE  PassedIsClean'
  BY <1>6, ClearFacts
<1>7. ASSUME NEW l \in Launches, ContainerMounts(l)
      PROVE  PassedIsClean'
  BY <1>7 DEF ContainerMounts
<1>8. ASSUME NEW l \in Launches, Mount(l)
      PROVE  PassedIsClean'
  BY <1>8 DEF Mount
<1>9. ASSUME NEW l \in Launches, LaunchEnds(l)
      PROVE  PassedIsClean'
  BY <1>9, LaunchEndFacts
<1>10. ASSUME NEW l \in Launches, CellWrites(l)
      PROVE  PassedIsClean'
  BY <1>10 DEF CellWrites, WriteFile, Noticed
<1>11. ASSUME NEW l \in Launches, CellGatewayStarts(l)
      PROVE  PassedIsClean'
  BY <1>11 DEF CellGatewayStarts, SetLock
<1>12. ASSUME NEW c \in Creators, CopyFile(c)
      PROVE  PassedIsClean'
  <2>1. PICK f \in Files : Copied(c, f)
    BY <1>12, CopyFileFacts
  <2>2. ASSUME NEW k \in Launches, launch[k].pc \in {"walk", "mount"}
        PROVE  /\ launch'[k].pc = launch[k].pc
               /\ launch'[k].home = launch[k].home
               /\ launch'[k].unread = launch[k].unread
               /\ launch[k].unseen \subseteq launch'[k].unseen
               /\ \A e \in holds'[launch[k].home] \ launch'[k].unseen :
                    e \in holds[launch[k].home]
    <3>1. /\ launch'[k].pc = launch[k].pc
          /\ launch'[k].home = launch[k].home
          /\ launch'[k].unread = launch[k].unread
          /\ holds' = [holds EXCEPT ![creator[c].target] = @ \cup {f}]
          /\ launch'[k].unseen = IF Mounting(k, creator[c].target)
                              THEN launch[k].unseen \cup {f} ELSE launch[k].unseen
      BY <2>1 DEF Copied
    <3>2. CASE launch[k].home = creator[c].target
      BY <2>2, <3>1, <3>2
    <3>3. CASE launch[k].home # creator[c].target
      BY <2>2, <3>1, <3>3
    <3> QED
      BY <3>1, <3>2, <3>3
  <2>3. \A k \in Launches : launch'[k].pc = launch[k].pc
    BY <2>1 DEF Copied
  <2> QED
    BY <2>2, <2>3
<1>13. ASSUME NEW c \in Creators, CreateProfile(c) \/ MakeTarget(c) \/
              CopyLevel(c) \/ Created(c) \/ CreatorDies(c)
      PROVE  PassedIsClean'
  BY <1>13 DEF CreateProfile, NotCreating, MakeTarget, ToCopy, Listing,
      CopyLevel, Created, CreatorDies
<1>14. CASE HostWrites
  BY <1>14 DEF HostWrites, WriteFile, Noticed
<1>15. ASSUME NEW g \in HostGateways, HostGatewayStarts(g)
      PROVE  PassedIsClean'
  BY <1>15 DEF HostGatewayStarts, SetLock
<1>16. ASSUME NEW g \in HostGateways, HostGatewayEnds(g)
      PROVE  PassedIsClean'
  BY <1>16, GatewayEndFacts
<1>17. CASE UNCHANGED vars
  BY <1>17 DEF vars
<1> QED
  BY <1>1, <1>2, <1>3, <1>4, <1>5, <1>6, <1>7, <1>8, <1>9, <1>10, <1>11, <1>12,
      <1>13, <1>14, <1>15, <1>16, <1>17 DEF Next

(* A launch on its way has a home. *)
LEMMA LaunchHomesStep ==
  ASSUME TypeOK, HomesKnown, NoLockToCopy, [Next]_vars
  PROVE  \A k \in Launches : launch'[k].pc \notin {"idle", "up", "over"}
           => launch'[k].home \in Homes
<1> USE HomeAssumption DEF TypeOK, LaunchRecords, HomesKnown
<1>1. ASSUME NEW l \in Launches, Preflight(l)
      PROVE  \A k \in Launches : launch'[k].pc \notin {"idle", "up", "over"}
           => launch'[k].home \in Homes
  BY <1>1, PreflightFacts
<1>2. ASSUME NEW l \in Launches, Walk(l)
      PROVE  \A k \in Launches : launch'[k].pc \notin {"idle", "up", "over"}
           => launch'[k].home \in Homes
  BY <1>2, WalkFacts DEF NotLaunching
<1>3. ASSUME NEW l \in Launches, Walked(l)
      PROVE  \A k \in Launches : launch'[k].pc \notin {"idle", "up", "over"}
           => launch'[k].home \in Homes
  BY <1>3 DEF Walked
<1>4. ASSUME NEW l \in Launches, ReadGatewayLock(l)
      PROVE  \A k \in Launches : launch'[k].pc \notin {"idle", "up", "over"}
           => launch'[k].home \in Homes
  BY <1>4, ReadLockFacts DEF NotLaunching
<1>5. ASSUME NEW l \in Launches, ProbePid(l)
      PROVE  \A k \in Launches : launch'[k].pc \notin {"idle", "up", "over"}
           => launch'[k].home \in Homes
  BY <1>5, ProbeFacts DEF NotLaunching
<1>6. ASSUME NEW l \in Launches, ClearStaleLock(l)
      PROVE  \A k \in Launches : launch'[k].pc \notin {"idle", "up", "over"}
           => launch'[k].home \in Homes
  BY <1>6, ClearFacts
<1>7. ASSUME NEW l \in Launches, ContainerMounts(l)
      PROVE  \A k \in Launches : launch'[k].pc \notin {"idle", "up", "over"}
           => launch'[k].home \in Homes
  BY <1>7 DEF ContainerMounts
<1>8. ASSUME NEW l \in Launches, Mount(l)
      PROVE  \A k \in Launches : launch'[k].pc \notin {"idle", "up", "over"}
           => launch'[k].home \in Homes
  BY <1>8 DEF Mount
<1>9. ASSUME NEW l \in Launches, LaunchEnds(l)
      PROVE  \A k \in Launches : launch'[k].pc \notin {"idle", "up", "over"}
           => launch'[k].home \in Homes
  BY <1>9 DEF LaunchEnds, NotLaunching, SetLock
<1>10. ASSUME NEW l \in Launches, CellWrites(l)
      PROVE  \A k \in Launches : launch'[k].pc \notin {"idle", "up", "over"}
           => launch'[k].home \in Homes
  BY <1>10 DEF CellWrites, WriteFile, Noticed
<1>11. ASSUME NEW l \in Launches, CellGatewayStarts(l)
      PROVE  \A k \in Launches : launch'[k].pc \notin {"idle", "up", "over"}
           => launch'[k].home \in Homes
  BY <1>11 DEF CellGatewayStarts, SetLock
<1>12. ASSUME NEW c \in Creators, CopyFile(c)
      PROVE  \A k \in Launches : launch'[k].pc \notin {"idle", "up", "over"}
           => launch'[k].home \in Homes
  <2>1. PICK f \in Files : Copied(c, f)
    BY <1>12, CopyFileFacts
  <2>2. \A k \in Launches : /\ launch'[k].pc = launch[k].pc
                           /\ launch'[k].home = launch[k].home
    BY <2>1 DEF Copied
  <2> QED
    BY <2>2
<1>13. ASSUME NEW c \in Creators, CreateProfile(c) \/ MakeTarget(c) \/
              CopyLevel(c) \/ Created(c) \/ CreatorDies(c)
      PROVE  \A k \in Launches : launch'[k].pc \notin {"idle", "up", "over"}
           => launch'[k].home \in Homes
  BY <1>13 DEF CreateProfile, NotCreating, MakeTarget, ToCopy, Listing,
      CopyLevel, Created, CreatorDies
<1>14. CASE HostWrites
  BY <1>14 DEF HostWrites, WriteFile, Noticed
<1>15. ASSUME NEW g \in HostGateways, HostGatewayStarts(g)
      PROVE  \A k \in Launches : launch'[k].pc \notin {"idle", "up", "over"}
           => launch'[k].home \in Homes
  BY <1>15 DEF HostGatewayStarts, SetLock
<1>16. ASSUME NEW g \in HostGateways, HostGatewayEnds(g)
      PROVE  \A k \in Launches : launch'[k].pc \notin {"idle", "up", "over"}
           => launch'[k].home \in Homes
  BY <1>16, GatewayEndFacts
<1>17. CASE UNCHANGED vars
  BY <1>17 DEF vars
<1> QED
  BY <1>1, <1>2, <1>3, <1>4, <1>5, <1>6, <1>7, <1>8, <1>9, <1>10, <1>11, <1>12,
      <1>13, <1>14, <1>15, <1>16, <1>17 DEF Next
-----------------------------------------------------------------------------
(* The invariant holds at first. *)
LEMMA InitHolds ==
  ASSUME Init
  PROVE  HomeIInv
<1> USE HomeAssumption
<1>1. TypeOK
  <2>1. creator \in [Creators -> CreatorRecords]
    BY NotCreatingType DEF Init, CreatorPcs
  <2>2. launch \in [Launches -> LaunchRecords]
    BY NotLaunchingType DEF Init, LaunchPcs
  <2> QED
    BY <2>1, <2>2 DEF Init, TypeOK
<1>2. /\ \A c \in Creators : creator[c].pc = "idle" /\ creator[c].todo = {}
      /\ \A l \in Launches :
           /\ launch[l].pc = "idle" /\ launch[l].read = None
           /\ launch[l].held = {}
      /\ \A h \in Homes : lock[h] \in {"garbled", None}
  BY DEF Init, NotCreating, NotLaunching
<1> QED
  BY <1>1, <1>2
  DEF HomeIInv, HomesKnown, FillsItsOwnHome, NoLockToCopy, HoldersRun,
      HeldNow, YieldsToHostGateway, ReadIsReal, PassedIsClean

(* Every step keeps it. *)
LEMMA StepHolds ==
  ASSUME HomeIInv, [Next]_vars
  PROVE  HomeIInv'
<1>1. TypeOK'
  BY TypeStep DEF HomeIInv
<1>2. /\ HomesKnown' /\ FillsItsOwnHome' /\ NoLockToCopy'
  BY CreatesStep, LaunchHomesStep DEF HomeIInv, HomesKnown
<1>3. HoldersRun' /\ HeldNow'
  BY HoldersRunStep, HeldNowStep DEF HomeIInv
<1>4. YieldsToHostGateway' /\ ReadIsReal'
  BY YieldsToHostGatewayStep, ReadIsRealStep DEF HomeIInv
<1>5. PassedIsClean'
  BY PassedIsCleanStep DEF HomeIInv
<1> QED
  BY <1>1, <1>2, <1>3, <1>4, <1>5 DEF HomeIInv

THEOREM HomeInvariant == Spec => []HomeIInv
<1>1. Init => HomeIInv
  BY InitHolds
<1>2. HomeIInv /\ [Next]_vars => HomeIInv'
  BY StepHolds
<1> QED
  BY <1>1, <1>2, PTL DEF Spec

(***************************************************************************)
(* Homes, locks, creates and launches stay what the code can make of them. *)
(***************************************************************************)
THEOREM TypeCorrect == Spec => []TypeOK
<1>1. HomeIInv => TypeOK
  BY DEF HomeIInv
<1> QED
  BY <1>1, HomeInvariant, PTL

(***************************************************************************)
(* Whatever creates, launches, cells and host-side Hermes do between       *)
(* create_profile's check and its copying, it fills what it made.          *)
(***************************************************************************)
THEOREM CreatesFillTheirOwn == Spec => []FillsItsOwnHome
<1>1. HomeIInv => FillsItsOwnHome
  BY DEF HomeIInv
<1> QED
  BY <1>1, HomeInvariant, PTL

(***************************************************************************)
(* No gateway.lock is ever found in another home than its gateway's.       *)
(***************************************************************************)
THEOREM LocksStayLocal == Spec => []LocksAreLocal
<1>1. HomeIInv => LocksAreLocal
  BY DEF HomeIInv, HoldersRun, LocksAreLocal, RanOn, Gateways
<1> QED
  BY <1>1, HomeInvariant, PTL

(***************************************************************************)
(* A gateway launch yields to the host gateway that holds the lock, unless *)
(* it could not read the lock or its probe of the pid failed.              *)
(***************************************************************************)
THEOREM LaunchesYield == Spec => []YieldsToHostGateway
<1>1. HomeIInv => YieldsToHostGateway
  BY DEF HomeIInv
<1> QED
  BY <1>1, HomeInvariant, PTL

(***************************************************************************)
(* A walk that is over has seen every credential and every symlink that    *)
(* was there when it began, but for what a directory it could not list or  *)
(* an entry it could not examine hid from it: no other is mounted.         *)
(***************************************************************************)
THEOREM NoCredentialMounted == Spec => MountsNoCredential
<1>1. ASSUME HomeIInv, [Next]_vars, NEW l \in Launches,
             launch[l].pc = "mount"
      PROVE  {f \in holds[launch[l].home] : Dangerous(f)}
               \subseteq launch[l].unseen
  <2>1. holds[launch[l].home] \subseteq Files
    BY <1>1 DEF HomeIInv, TypeOK, HomesKnown
  <2> QED
    BY <1>1, <2>1 DEF HomeIInv, PassedIsClean
<1>2. HomeIInv /\ [Next]_vars =>
        [\A l \in Launches :
           launch[l].pc = "mount" /\ launch'[l].pc = "up" =>
             {f \in holds[launch[l].home] : Dangerous(f)}
               \subseteq launch[l].unseen]_vars
  BY <1>1
<1> QED
  BY <1>2, HomeInvariant, PTL DEF Spec, MountsNoCredential

(***************************************************************************)
(* The lock preflight clears was read from a gateway that is dead, unless  *)
(* the probe of its pid failed, or it was written since it was read.       *)
(***************************************************************************)
THEOREM OnlyStaleCleared == Spec => ClearsOnlyStale
<1>1. ASSUME HomeIInv, NEW l \in Launches, NEW h \in Homes,
             launch[l].pc = "clear", lock[h] \in HostGateways,
             gateway[lock[h]] = h
      PROVE  launch[l].read # lock[h] \/ launch[l].blind
  BY <1>1, HomeAssumption DEF HomeIInv, ReadIsReal
<1>2. HomeIInv /\ [Next]_vars =>
        [\A l \in Launches, h \in Homes :
           /\ launch[l].pc = "clear" /\ launch'[l].pc = "ready"
           /\ launch[l].home = h
           /\ lock[h] \in HostGateways /\ gateway[lock[h]] = h
           => \/ lock'[h] = lock[h]
              \/ launch[l].read # lock[h]
              \/ launch[l].blind]_vars
  BY <1>1
<1> QED
  BY <1>2, HomeInvariant, PTL DEF Spec, ClearsOnlyStale
=============================================================================
