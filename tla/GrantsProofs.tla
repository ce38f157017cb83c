---------------------------- MODULE GrantsProofs ----------------------------
(***************************************************************************)
(* Proofs about Grants, for any registry, profiles, presets and durations, *)
(* and chains of any length.                                               *)
(***************************************************************************)
EXTENDS Grants, TLAPS

\* What a launch is given
Params ==
  [ profile : DOMAIN Profile, specs : [Mounts -> Specs], flag : BOOLEAN,
    ephemeral : BOOLEAN, handling : Handlings \cup {"profile"},
    platforms : SUBSET Platforms, override : Nat ]

-----------------------------------------------------------------------------
(* Types *)

LEMMA LogType ==
  ASSUME TypeOK, NEW p \in Params
  PROVE  Logged(p) \in Events
<1>1. \A m \in Mounts : ModeOf(m, p.specs[m]) \in Modes
  BY DEF TypeOK, Params, Specs, ModeOf, Modes
<1>2. LimitOf(p) \in Nat
  BY GrantsConstants DEF LimitOf, Params, ProfileSpecs, Unlimited
<1>3. {m \in Asked(p.specs) : NeedsOverride(m)} \in SUBSET Mounts
  BY DEF Asked
<1> QED BY <1>1, <1>2, <1>3 DEF Logged, Events, Params

LEMMA CellType ==
  ASSUME TypeOK, NEW p \in Params
  PROVE  Unlogged(p) \in Cells
<1>1. NetworkOf(p) \in Networks
  BY GrantsConstants DEF NetworkOf, Params, ProfileSpecs, Networks
<1> QED BY <1>1 DEF Unlogged, Cells, Params, TypeOK

LEMMA StartType ==
  ASSUME TypeOK, NEW p \in Params, Start(p)
  PROVE  event' \in Events /\ cell' \in Cells
BY LogType, CellType DEF Start

LEMMA ReconstructedType ==
  ASSUME NEW e \in Events, NEW drop
  PROVE  Reconstructed(e, drop) \in Params
BY DEF Events, Reconstructed, Params, CarriedSpecs, CarriedFlag, Specs,
       Modes, Unlimited

LEMMA FoundType ==
  ASSUME TypeOK
  PROVE  Found \subseteq {e \in Events : e.idle}
<1>1. event \in Events /\ Emitted \subseteq Events
  BY GrantsConstants DEF TypeOK
<1>2. \A e \in Events : [e EXCEPT !.idle = TRUE] \in {d \in Events : d.idle}
  BY DEF Events
<1> QED BY <1>1, <1>2 DEF Found

LEMMA LeftOverType ==
  ASSUME TypeOK, NEW c \in Changes
  PROVE  LeftOver(c) \in Nat
<1>1. c.extend \in Nat
  <2>1. c.extend \in Extensions \/ c.extend = 0
    BY DEF Changes, Unlimited
  <2>2. \A d \in Extensions : d \in Nat
    BY GrantsConstants
  <2> QED BY <2>1, <2>2
<1>2. event.limit \in Nat /\ cell.elapsed \in Nat
  BY DEF TypeOK, Events, Cells
<1>3. Floor \in Nat
  BY GrantsConstants
<1>4. event.limit - cell.elapsed + c.extend \in Int
  BY <1>1, <1>2
<1> QED BY <1>3, <1>4 DEF LeftOver, Larger, Unlimited

LEMMA EffectiveType ==
  ASSUME TypeOK, NEW c \in Changes
  PROVE  Effective(c) \in Changes
<1> DEFINE attached == Asked(event.mounts)
           adds == [m \in Mounts |-> IF m \in attached THEN "no" ELSE c.adds[m]]
           extend == IF event.limit = Unlimited THEN Unlimited ELSE c.extend
<1>1. adds \in [Mounts -> Specs]
  BY DEF Changes, Specs, Modes
<1>2. c.removes \cap attached \in SUBSET Mounts
  BY DEF Changes
<1>3. extend \in Extensions \cup {Unlimited}
  BY DEF Changes
<1>4. Effective(c) = [[[c EXCEPT !.adds = adds] EXCEPT
                         !.removes = c.removes \cap attached] EXCEPT !.extend = extend]
  BY DEF Effective
<1> HIDE DEF adds, attached, extend
<1> QED BY <1>1, <1>2, <1>3, <1>4 DEF Changes

LEMMA AppliedType ==
  ASSUME TypeOK, NEW c \in Changes, NEW left \in Nat
  PROVE  Applied(event, c, left) \in Params
<1> DEFINE r == Reconstructed(event, c.removes)
<1>1. r \in Params
  BY ReconstructedType DEF TypeOK
<1>2. [m \in Mounts |-> IF c.adds[m] # "no" THEN c.adds[m] ELSE r.specs[m]]
        \in [Mounts -> Specs]
  BY <1>1 DEF Params, Changes
<1>3. (r.flag \/ c.broad) \in BOOLEAN
  OBVIOUS
<1> HIDE DEF r
<1> QED BY <1>1, <1>2, <1>3 DEF Applied, Params, r

LEMMA NoChangesType == NoChanges \in Changes
BY DEF NoChanges, Changes, NoMounts, Specs, Modes, Unlimited

LEMMA RequestsType == Requests \subseteq Changes
<1>1. \A m \in Mounts, spec \in Specs : AddMount(m, spec) \in Changes
  BY NoChangesType DEF AddMount, Changes
<1>2. \A d \in Extensions : Extend(d) \in Changes
  BY NoChangesType DEF Extend, Changes
<1> QED BY <1>1, <1>2 DEF Requests

LEMMA NoCommandType == NoCommand \in Adjustments
BY NoChangesType DEF NoCommand, Adjustments, Unlimited

LEMMA BeginType ==
  ASSUME TypeOK, NEW who \in {"operator", "agent"}, NEW c \in Changes,
         Begin(who, c)
  PROVE  command' \in Adjustments
<1>1. Effective(c) \in Changes /\ LeftOver(Effective(c)) \in Nat
  BY EffectiveType, LeftOverType
<1> QED BY <1>1, NoCommandType DEF Begin, Adjustments, TypeOK

\* The mounts a change of the operator's can name are a function on names.
LEMMA AsksType == Asks \subseteq [Mounts -> Specs]
BY DEF Asks

-----------------------------------------------------------------------------
(* What the steps do, field by field *)

LEMMA RunType ==
  ASSUME NEW profile \in DOMAIN Profile, NEW specs \in Asks, NEW flag \in BOOLEAN,
         NEW ephemeral \in BOOLEAN, NEW handling \in Handlings,
         Run(profile, specs, flag, ephemeral, handling)
  PROVE  \E p \in Params : p.override = Unlimited /\ Launch(p)
<1> DEFINE p == [ profile |-> profile, specs |-> specs, flag |-> flag,
                  ephemeral |-> ephemeral, handling |-> handling,
                  platforms |-> Platforms, override |-> Unlimited ]
<1>1. p \in Params
  BY AsksType DEF Params, Unlimited
<1>2. p.override = Unlimited /\ Launch(p)
  BY DEF Run
<1> QED BY <1>1, <1>2

LEMMA PresetType ==
  ASSUME NEW preset \in Presets, NEW ephemeral \in BOOLEAN,
         NEW handling \in Handlings,
         LaunchPreset(preset, ephemeral, handling)
  PROVE  \E p \in Params : p.override = Unlimited /\ Launch(p)
<1> DEFINE specs == [m \in Mounts |-> IF m \in preset.mounts THEN "any" ELSE "no"]
           on    == IF preset.platforms = {} THEN Platforms ELSE preset.platforms
           p     == [ profile |-> preset.profile, specs |-> specs, flag |-> TRUE,
                      ephemeral |-> ephemeral, handling |-> handling,
                      platforms |-> on, override |-> Unlimited ]
<1>1. preset \in PresetSpecs
  BY GrantsConstants
<1>2. specs \in [Mounts -> Specs]
  BY DEF Specs, Modes
<1>3. on \in SUBSET Platforms
  BY <1>1 DEF PresetSpecs
<1>4. preset.profile \in DOMAIN Profile
  BY <1>1 DEF PresetSpecs
<1>5. p.override = Unlimited /\ Launch(p)
  BY DEF LaunchPreset
<1> HIDE DEF specs, on
<1>6. p \in Params
  BY <1>2, <1>3, <1>4 DEF Params, Unlimited
<1> QED BY <1>5, <1>6

\* The steps, with the parameters that matter to the proofs.
LEMMA Steps ==
  ASSUME [Next]_vars
  PROVE  \/ \E p \in Params : p.override = Unlimited /\ Launch(p)
         \/ \E e \in Found, allowMissing \in BOOLEAN : Wake(e, allowMissing)
         \/ \E c \in Changes : Adjust(c)
         \/ \E c \in Changes : TakeRequest(c)
         \/ Approve \/ Decline \/ Stop \/ StopFails \/ Relaunch
         \/ \E idle \in BOOLEAN : End(idle)
         \/ Tick
         \/ \E m \in Mounts, mode \in Modes \ {"no"} : Register(m, mode)
         \/ \E m \in Mounts, state \in {"there", "gone", "link"} : EditPath(m, state)
         \/ UNCHANGED vars
<1>1. CASE \E adds \in Asks, removes \in SUBSET Mounts,
              extend \in Extensions \cup {Unlimited}, broad \in BOOLEAN :
             Adjust([ adds |-> adds, removes |-> removes, extend |-> extend,
                      broad |-> broad ])
  <2>1. PICK adds \in Asks, removes \in SUBSET Mounts,
             extend \in Extensions \cup {Unlimited}, broad \in BOOLEAN :
             Adjust([ adds |-> adds, removes |-> removes, extend |-> extend,
                      broad |-> broad ])
    BY <1>1
  <2>2. [ adds |-> adds, removes |-> removes, extend |-> extend,
          broad |-> broad ] \in Changes
    BY AsksType DEF Changes
  <2> QED BY <2>1, <2>2
<1> QED BY <1>1, RunType, PresetType, RequestsType DEF Next, Operator, Environment

\* A command is dropped, or it holds the effective change; what skips the
\* prompt only narrows.
LEMMA BeginFields ==
  ASSUME NEW who, NEW c, Begin(who, c)
  PROVE  \/ command' = NoCommand
         \/ /\ command'.step \in {"prompt", "stop"}
            /\ command'.by = who /\ command'.changes = Effective(c)
            /\ command'.approved = FALSE
            /\ command'.seen = edits /\ command'.waited = 0
            /\ command'.step = "stop" =>
                 /\ NarrowingOnly(Effective(c))
                 /\ command'.left = LeftOver(Effective(c))
BY DEF Begin, NoCommand

LEMMA EffectiveFields ==
  ASSUME NEW c \in Changes
  PROVE  /\ Effective(c).adds = [m \in Mounts |->
              IF event.mounts[m] # "no" THEN "no" ELSE c.adds[m]]
         /\ Effective(c).removes = {m \in c.removes : event.mounts[m] # "no"}
         /\ Effective(c).broad = c.broad
BY DEF Effective, Changes, Asked

LEMMA AppliedFields ==
  ASSUME NEW c \in Changes, NEW left
  PROVE  LET p == Applied(event, c, left) IN
         /\ p.profile = event.profile
         /\ p.specs = [m \in Mounts |->
              IF c.adds[m] # "no" THEN c.adds[m]
              ELSE IF m \in c.removes THEN "no" ELSE event.mounts[m]]
         /\ p.flag <=> (event.overrides # {} \/ c.broad)
         /\ p.ephemeral = event.ephemeral
         /\ p.handling = "profile"
         /\ p.override = left
BY DEF Applied, Reconstructed, CarriedSpecs, CarriedFlag

-----------------------------------------------------------------------------
(* Type correctness *)

LEMMA GrantConstantsTypes ==
  /\ NoGrant \in GrantStates /\ NotGenuine \in GrantStates
  /\ NoGrant.genuine /\ ~ NotGenuine.genuine
<1>1. NoMounts \in [Mounts -> Modes]
  BY DEF NoMounts, Modes
<1>2. NoGrant \in GrantStates /\ NoGrant.genuine
  BY <1>1 DEF NoGrant, GrantStates
<1> QED BY <1>2 DEF NotGenuine, GrantStates

LEMMA InitTypeOK == Init => TypeOK
<1> SUFFICES ASSUME Init PROVE TypeOK
  OBVIOUS
<1>1. registry \in [Mounts -> Modes]
  BY GrantsConstants DEF Init
<1>2. paths \in [Mounts -> {"there", "gone", "link"}]
  BY DEF Init
<1>3. event \in Events
  <2>1. PICK profile \in DOMAIN Profile :
          event = [ profile |-> profile, mounts |-> NoMounts, overrides |-> {},
                    limit |-> Unlimited, ephemeral |-> FALSE, idle |-> FALSE,
                    origin |-> "none" ]
    BY DEF Init
  <2>2. NoMounts \in [Mounts -> Modes] /\ Unlimited \in Nat
    BY DEF NoMounts, Modes, Unlimited
  <2> QED BY <2>1, <2>2 DEF Events
<1>4. cell \in Cells
  BY DEF Init, Cells, Networks
<1>5. command \in Adjustments
  BY NoCommandType DEF Init
<1>6. edits \in Nat /\ grant \in GrantStates
  BY GrantConstantsTypes DEF Init
<1> QED BY <1>1, <1>2, <1>3, <1>4, <1>5, <1>6 DEF TypeOK

LEMMA GrantedType ==
  ASSUME TypeOK, NEW p \in Params
  PROVE  Granted(p) \in GrantStates
<1>1. \A m \in Mounts : ModeOf(m, p.specs[m]) \in Modes
  BY DEF TypeOK, Params, Specs, ModeOf, Modes
<1>2. Profile[p.profile].limit \in Int
  <2>1. Profile[p.profile] \in ProfileSpecs
    BY GrantsConstants DEF Params
  <2> QED BY <2>1 DEF ProfileSpecs
<1> QED BY <1>1, <1>2 DEF Granted, GrantStates, Params

LEMMA ExtendedType ==
  ASSUME TypeOK
  PROVE  Extended(command.changes, command.approved) \in GrantStates
<1> DEFINE c == command.changes
           mounts == [m \in Mounts |->
                        IF m \in c.removes THEN "no"
                        ELSE IF ~ command.approved \/ c.adds[m] = "no"
                        THEN grant.mounts[m]
                        ELSE IF c.adds[m] = "any" THEN "rw" ELSE c.adds[m]]
           time == IF event.limit = Unlimited THEN grant.time
                   ELSE Larger(grant.time + command.waited
                          + (IF command.approved THEN c.extend ELSE 0), Floor)
           broad == grant.broad \/ (command.approved /\ c.broad)
<1>1. c \in Changes /\ grant \in GrantStates /\ command.waited \in Nat
  BY DEF TypeOK, Adjustments
<1>2. mounts \in [Mounts -> Modes]
  BY <1>1 DEF Changes, GrantStates, Specs, Modes
<1>3. time \in Int
  <2>1. grant.time \in Int /\ Floor \in Int
    BY <1>1, GrantsConstants DEF GrantStates
  <2>2. (IF command.approved THEN c.extend ELSE 0) \in Int
    <3>1. c.extend \in Extensions \/ c.extend = 0
      BY <1>1 DEF Changes, Unlimited
    <3>2. \A d \in Extensions : d \in Int
      BY GrantsConstants
    <3> QED BY <3>1, <3>2
  <2>3. grant.time + command.waited
          + (IF command.approved THEN c.extend ELSE 0) \in Int
    BY <1>1, <2>1, <2>2
  <2> QED BY <2>1, <2>3 DEF Larger
<1>4. broad \in BOOLEAN
  OBVIOUS
<1>5. Extended(c, command.approved)
        = [[[grant EXCEPT !.mounts = mounts] EXCEPT !.broad = broad] EXCEPT !.time = time]
  BY <1>1 DEF Extended, GrantStates
<1> HIDE DEF mounts, time, broad
<1> QED BY <1>1, <1>2, <1>3, <1>4, <1>5 DEF GrantStates, c

\* What the operator has agreed to once a change is carried out.
LEMMA ExtendedFields ==
  ASSUME TypeOK, NEW c \in Changes, c = command.changes,
         grant' = Extended(c, command.approved)
  PROVE  /\ grant'.genuine = grant.genuine
         /\ grant'.broad = (grant.broad \/ (command.approved /\ c.broad))
         /\ grant'.mounts = [m \in Mounts |->
              IF m \in c.removes THEN "no"
              ELSE IF ~ command.approved \/ c.adds[m] = "no" THEN grant.mounts[m]
              ELSE IF c.adds[m] = "any" THEN "rw" ELSE c.adds[m]]
         /\ grant'.time = IF event.limit = Unlimited THEN grant.time
                          ELSE Larger(grant.time + command.waited
                                   + (IF command.approved THEN c.extend ELSE 0), Floor)
BY DEF Extended, TypeOK, GrantStates

LEMMA NextTypeOK == TypeOK /\ [Next]_vars => TypeOK'
<1> SUFFICES ASSUME TypeOK, [Next]_vars PROVE TypeOK'
  OBVIOUS
<1>1. ASSUME NEW p \in Params, Launch(p) PROVE TypeOK'
  BY <1>1, StartType, GrantedType DEF Launch, TypeOK
<1>2. ASSUME NEW e \in Found, NEW allowMissing \in BOOLEAN,
              Wake(e, allowMissing) PROVE TypeOK'
  <2>1. PICK drop : Start(Reconstructed(e, drop))
    BY <1>2 DEF Wake
  <2>2. event' \in Events /\ cell' \in Cells
    BY <2>1, FoundType, ReconstructedType, StartType
  <2>3. grant' \in GrantStates
    <3>1. event.profile \in DOMAIN Profile
      BY DEF TypeOK, Events
    <3>2. Profile[event.profile].limit \in Int
      BY <3>1, GrantsConstants DEF ProfileSpecs
    <3> QED BY <1>2, <3>2, GrantConstantsTypes DEF Wake, TypeOK, GrantStates
  <2> QED BY <1>2, <2>2, <2>3 DEF Wake, TypeOK
<1>3. ASSUME NEW c \in Changes, Adjust(c) PROVE TypeOK'
  BY <1>3, BeginType DEF Adjust, TypeOK
<1>4. ASSUME NEW c \in Changes, TakeRequest(c) PROVE TypeOK'
  BY <1>4, BeginType DEF TakeRequest, TypeOK
<1>5. CASE Approve
  <2>1. LeftOver(command.changes) \in Nat
    BY LeftOverType DEF TypeOK, Adjustments
  <2>2. command' \in Adjustments
    BY <1>5, <2>1 DEF Approve, TypeOK, Adjustments
  <2> QED BY <1>5, <2>2 DEF Approve, TypeOK
<1>6. CASE Decline
  BY <1>6, NoCommandType DEF Decline, TypeOK
<1>7. CASE Stop
  <2>1. command' \in Adjustments
    BY <1>7 DEF Stop, TypeOK, Adjustments
  <2>2. cell' \in Cells
    BY <1>7 DEF Stop, TypeOK, Cells
  <2> QED BY <1>7, <2>1, <2>2 DEF Stop, TypeOK
<1>8. CASE StopFails
  BY <1>8, NoCommandType DEF StopFails, TypeOK
<1>9. CASE Relaunch
  <2>1. Applied(event, command.changes, command.left) \in Params
    BY AppliedType DEF TypeOK, Adjustments
  <2>2. event' \in Events /\ cell' \in Cells /\ grant' \in GrantStates
    BY <1>9, <2>1, StartType, ExtendedType DEF Relaunch, TypeOK
  <2> QED BY <1>9, <2>2, NoCommandType DEF Relaunch, TypeOK
<1>10. ASSUME NEW idle \in BOOLEAN, End(idle) PROVE TypeOK'
  <2>1. event' \in Events
    BY <1>10 DEF End, TypeOK, Events
  <2>2. cell' \in Cells
    BY <1>10 DEF End, TypeOK, Cells
  <2> QED BY <1>10, <2>1, <2>2 DEF End, TypeOK
<1>11. CASE Tick
  <2>1. cell' \in Cells
    BY <1>11 DEF Tick, TypeOK, Cells
  <2>2. command' \in Adjustments
    BY <1>11 DEF Tick, TypeOK, Adjustments
  <2>3. grant' \in GrantStates
    BY <1>11 DEF Tick, TypeOK, GrantStates
  <2> QED BY <1>11, <2>1, <2>2, <2>3 DEF Tick, TypeOK
<1>12. ASSUME NEW m \in Mounts, NEW mode \in Modes \ {"no"}, Register(m, mode)
       PROVE TypeOK'
  BY <1>12 DEF Register, Edit, TypeOK
<1>13. ASSUME NEW m \in Mounts, NEW state \in {"there", "gone", "link"},
              EditPath(m, state)
       PROVE TypeOK'
  BY <1>13 DEF EditPath, Edit, TypeOK
<1>14. CASE UNCHANGED vars
  BY <1>14 DEF vars, TypeOK
<1> QED BY <1>1, <1>2, <1>3, <1>4, <1>5, <1>6, <1>7, <1>8, <1>9, <1>10, <1>11,
           <1>12, <1>13, <1>14, Steps

\* Every reachable state is well typed: in particular no relaunch is given a
\* negative duration, however late its change was approved.
THEOREM TypeCorrect == Spec => []TypeOK
<1>1. Init => TypeOK
  BY InitTypeOK
<1>2. TypeOK /\ [Next]_vars => TypeOK'
  BY NextTypeOK
<1> QED BY <1>1, <1>2, PTL DEF Spec

-----------------------------------------------------------------------------
(* Consent: what makes the two safety properties inductive.  They must hold *)
(* between two sessions as well, for the record of a session that is over   *)
(* is what the next is made of; and a change about to be carried out either *)
(* was approved or only narrows.                                            *)

Consented ==
  event.overrides # {} =>
    /\ Profile[event.profile].broad
    /\ grant.genuine => grant.broad

WithinRegistry ==
  \A m \in Mounts : Level[event.mounts[m]] <= Level[registry[m]]

NothingExtra ==
  grant.genuine =>
    \A m \in Mounts : Level[event.mounts[m]] <= Level[grant.mounts[m]]

UnapprovedNarrows ==
  command.step \in {"stop", "launch"} /\ ~ command.approved =>
    NarrowingOnly(command.changes)

AddsNotRemoves ==
  \A m \in command.changes.removes : command.changes.adds[m] = "no"

Consent ==
  /\ TypeOK /\ Consented /\ WithinRegistry /\ NothingExtra
  /\ UnapprovedNarrows /\ AddsNotRemoves

\* An override at a launch takes both gates.
LEMMA OverrideNeedsBoth ==
  ASSUME NEW p \in Params, Start(p)
  PROVE  event'.overrides # {} => p.flag /\ Profile[p.profile].broad
BY DEF Start, Logged, Admitted, Safe

LEMMA LevelOrder ==
  /\ Level["no"] = 0 /\ Level["ro"] = 1 /\ Level["rw"] = 2
  /\ \A a \in Modes : Level[a] \in 0 .. 2
BY DEF Level, Modes

\* Whatever is asked for, and whoever wrote the record it comes from, a launch
\* attaches nothing above the mode that is registered.
LEMMA StartWithinRegistry ==
  ASSUME TypeOK, NEW p \in Params, Start(p), registry' = registry
  PROVE  WithinRegistry'
<1> SUFFICES ASSUME NEW m \in Mounts
             PROVE  Level[event'.mounts[m]] <= Level[registry[m]]
  BY DEF WithinRegistry
<1>1. event'.mounts[m] = ModeOf(m, p.specs[m])
  BY DEF Start, Logged
<1>2. registry[m] \in Modes /\ p.specs[m] \in Specs
  BY DEF TypeOK, Params
<1>3. p.specs[m] # "no" => Resolves(m, p.specs[m])
  BY DEF Start, Admitted, Asked
<1>4. \/ event'.mounts[m] = "no"
      \/ event'.mounts[m] = registry[m]
      \/ event'.mounts[m] = "ro" /\ registry[m] = "rw"
  BY <1>1, <1>2, <1>3 DEF ModeOf, Resolves, Specs, Modes
<1> QED BY <1>2, <1>4, LevelOrder

LEMMA NoCommandConsents ==
  ASSUME command' = NoCommand
  PROVE  UnapprovedNarrows' /\ AddsNotRemoves'
BY DEF NoCommand, NoChanges, UnapprovedNarrows, AddsNotRemoves

LEMMA BeginConsents ==
  ASSUME TypeOK, NEW who, NEW c \in Changes, Begin(who, c)
  PROVE  UnapprovedNarrows' /\ AddsNotRemoves'
<1>1. CASE command' = NoCommand
  BY <1>1, NoCommandConsents
<1>2. CASE command' # NoCommand
  <2>1. /\ command'.changes = Effective(c)
        /\ command'.step \in {"prompt", "stop"}
        /\ command'.step = "stop" => NarrowingOnly(Effective(c))
    BY <1>2, BeginFields
  <2>2. c.removes \subseteq Mounts
    BY DEF Changes
  <2>3. AddsNotRemoves'
    <3>1. /\ Effective(c).adds = [m \in Mounts |->
               IF event.mounts[m] # "no" THEN "no" ELSE c.adds[m]]
          /\ Effective(c).removes = {m \in c.removes : event.mounts[m] # "no"}
      BY EffectiveFields
    <3>2. \A m \in Effective(c).removes : Effective(c).adds[m] = "no"
      BY <2>2, <3>1
    <3> QED BY <2>1, <3>2 DEF AddsNotRemoves
  <2>4. UnapprovedNarrows'
    BY <2>1 DEF UnapprovedNarrows
  <2> QED BY <2>3, <2>4
<1> QED BY <1>1, <1>2

LEMMA LaunchConsents ==
  ASSUME Consent, NEW p \in Params, Launch(p)
  PROVE  Consented' /\ WithinRegistry' /\ NothingExtra'
<1>1. event' = Logged(p) /\ grant' = Granted(p)
  BY DEF Launch, Start
<1>2. Consented'
  <2>1. event'.overrides # {} => p.flag /\ Profile[p.profile].broad
    BY OverrideNeedsBoth DEF Launch
  <2> QED BY <1>1, <2>1 DEF Consented, Logged, Granted
<1>3. NothingExtra'
  <2>1. event'.mounts = grant'.mounts
    BY <1>1 DEF Logged, Granted
  <2>2. event' \in Events
    BY <1>1, LogType DEF Consent
  <2> QED BY <2>1, <2>2, LevelOrder DEF NothingExtra, Events
<1>4. WithinRegistry'
  BY StartWithinRegistry DEF Launch, Consent
<1> QED BY <1>2, <1>3, <1>4

LEMMA WakeConsents ==
  ASSUME Consent, NEW e \in Found, NEW allowMissing \in BOOLEAN,
         Wake(e, allowMissing)
  PROVE  Consented' /\ WithinRegistry' /\ NothingExtra'
<1>1. PICK drop : Start(Reconstructed(e, drop))
  BY DEF Wake
<1> DEFINE p == Reconstructed(e, drop)
<1>2. /\ p \in Params
      /\ p.profile = e.profile /\ (p.flag <=> e.overrides # {})
      /\ p.specs = [m \in Mounts |-> IF m \in drop THEN "no" ELSE e.mounts[m]]
  BY FoundType, ReconstructedType
     DEF Consent, Reconstructed, CarriedFlag, CarriedSpecs
<1> HIDE DEF p
<1>3. event' = Logged(p) /\ event'.profile = e.profile
  BY <1>1, <1>2 DEF Start, Logged, p
<1>4. event'.overrides # {} => p.flag /\ Profile[e.profile].broad
  BY <1>1, <1>2, OverrideNeedsBoth DEF p
<1>5. WithinRegistry'
  BY <1>1, <1>2, StartWithinRegistry DEF Wake, Consent, p
<1>6. CASE grant.genuine /\ e = event
  <2>1. grant'.broad = grant.broad /\ grant'.mounts = grant.mounts
    BY <1>6 DEF Wake, Consent, TypeOK, GrantStates
  <2>2. Consented'
    BY <1>2, <1>3, <1>4, <1>6, <2>1 DEF Consent, Consented
  <2>3. NothingExtra'
    <3> SUFFICES ASSUME NEW m \in Mounts
                 PROVE  Level[event'.mounts[m]] <= Level[grant'.mounts[m]]
      BY DEF NothingExtra
    <3>1. event'.mounts[m] = ModeOf(m, p.specs[m])
      BY <1>3 DEF Logged
    <3>2. event.mounts[m] \in Modes /\ grant.mounts[m] \in Modes
      BY DEF Consent, TypeOK, Events, GrantStates
    <3>3. event'.mounts[m] = "no" \/ event'.mounts[m] = event.mounts[m]
      BY <1>2, <1>6, <3>1, <3>2 DEF ModeOf, Modes
    <3>4. Level[event.mounts[m]] <= Level[grant.mounts[m]]
      BY <1>6 DEF Consent, NothingExtra
    <3> QED BY <2>1, <3>2, <3>3, <3>4, LevelOrder
  <2> QED BY <1>5, <2>2, <2>3
<1>7. CASE ~ (grant.genuine /\ e = event)
  <2>1. ~ grant'.genuine
    BY <1>7, GrantConstantsTypes DEF Wake
  <2> QED BY <1>3, <1>4, <1>5, <2>1 DEF Consented, NothingExtra
<1> QED BY <1>6, <1>7

LEMMA RelaunchConsents ==
  ASSUME Consent, Relaunch
  PROVE  Consented' /\ WithinRegistry' /\ NothingExtra'
<1> DEFINE c == command.changes
           p == Applied(event, c, command.left)
<1>1. c \in Changes /\ p \in Params
  BY AppliedType DEF Consent, TypeOK, Adjustments
<1>2. /\ p.profile = event.profile
      /\ p.flag <=> (event.overrides # {} \/ c.broad)
      /\ p.specs = [m \in Mounts |->
              IF c.adds[m] # "no" THEN c.adds[m]
              ELSE IF m \in c.removes THEN "no" ELSE event.mounts[m]]
  BY <1>1, AppliedFields
<1>3. ~ command.approved => NarrowingOnly(c)
  BY DEF Consent, UnapprovedNarrows, Relaunch
<1> HIDE DEF p
<1>4. ASSUME Start(p), grant.genuine, grant' = Extended(c, command.approved)
      PROVE  Consented' /\ WithinRegistry' /\ NothingExtra'
  <2>1. event' = Logged(p)
    BY <1>4 DEF Start
  <2>2. /\ grant'.broad = (grant.broad \/ (command.approved /\ c.broad))
        /\ grant'.mounts = [m \in Mounts |->
              IF m \in c.removes THEN "no"
              ELSE IF ~ command.approved \/ c.adds[m] = "no" THEN grant.mounts[m]
              ELSE IF c.adds[m] = "any" THEN "rw" ELSE c.adds[m]]
    BY <1>1, <1>4, ExtendedFields DEF Consent
  <2>3. WithinRegistry'
    BY <1>1, <1>4, StartWithinRegistry DEF Relaunch, Consent
  <2>4. Consented'
    <3>1. event'.overrides # {} => p.flag /\ Profile[p.profile].broad
      BY <1>1, <1>4, OverrideNeedsBoth
    <3>2. event'.profile = event.profile
      BY <1>2, <2>1 DEF Logged
    <3>3. c.broad => command.approved
      BY <1>3 DEF NarrowingOnly
    <3>4. grant'.broad = (grant.broad \/ (command.approved /\ c.broad))
      BY <2>2
    <3> QED BY <1>2, <1>4, <3>1, <3>2, <3>3, <3>4 DEF Consent, Consented
  <2>5. NothingExtra'
    <3> SUFFICES ASSUME NEW m \in Mounts
                 PROVE  Level[event'.mounts[m]] <= Level[grant'.mounts[m]]
      BY DEF NothingExtra
    <3>1. event'.mounts[m] = ModeOf(m, p.specs[m])
      BY <2>1 DEF Logged
    <3>2. /\ event.mounts[m] \in Modes /\ grant.mounts[m] \in Modes
          /\ registry[m] \in Modes /\ c.adds[m] \in Specs
      BY <1>1 DEF Consent, TypeOK, Events, GrantStates, Changes
    <3>3. grant'.mounts[m] = IF m \in c.removes THEN "no"
                             ELSE IF ~ command.approved \/ c.adds[m] = "no"
                             THEN grant.mounts[m]
                             ELSE IF c.adds[m] = "any" THEN "rw" ELSE c.adds[m]
      BY <2>2
    <3>4. CASE m \in c.removes
      <4>1. c.adds[m] = "no"
        BY <3>4 DEF Consent, AddsNotRemoves
      <4>2. event'.mounts[m] = "no"
        BY <1>2, <3>1, <3>4, <4>1 DEF ModeOf
      <4> QED BY <3>3, <3>4, <4>2, LevelOrder
    <3>5. CASE m \notin c.removes /\ c.adds[m] = "no"
      <4>1. event'.mounts[m] = event.mounts[m]
        BY <1>2, <3>1, <3>2, <3>5 DEF ModeOf, Modes
      <4>2. grant'.mounts[m] = grant.mounts[m]
        BY <3>3, <3>5
      <4> QED BY <1>4, <4>1, <4>2 DEF Consent, NothingExtra
    <3>6. CASE m \notin c.removes /\ c.adds[m] # "no"
      <4>1. command.approved
        BY <1>3, <3>6 DEF NarrowingOnly, Asked
      <4>2. p.specs[m] = c.adds[m]
        BY <1>2, <3>6
      <4>3. CASE c.adds[m] = "any"
        BY <3>1, <3>2, <3>3, <3>6, <4>1, <4>2, <4>3, LevelOrder DEF ModeOf
      <4>4. CASE c.adds[m] # "any"
        <5>1. event'.mounts[m] = c.adds[m] /\ grant'.mounts[m] = c.adds[m]
          BY <3>1, <3>3, <3>6, <4>1, <4>2, <4>4 DEF ModeOf
        <5>2. c.adds[m] \in Modes
          BY <3>2, <4>4 DEF Specs
        <5> QED BY <5>1, <5>2, LevelOrder
      <4> QED BY <4>3, <4>4
    <3> QED BY <3>4, <3>5, <3>6
  <2> QED BY <2>3, <2>4, <2>5
<1>5. ASSUME Start(p), ~ grant.genuine, grant' = grant
      PROVE  Consented' /\ WithinRegistry' /\ NothingExtra'
  <2>1. event'.overrides # {} => Profile[p.profile].broad
    BY <1>1, <1>5, OverrideNeedsBoth
  <2>2. event'.profile = p.profile
    BY <1>5 DEF Start, Logged
  <2>3. WithinRegistry'
    BY <1>1, <1>5, StartWithinRegistry DEF Relaunch, Consent
  <2> QED BY <1>5, <2>1, <2>2, <2>3 DEF Consented, NothingExtra
<1>6. CASE UNCHANGED << event, cell, grant >>
  BY <1>6 DEF Relaunch, Consent, Consented, WithinRegistry, NothingExtra
<1> QED BY <1>4, <1>5, <1>6 DEF Relaunch, p

LEMMA InitConsent == Init => Consent
<1> SUFFICES ASSUME Init PROVE Consent
  OBVIOUS
<1>1. event.overrides = {} /\ event.mounts = NoMounts
  BY DEF Init
<1>2. NothingExtra
  BY <1>1, LevelOrder DEF Init, NoGrant, NoMounts, NothingExtra
<1>3. WithinRegistry
  <2> SUFFICES ASSUME NEW m \in Mounts
               PROVE  Level[event.mounts[m]] <= Level[registry[m]]
    BY DEF WithinRegistry
  <2>1. event.mounts[m] = "no" /\ registry[m] \in Modes
    BY <1>1, InitTypeOK DEF NoMounts, TypeOK
  <2> QED BY <2>1, LevelOrder
<1>4. UnapprovedNarrows /\ AddsNotRemoves
  BY DEF Init, NoCommand, NoChanges, UnapprovedNarrows, AddsNotRemoves
<1> QED BY <1>1, <1>2, <1>3, <1>4, InitTypeOK DEF Consent, Consented

LEMMA NextConsent == Consent /\ [Next]_vars => Consent'
<1> SUFFICES ASSUME Consent, [Next]_vars PROVE Consent'
  OBVIOUS
<1> USE DEF Consent
<1>0. TypeOK'
  BY NextTypeOK
<1>1. ASSUME NEW p \in Params, Launch(p) PROVE Consent'
  BY <1>0, <1>1, LaunchConsents DEF Launch, UnapprovedNarrows, AddsNotRemoves
<1>2. ASSUME NEW e \in Found, NEW allowMissing \in BOOLEAN,
              Wake(e, allowMissing) PROVE Consent'
  BY <1>0, <1>2, WakeConsents DEF Wake, UnapprovedNarrows, AddsNotRemoves
<1>3. ASSUME NEW c \in Changes, Adjust(c) PROVE Consent'
  BY <1>0, <1>3, BeginConsents DEF Adjust, Consented, WithinRegistry, NothingExtra
<1>4. ASSUME NEW c \in Changes, TakeRequest(c) PROVE Consent'
  BY <1>0, <1>4, BeginConsents DEF TakeRequest, Consented, WithinRegistry, NothingExtra
<1>5. CASE Approve
  <2>1. command'.approved /\ command'.changes = command.changes
    BY <1>5 DEF Approve, TypeOK, Adjustments
  <2> QED BY <1>0, <1>5, <2>1
          DEF Approve, Consented, WithinRegistry, NothingExtra, UnapprovedNarrows, AddsNotRemoves
<1>6. CASE Decline
  BY <1>0, <1>6, NoCommandConsents DEF Decline, Consented, WithinRegistry, NothingExtra
<1>7. CASE Stop
  <2>1. command'.approved = command.approved /\ command'.changes = command.changes
    BY <1>7 DEF Stop, TypeOK, Adjustments
  <2> QED BY <1>0, <1>7, <2>1
          DEF Stop, Consented, WithinRegistry, NothingExtra, UnapprovedNarrows, AddsNotRemoves
<1>8. CASE StopFails
  BY <1>0, <1>8, NoCommandConsents DEF StopFails, Consented, WithinRegistry, NothingExtra
<1>9. CASE Relaunch
  BY <1>0, <1>9, RelaunchConsents, NoCommandConsents DEF Relaunch
<1>10. ASSUME NEW idle \in BOOLEAN, End(idle) PROVE Consent'
  <2>1. /\ event'.overrides = event.overrides /\ event'.profile = event.profile
        /\ event'.mounts = event.mounts
    BY <1>10 DEF End, TypeOK, Events
  <2> QED BY <1>0, <1>10, <2>1
          DEF End, Consented, WithinRegistry, NothingExtra, UnapprovedNarrows, AddsNotRemoves
<1>11. CASE Tick
  <2>1. /\ grant'.broad = grant.broad /\ grant'.mounts = grant.mounts
        /\ grant'.genuine = grant.genuine
    BY <1>11 DEF Tick, TypeOK, GrantStates
  <2>2. /\ command'.step = command.step /\ command'.approved = command.approved
        /\ command'.changes = command.changes
    BY <1>11 DEF Tick, TypeOK, Adjustments
  <2> QED BY <1>0, <1>11, <2>1, <2>2
          DEF Tick, Consented, WithinRegistry, NothingExtra, UnapprovedNarrows, AddsNotRemoves
<1>12. ASSUME NEW m \in Mounts, NEW mode \in Modes \ {"no"}, Register(m, mode)
       PROVE Consent'
  <2>1. WithinRegistry'
    <3> SUFFICES ASSUME NEW n \in Mounts
                 PROVE  Level[event.mounts[n]] <= Level[registry'[n]]
      BY <1>12 DEF WithinRegistry, Register, Edit
    <3>1. Level[event.mounts[n]] <= Level[registry[n]]
      BY DEF WithinRegistry
    <3>2. \/ registry'[n] = registry[n]
          \/ registry[n] = "no" /\ registry'[n] \in Modes
      BY <1>12 DEF Register, TypeOK
    <3>3. event.mounts[n] \in Modes /\ registry[n] \in Modes
      BY DEF TypeOK, Events
    <3> QED BY <3>1, <3>2, <3>3, LevelOrder
  <2> QED BY <1>0, <1>12, <2>1
          DEF Register, Edit, Consented, NothingExtra, UnapprovedNarrows, AddsNotRemoves
<1>13. ASSUME NEW m \in Mounts, NEW state \in {"there", "gone", "link"},
              EditPath(m, state)
       PROVE Consent'
  BY <1>0, <1>13
     DEF EditPath, Edit, Consented, WithinRegistry, NothingExtra, UnapprovedNarrows, AddsNotRemoves
<1>14. CASE UNCHANGED vars
  BY <1>0, <1>14
     DEF vars, Consented, WithinRegistry, NothingExtra, UnapprovedNarrows, AddsNotRemoves
<1> QED BY <1>1, <1>2, <1>3, <1>4, <1>5, <1>6, <1>7, <1>8, <1>9, <1>10, <1>11,
           <1>12, <1>13, <1>14, Steps

\* A broad mount takes both gates along the whole chain: the profile's always, and
\* a flag or preset of the operator's as long as no wake in the chain went by a
\* record that a cell had emitted (wake.py asks none for its origin).
THEOREM OverridesAreConsented == Spec => []BroadIsConsented
<1>1. Init => Consent
  BY InitConsent
<1>2. Consent /\ [Next]_vars => Consent'
  BY NextConsent
<1>3. Consent => BroadIsConsented
  BY DEF Consent, Consented, BroadIsConsented
<1> QED BY <1>1, <1>2, <1>3, PTL DEF Spec

\* No chain of relaunches attaches a mount above its registered mode, whatever
\* records a cell emits; and none attaches one, or makes one writable, that the
\* operator did not name or has removed, unless a wake went by such a record.
THEOREM MountsAreGranted == Spec => []OnlyWhatWasGranted
<1>1. Init => Consent
  BY InitConsent
<1>2. Consent /\ [Next]_vars => Consent'
  BY NextConsent
<1>3. Consent => OnlyWhatWasGranted
  BY DEF Consent, WithinRegistry, NothingExtra, OnlyWhatWasGranted
<1> QED BY <1>1, <1>2, <1>3, PTL DEF Spec

-----------------------------------------------------------------------------
(* The budget.  What is left is computed when the change is approved and    *)
(* used after the stop; the invariant follows it in between.                *)

FitsBudget ==
  grant.genuine /\ event.limit # Unlimited =>
    event.limit - cell.elapsed <= grant.time

NotWaited == command.step \in {"none", "prompt"} => command.waited = 0

\* The most the next session may be given by what is left
Allowed ==
  Larger(grant.time + command.waited
           + (IF command.approved THEN command.changes.extend ELSE 0), Floor)

LeftFits ==
  command.step \in {"stop", "launch"} =>
    IF event.limit = Unlimited THEN command.left = Unlimited
    ELSE /\ Floor <= command.left
         /\ grant.genuine => command.left <= Allowed

\* A session without a limit has it from its profile, never from an override.
UnlimitedByProfile ==
  (cell.up \/ command.step # "none") /\ event.limit = Unlimited =>
    Profile[event.profile].limit = Unlimited

Budget == TypeOK /\ FitsBudget /\ NotWaited /\ LeftFits /\ UnlimitedByProfile

LEMMA BudgetTypes ==
  ASSUME TypeOK
  PROVE  /\ event.limit \in Nat /\ cell.elapsed \in Nat /\ grant.time \in Int
         /\ command.waited \in Nat /\ command.left \in Nat
         /\ command.changes \in Changes /\ command.changes.extend \in Nat
         /\ Floor \in Nat \ {0}
<1>1. command.changes \in Changes
  BY DEF TypeOK, Adjustments
<1>2. command.changes.extend \in Extensions \/ command.changes.extend = 0
  BY <1>1 DEF Changes, Unlimited
<1>3. \A d \in Extensions : d \in Nat
  BY GrantsConstants
<1>4. command.changes.extend \in Nat
  BY <1>2, <1>3
<1>5. Floor \in Nat \ {0}
  BY GrantsConstants
<1> QED BY <1>1, <1>4, <1>5 DEF TypeOK, Events, Cells, GrantStates, Adjustments

\* A launch begins with what it is given, and no time elapsed.
LEMMA StartLimit ==
  ASSUME NEW p, Start(p)
  PROVE  /\ event'.limit = LimitOf(p) /\ event'.profile = p.profile
         /\ cell'.elapsed = 0 /\ cell'.up
BY DEF Start, Logged, Unlogged

LEMMA NoCommandFits ==
  ASSUME command' = NoCommand
  PROVE  NotWaited' /\ LeftFits' /\ command'.step = "none"
BY DEF NoCommand, NotWaited, LeftFits

LEMMA BeginFits ==
  ASSUME Budget, cell.up, NEW who, NEW c \in Changes, Begin(who, c),
         UNCHANGED << event, cell, grant >>
  PROVE  NotWaited' /\ LeftFits'
<1>1. CASE command' = NoCommand
  BY <1>1, NoCommandFits
<1>2. CASE command' # NoCommand
  <2>1. /\ command'.step \in {"prompt", "stop"}
        /\ command'.changes = Effective(c)
        /\ command'.approved = FALSE /\ command'.waited = 0
        /\ command'.step = "stop" =>
              NarrowingOnly(Effective(c)) /\ command'.left = LeftOver(Effective(c))
    BY <1>2, BeginFields
  <2>2. NotWaited'
    BY <2>1 DEF NotWaited
  <2>3. LeftFits'
    <3>1. SUFFICES ASSUME command'.step = "stop" PROVE LeftFits'
      BY <2>1 DEF LeftFits
    <3>2. Effective(c).extend = 0 /\ command'.left = LeftOver(Effective(c))
      BY <2>1, <3>1 DEF NarrowingOnly, Unlimited
    <3>3. CASE event.limit = Unlimited
      BY <3>2, <3>3 DEF LeftFits, LeftOver
    <3>4. CASE event.limit # Unlimited
      <4>1. command'.left = Larger(event.limit - cell.elapsed + 0, Floor)
        BY <3>2, <3>4 DEF LeftOver
      <4>2. grant.genuine => event.limit - cell.elapsed <= grant.time
        BY <3>4 DEF Budget, FitsBudget
      <4>3. Allowed' = Larger(grant.time + 0 + 0, Floor)
        BY <2>1 DEF Allowed
      <4>4. Floor <= command'.left /\ (grant.genuine => command'.left <= Allowed')
        BY <4>1, <4>2, <4>3, BudgetTypes DEF Budget, Larger
      <4> QED BY <3>4, <4>4 DEF LeftFits
    <3> QED BY <3>3, <3>4
  <2> QED BY <2>2, <2>3
<1> QED BY <1>1, <1>2

LEMMA RelaunchFits ==
  ASSUME Budget, Relaunch
  PROVE  FitsBudget' /\ UnlimitedByProfile'
<1> DEFINE c == command.changes
           p == Applied(event, c, command.left)
<1>0. command'.step = "none"
  BY NoCommandFits DEF Relaunch
<1>1. c \in Changes
  BY BudgetTypes DEF Budget
<1>2. p.profile = event.profile /\ p.override = command.left
  BY DEF Applied, Reconstructed
<1>3. LeftFits /\ command.step = "launch"
  <2>1. command.step = "launch"
    BY DEF Relaunch
  <2> QED BY <2>1 DEF Budget
<1> HIDE DEF p
<1>4. ASSUME Start(p),
             grant' = IF grant.genuine THEN Extended(c, command.approved) ELSE grant
      PROVE  FitsBudget' /\ UnlimitedByProfile'
  <2>1. /\ event'.limit = LimitOf(p) /\ event'.profile = event.profile
        /\ cell'.elapsed = 0
    BY <1>2, <1>4, StartLimit
  <2>2. CASE event.limit = Unlimited
    <3>1. event'.limit = Profile[event.profile].limit
      BY <1>2, <1>3, <2>1, <2>2 DEF LeftFits, LimitOf
    <3>2. event'.limit = Unlimited
      BY <1>3, <2>2, <3>1 DEF Budget, UnlimitedByProfile
    <3> QED BY <2>1, <3>1, <3>2 DEF FitsBudget, UnlimitedByProfile
  <2>3. CASE event.limit # Unlimited
    <3>1. Floor <= command.left /\ (grant.genuine => command.left <= Allowed)
      BY <1>3, <2>3 DEF LeftFits
    <3>2. event'.limit = command.left /\ event'.limit # Unlimited
      BY <1>2, <2>1, <3>1, BudgetTypes DEF LimitOf, Unlimited, Budget
    <3>3. /\ grant'.genuine = grant.genuine
          /\ grant.genuine => grant'.time = Allowed
      BY <1>1, <1>4, <2>3, ExtendedFields DEF Allowed, Budget
    <3>4. grant'.genuine => event'.limit - cell'.elapsed <= grant'.time
      BY <2>1, <3>1, <3>2, <3>3, BudgetTypes DEF Budget
    <3> QED BY <3>2, <3>4 DEF FitsBudget, UnlimitedByProfile
  <2> QED BY <2>2, <2>3
<1>5. CASE UNCHANGED << event, cell, grant >>
  BY <1>0, <1>3, <1>5 DEF Budget, FitsBudget, UnlimitedByProfile
<1> QED BY <1>4, <1>5 DEF Relaunch, p

LEMMA TickFits ==
  ASSUME Budget, Tick
  PROVE  FitsBudget' /\ NotWaited' /\ LeftFits' /\ UnlimitedByProfile'
<1>1. /\ cell'.elapsed = cell.elapsed + 1 /\ cell'.up = cell.up
      /\ grant'.genuine = grant.genuine
      /\ grant.genuine => grant'.time = grant.time - 1
      /\ UNCHANGED event
  BY DEF Tick, Budget, TypeOK, Cells, GrantStates
<1>2. /\ command'.step = command.step /\ command'.left = command.left
      /\ command'.approved = command.approved
      /\ command'.changes = command.changes
      /\ command'.waited = IF command.step \in {"stop", "launch"}
                           THEN command.waited + 1 ELSE command.waited
  BY DEF Tick, Budget, TypeOK, Adjustments
<1>3. FitsBudget'
  BY <1>1, BudgetTypes DEF Budget, FitsBudget
<1>4. NotWaited' /\ UnlimitedByProfile'
  BY <1>1, <1>2 DEF Budget, NotWaited, UnlimitedByProfile
<1>5. LeftFits'
  <2>1. SUFFICES ASSUME command.step \in {"stop", "launch"} PROVE LeftFits'
    BY <1>2 DEF LeftFits
  <2>2. grant.genuine =>
          grant'.time + command'.waited = grant.time + command.waited
    BY <1>1, <1>2, <2>1, BudgetTypes DEF Budget
  <2>3. grant.genuine => Allowed' = Allowed
    BY <1>2, <2>2 DEF Allowed
  <2> QED BY <1>1, <1>2, <2>1, <2>3 DEF Budget, LeftFits
<1> QED BY <1>3, <1>4, <1>5

LEMMA InitBudget == Init => Budget
<1> SUFFICES ASSUME Init PROVE Budget
  OBVIOUS
<1>1. event.limit = Unlimited /\ ~ cell.up /\ command = NoCommand
  BY DEF Init
<1> QED BY <1>1, InitTypeOK
        DEF Budget, FitsBudget, NotWaited, LeftFits, UnlimitedByProfile, NoCommand

LEMMA NextBudget == Budget /\ [Next]_vars => Budget'
<1> SUFFICES ASSUME Budget, [Next]_vars PROVE Budget'
  OBVIOUS
<1> USE DEF Budget
<1>0. TypeOK'
  BY NextTypeOK
<1>1. ASSUME NEW p \in Params, p.override = Unlimited, Launch(p) PROVE Budget'
  <2>1. /\ event'.limit = Profile[p.profile].limit /\ event'.profile = p.profile
        /\ cell'.elapsed = 0
    BY <1>1, StartLimit DEF Launch, LimitOf
  <2>2. grant'.time = Profile[p.profile].limit
    BY <1>1 DEF Launch, Granted
  <2>3. event'.limit \in Nat
    BY <1>0 DEF TypeOK, Events
  <2>4. FitsBudget' /\ UnlimitedByProfile'
    BY <2>1, <2>2, <2>3 DEF FitsBudget, UnlimitedByProfile
  <2> QED BY <1>0, <1>1, <2>4 DEF Launch, NotWaited, LeftFits
<1>2. ASSUME NEW e \in Found, NEW allowMissing \in BOOLEAN,
              Wake(e, allowMissing) PROVE Budget'
  <2>1. PICK drop : Start(Reconstructed(e, drop))
    BY <1>2 DEF Wake
  <2> DEFINE p == Reconstructed(e, drop)
  <2>2. p.profile = e.profile /\ p.override = Unlimited
    BY DEF Reconstructed
  <2> HIDE DEF p
  <2>3. /\ event'.limit = Profile[e.profile].limit
        /\ event'.profile = e.profile /\ cell'.elapsed = 0
    BY <2>1, <2>2, StartLimit DEF LimitOf, p
  <2>4. grant'.genuine => grant'.time = Profile[e.profile].limit
    BY <1>2, GrantConstantsTypes DEF Wake, TypeOK, GrantStates
  <2>5. event'.limit \in Nat
    BY <1>0 DEF TypeOK, Events
  <2>6. FitsBudget' /\ UnlimitedByProfile'
    BY <2>3, <2>4, <2>5 DEF FitsBudget, UnlimitedByProfile
  <2> QED BY <1>0, <1>2, <2>6 DEF Wake, NotWaited, LeftFits
<1>3. ASSUME NEW c \in Changes, Adjust(c) PROVE Budget'
  <2>1. NotWaited' /\ LeftFits'
    BY <1>3, BeginFits DEF Adjust
  <2> QED BY <1>0, <1>3, <2>1 DEF Adjust, FitsBudget, UnlimitedByProfile
<1>4. ASSUME NEW c \in Changes, TakeRequest(c) PROVE Budget'
  <2>1. NotWaited' /\ LeftFits'
    BY <1>4, BeginFits DEF TakeRequest
  <2> QED BY <1>0, <1>4, <2>1 DEF TakeRequest, FitsBudget, UnlimitedByProfile
<1>5. CASE Approve
  <2>1. /\ command'.step = "stop" /\ command'.approved
        /\ command'.left = LeftOver(command.changes)
        /\ command'.changes = command.changes /\ command'.waited = 0
        /\ command.step = "prompt" /\ UNCHANGED << event, cell, grant >>
    BY <1>5 DEF Approve, TypeOK, Adjustments, NotWaited
  <2>2. LeftFits'
    <3>1. CASE event.limit = Unlimited
      BY <2>1, <3>1 DEF LeftFits, LeftOver
    <3>2. CASE event.limit # Unlimited
      <4>1. command'.left = Larger(event.limit - cell.elapsed + command.changes.extend,
                                   Floor)
        BY <2>1, <3>2 DEF LeftOver
      <4>2. Allowed' = Larger(grant.time + 0 + command.changes.extend, Floor)
        BY <2>1 DEF Allowed
      <4>3. grant.genuine => event.limit - cell.elapsed <= grant.time
        BY <3>2 DEF FitsBudget
      <4>4. Floor <= command'.left /\ (grant.genuine => command'.left <= Allowed')
        BY <4>1, <4>2, <4>3, BudgetTypes DEF Larger
      <4> QED BY <2>1, <3>2, <4>4 DEF LeftFits
    <3> QED BY <3>1, <3>2
  <2> QED BY <1>0, <2>1, <2>2 DEF FitsBudget, NotWaited, UnlimitedByProfile
<1>6. CASE Decline
  BY <1>0, <1>6, NoCommandFits DEF Decline, FitsBudget, UnlimitedByProfile
<1>7. CASE Stop
  <2>1. /\ command'.step = "launch" /\ command.step = "stop"
        /\ command'.left = command.left /\ command'.approved = command.approved
        /\ command'.changes = command.changes /\ command'.waited = command.waited
    BY <1>7 DEF Stop, TypeOK, Adjustments
  <2>2. cell'.elapsed = cell.elapsed /\ UNCHANGED << event, grant >>
    BY <1>7 DEF Stop, TypeOK, Cells
  <2>3. Allowed' = Allowed
    BY <2>1, <2>2 DEF Allowed
  <2> QED BY <1>0, <2>1, <2>2, <2>3
          DEF FitsBudget, NotWaited, LeftFits, UnlimitedByProfile
<1>8. CASE StopFails
  BY <1>0, <1>8, NoCommandFits DEF StopFails, FitsBudget, UnlimitedByProfile
<1>9. CASE Relaunch
  BY <1>0, <1>9, RelaunchFits, NoCommandFits DEF Relaunch
<1>10. ASSUME NEW idle \in BOOLEAN, End(idle) PROVE Budget'
  <2>1. /\ event'.limit = event.limit /\ event'.profile = event.profile
        /\ cell'.elapsed = cell.elapsed /\ cell.up
        /\ UNCHANGED << command, grant >>
    BY <1>10 DEF End, TypeOK, Events, Cells
  <2>2. Allowed' = Allowed
    BY <2>1 DEF Allowed
  <2> QED BY <1>0, <2>1, <2>2
          DEF FitsBudget, NotWaited, LeftFits, UnlimitedByProfile
<1>11. CASE Tick
  BY <1>0, <1>11, TickFits
<1>12. CASE UNCHANGED << event, cell, command, grant >>
  BY <1>0, <1>12
     DEF FitsBudget, NotWaited, LeftFits, Allowed, UnlimitedByProfile
<1> QED BY <1>1, <1>2, <1>3, <1>4, <1>5, <1>6, <1>7, <1>8, <1>9, <1>10, <1>11,
           <1>12, Steps DEF Register, EditPath, Edit, vars

\* However often a session is adjusted or woken from its own record, its deadline
\* is that of its last launch or wake, moved by approved extensions, the time of
\* the stops, and the floor.
THEOREM DeadlineIsGranted == Spec => []WithinBudget
<1>1. Init => Budget
  BY InitBudget
<1>2. Budget /\ [Next]_vars => Budget'
  BY NextBudget
<1>3. Budget => WithinBudget
  BY DEF Budget, FitsBudget, WithinBudget
<1> QED BY <1>1, <1>2, <1>3, PTL DEF Spec

-----------------------------------------------------------------------------
(* The request channel.  A request is checked against the registry while    *)
(* the session runs and its launch is checked against the registry again:   *)
(* the invariant says what both checks have seen if nothing was edited.     *)

StoppedFirst == command.step = "launch" => ~ cell.up

EditsInOrder ==
  /\ cell.edits <= edits
  /\ command.step # "none" =>
       cell.edits <= command.seen /\ command.seen <= edits

RequestChecked ==
  command.step # "none" /\ command.by = "agent" /\ command.seen = edits =>
    \A m \in Asked(command.changes.adds) :
      Resolves(m, "any") /\ Safe(m, event.profile, FALSE)

\* A relaunch or a wake may still be made from its record.
Resumable == cell.up \/ command.step # "none" \/ event.idle

MountsStillPass ==
  Resumable /\ cell.edits = edits =>
    \A m \in Asked(event.mounts) :
      /\ Resolves(m, event.mounts[m])
      /\ Safe(m, event.profile, event.overrides # {})

HarnessStillPasses ==
  Resumable => /\ HasHome \/ event.ephemeral
               /\ cell.network \in {"mediated", "hybrid"} => HasSecret

Channel ==
  /\ TypeOK /\ StoppedFirst /\ EditsInOrder /\ RequestChecked
  /\ MountsStillPass /\ HarnessStillPasses

\* What a running session has passed, it would pass again.
LEMMA MountsKept ==
  ASSUME MountsStillPass, Resumable' => Resumable, cell'.edits = cell.edits,
         event'.mounts = event.mounts, event'.profile = event.profile,
         event'.overrides = event.overrides,
         UNCHANGED << registry, paths, edits >>
  PROVE  MountsStillPass'
<1> SUFFICES ASSUME Resumable', cell'.edits = edits',
                    NEW m \in Asked(event'.mounts)
             PROVE  /\ Resolves(m, event.mounts[m])'
                    /\ Safe(m, event.profile, event.overrides # {})'
  BY DEF MountsStillPass, Asked
<1>1. /\ Resolves(m, event.mounts[m])
      /\ Safe(m, event.profile, event.overrides # {})
  BY DEF MountsStillPass, Asked
<1> QED BY <1>1 DEF Resolves, Safe, NeedsOverride, BroadFolder, RegisteredInside,
                    HardBlocked

\* What has been said of a request stays true while it is carried out.
LEMMA RequestKept ==
  ASSUME RequestChecked, event'.profile = event.profile,
         command'.step # "none" => command.step # "none",
         command'.by = command.by, command'.changes = command.changes,
         command'.seen = command.seen,
         UNCHANGED << registry, paths, edits >>
  PROVE  RequestChecked'
<1> SUFFICES ASSUME command'.step # "none", command'.by = "agent",
                    command'.seen = edits',
                    NEW m \in Asked(command'.changes.adds)
             PROVE  Resolves(m, "any")' /\ Safe(m, event.profile, FALSE)'
  BY DEF RequestChecked, Asked
<1>1. Resolves(m, "any") /\ Safe(m, event.profile, FALSE)
  BY DEF RequestChecked, Asked
<1> QED BY <1>1 DEF Resolves, Safe, NeedsOverride, BroadFolder, RegisteredInside,
                    HardBlocked

\* No more is needed for a flag than for none, nor for an override by another.
LEMMA SafeWithFlag ==
  ASSUME NEW m, NEW profile, NEW flag \in BOOLEAN, Safe(m, profile, FALSE)
  PROVE  Safe(m, profile, flag) /\ ~ NeedsOverride(m)
BY DEF Safe

LEMMA NoCommandAsksNothing ==
  ASSUME command' = NoCommand
  PROVE  command'.step = "none" /\ StoppedFirst' /\ RequestChecked'
BY DEF NoCommand, StoppedFirst, RequestChecked

\* A session that has just been launched would pass again.
LEMMA StartPasses ==
  ASSUME TypeOK, NEW p \in Params, Start(p), command'.step = "none",
         UNCHANGED << registry, paths, edits >>
  PROVE  MountsStillPass' /\ HarnessStillPasses' /\ EditsInOrder'
<1>1. event' = Logged(p) /\ cell' = Unlogged(p) /\ Admitted(p)
  BY DEF Start
<1>2. MountsStillPass'
  <2> SUFFICES ASSUME NEW m \in Mounts, event'.mounts[m] # "no"
               PROVE  /\ Resolves(m, event.mounts[m])'
                      /\ Safe(m, event.profile, event.overrides # {})'
    BY DEF MountsStillPass, Asked
  <2>1. event'.mounts[m] = ModeOf(m, p.specs[m]) /\ event'.profile = p.profile
    BY <1>1 DEF Logged
  <2>2. registry[m] \in Modes /\ p.specs[m] \in Specs
    BY DEF TypeOK, Params
  <2>3. p.specs[m] # "no"
    BY <2>1 DEF ModeOf
  <2>4. Resolves(m, p.specs[m]) /\ Safe(m, p.profile, p.flag)
    BY <1>1, <2>3 DEF Admitted, Asked
  <2>5. Resolves(m, event'.mounts[m])
    BY <2>1, <2>2, <2>4 DEF Resolves, ModeOf, Modes
  <2>6. NeedsOverride(m) => event'.overrides # {}
    BY <1>1, <2>3 DEF Logged, Asked
  <2>7. Safe(m, event'.profile, event'.overrides # {})
    BY <2>1, <2>4, <2>6 DEF Safe
  <2> QED BY <2>5, <2>7 DEF Resolves, Safe, NeedsOverride, BroadFolder,
                            RegisteredInside, HardBlocked
<1>3. HarnessStillPasses'
  <2>1. event'.ephemeral = p.ephemeral /\ cell'.network = NetworkOf(p)
    BY <1>1 DEF Logged, Unlogged
  <2> QED BY <1>1, <2>1 DEF Admitted, Preflight, HasCredential, HarnessStillPasses
<1>4. EditsInOrder'
  <2>1. cell'.edits = edits
    BY <1>1 DEF Unlogged
  <2> QED BY <2>1 DEF EditsInOrder, TypeOK
<1> QED BY <1>2, <1>3, <1>4

LEMMA BeginChecks ==
  ASSUME Channel, cell.up, NEW who, NEW c \in Changes, Begin(who, c),
         who = "agent" => Valid(c),
         UNCHANGED << registry, paths, event, cell, edits >>
  PROVE  /\ StoppedFirst' /\ EditsInOrder' /\ RequestChecked'
         /\ MountsStillPass' /\ HarnessStillPasses'
<1>1. MountsStillPass' /\ HarnessStillPasses'
  BY MountsKept DEF Channel, HarnessStillPasses, Resumable
<1>2. CASE command' = NoCommand
  BY <1>1, <1>2, NoCommandAsksNothing DEF Channel, EditsInOrder
<1>3. CASE command' # NoCommand
  <2>1. /\ command'.step \in {"prompt", "stop"} /\ command'.by = who
        /\ command'.changes = Effective(c) /\ command'.seen = edits
    BY <1>3, BeginFields
  <2>2. StoppedFirst' /\ EditsInOrder'
    BY <2>1 DEF StoppedFirst, EditsInOrder, Channel, TypeOK
  <2>3. RequestChecked'
    <3>1. SUFFICES ASSUME who = "agent", NEW m \in Mounts,
                          Effective(c).adds[m] # "no"
                   PROVE  Resolves(m, "any")' /\ Safe(m, event.profile, FALSE)'
      BY <2>1 DEF RequestChecked, Asked
    <3>2. Effective(c).adds = [n \in Mounts |->
               IF event.mounts[n] # "no" THEN "no" ELSE c.adds[n]]
      BY EffectiveFields
    <3>3. c.adds[m] # "no"
      BY <3>1, <3>2
    <3>4. Resolves(m, "any") /\ Safe(m, event.profile, FALSE)
      BY <3>1, <3>3 DEF Valid, RequestFlag, Asked
    <3> QED BY <3>4 DEF Resolves, Safe, NeedsOverride, BroadFolder,
                        RegisteredInside, HardBlocked
  <2> QED BY <1>1, <2>2, <2>3
<1> QED BY <1>2, <1>3

LEMMA InitChannel == Init => Channel
<1> SUFFICES ASSUME Init PROVE Channel
  OBVIOUS
<1>1. /\ ~ cell.up /\ command.step = "none" /\ ~ event.idle
      /\ cell.edits = 0 /\ edits = 0
  BY DEF Init, NoCommand
<1> QED BY <1>1, InitTypeOK
        DEF Channel, StoppedFirst, EditsInOrder, RequestChecked, Resumable,
            MountsStillPass, HarnessStillPasses

LEMMA NextChannel == Channel /\ [Next]_vars => Channel'
<1> SUFFICES ASSUME Channel, [Next]_vars PROVE Channel'
  OBVIOUS
<1> USE DEF Channel
<1>0. TypeOK'
  BY NextTypeOK
<1>1. ASSUME NEW p \in Params, Launch(p) PROVE Channel'
  <2>1. MountsStillPass' /\ HarnessStillPasses' /\ EditsInOrder'
    BY <1>1, StartPasses DEF Launch
  <2> QED BY <1>0, <1>1, <2>1 DEF Launch, StoppedFirst, RequestChecked
<1>2. ASSUME NEW e \in Found, NEW allowMissing \in BOOLEAN,
              Wake(e, allowMissing) PROVE Channel'
  <2>1. PICK drop : Start(Reconstructed(e, drop))
    BY <1>2 DEF Wake
  <2>2. MountsStillPass' /\ HarnessStillPasses' /\ EditsInOrder'
    BY <1>2, <2>1, StartPasses, FoundType, ReconstructedType DEF Wake
  <2> QED BY <1>0, <1>2, <2>2 DEF Wake, StoppedFirst, RequestChecked
<1>3. ASSUME NEW c \in Changes, Adjust(c) PROVE Channel'
  BY <1>0, <1>3, BeginChecks DEF Adjust
<1>4. ASSUME NEW c \in Changes, TakeRequest(c) PROVE Channel'
  BY <1>0, <1>4, BeginChecks DEF TakeRequest
<1>5. CASE Approve
  <2>1. /\ command.step = "prompt" /\ command'.step = "stop"
        /\ command'.by = command.by /\ command'.changes = command.changes
        /\ command'.seen = command.seen
        /\ UNCHANGED << registry, paths, event, cell, edits >>
    BY <1>5 DEF Approve, TypeOK, Adjustments
  <2> QED BY <1>0, <2>1, MountsKept, RequestKept
          DEF StoppedFirst, EditsInOrder, Resumable, HarnessStillPasses
<1>6. CASE Decline
  BY <1>0, <1>6, NoCommandAsksNothing, MountsKept
     DEF Decline, EditsInOrder, Resumable, HarnessStillPasses
<1>7. CASE Stop
  <2>1. /\ command.step = "stop" /\ command'.step = "launch"
        /\ command'.by = command.by /\ command'.changes = command.changes
        /\ command'.seen = command.seen
        /\ UNCHANGED << registry, paths, event, edits >>
    BY <1>7 DEF Stop, TypeOK, Adjustments
  <2>2. cell'.up = FALSE /\ cell'.edits = cell.edits /\ cell'.network = cell.network
    BY <1>7 DEF Stop, TypeOK, Cells
  <2> QED BY <1>0, <2>1, <2>2, MountsKept, RequestKept
          DEF StoppedFirst, EditsInOrder, Resumable, HarnessStillPasses
<1>8. CASE StopFails
  BY <1>0, <1>8, NoCommandAsksNothing, MountsKept
     DEF StopFails, EditsInOrder, Resumable, HarnessStillPasses
<1>9. CASE Relaunch
  <2> DEFINE p == Applied(event, command.changes, command.left)
  <2>1. p \in Params
    BY AppliedType DEF TypeOK, Adjustments
  <2>2. command'.step = "none" /\ StoppedFirst' /\ RequestChecked'
    BY <1>9, NoCommandAsksNothing DEF Relaunch
  <2> HIDE DEF p
  <2>3. CASE Start(p)
    BY <1>0, <1>9, <2>1, <2>2, <2>3, StartPasses DEF Relaunch
  <2>4. CASE UNCHANGED << event, cell >>
    <3>1. Resumable /\ UNCHANGED << registry, paths, edits >>
      BY <1>9 DEF Relaunch, Resumable
    <3>2. MountsStillPass'
      BY <2>4, <3>1, MountsKept
    <3> QED BY <1>0, <2>2, <2>4, <3>1, <3>2 DEF EditsInOrder, HarnessStillPasses
  <2> QED BY <1>9, <2>3, <2>4 DEF Relaunch, p
<1>10. ASSUME NEW idle \in BOOLEAN, End(idle) PROVE Channel'
  <2>1. /\ event'.mounts = event.mounts /\ event'.profile = event.profile
        /\ event'.overrides = event.overrides
        /\ event'.ephemeral = event.ephemeral
        /\ cell.up
        /\ cell'.edits = cell.edits /\ cell'.network = cell.network
        /\ UNCHANGED << registry, paths, command, edits >>
    BY <1>10 DEF End, TypeOK, Events, Cells
  <2> QED BY <1>0, <2>1, MountsKept, RequestKept
          DEF StoppedFirst, EditsInOrder, Resumable, HarnessStillPasses
<1>11. CASE Tick
  <2>1. /\ command'.step = command.step /\ command'.by = command.by
        /\ command'.changes = command.changes /\ command'.seen = command.seen
        /\ UNCHANGED << registry, paths, event, edits >>
    BY <1>11 DEF Tick, TypeOK, Adjustments
  <2>2. cell'.up = cell.up /\ cell'.edits = cell.edits /\ cell'.network = cell.network
    BY <1>11 DEF Tick, TypeOK, Cells
  <2> QED BY <1>0, <2>1, <2>2, MountsKept, RequestKept
          DEF StoppedFirst, EditsInOrder, Resumable, HarnessStillPasses
<1>12. CASE Edit
  <2>1. edits' = edits + 1 /\ UNCHANGED << event, cell, command >>
    BY <1>12 DEF Edit
  <2>2. edits \in Nat /\ cell.edits \in Nat /\ command.seen \in Nat
    BY DEF TypeOK, Cells, Adjustments
  <2>3. cell'.edits # edits' /\ (command'.step # "none" => command'.seen # edits')
    BY <2>1, <2>2 DEF EditsInOrder
  <2>4. EditsInOrder'
    BY <2>1, <2>2 DEF EditsInOrder
  <2> QED BY <1>0, <2>1, <2>3, <2>4
          DEF StoppedFirst, RequestChecked, Resumable, MountsStillPass,
              HarnessStillPasses
<1>13. CASE UNCHANGED vars
  BY <1>0, <1>13, MountsKept, RequestKept
     DEF vars, StoppedFirst, EditsInOrder, Resumable, HarnessStillPasses
<1> QED BY <1>1, <1>2, <1>3, <1>4, <1>5, <1>6, <1>7, <1>8, <1>9, <1>10, <1>11,
           <1>12, <1>13, Steps DEF Register, EditPath

\* Only Relaunch takes a command from its launch to its end.
LEMMA RelaunchedIsRelaunch ==
  ASSUME TypeOK, [Next]_vars, Relaunched
  PROVE  Relaunch
<1> USE DEF Relaunched
<1>1. ASSUME NEW p \in Params, Launch(p) PROVE FALSE
  BY <1>1 DEF Launch
<1>2. ASSUME NEW e \in Found, NEW allowMissing \in BOOLEAN,
              Wake(e, allowMissing) PROVE FALSE
  BY <1>2 DEF Wake
<1>3. ASSUME NEW c \in Changes, Adjust(c) \/ TakeRequest(c) PROVE FALSE
  BY <1>3 DEF Adjust, TakeRequest
<1>4. CASE Approve \/ Decline \/ Stop \/ StopFails
  BY <1>4 DEF Approve, Decline, Stop, StopFails
<1>5. CASE Tick
  BY <1>5 DEF Tick, TypeOK, Adjustments
<1>6. CASE UNCHANGED command
  BY <1>6
<1> QED BY <1>1, <1>2, <1>3, <1>4, <1>5, <1>6, Steps
        DEF End, Register, EditPath, Edit, vars

\* An agent's request never brings a broad mount in, unless the registry or a
\* path changed between its check and the relaunch.
THEOREM AgentsAddNothingBroad == Spec => AgentAddsNothingBroad
<1> DEFINE Added == Relaunched /\ cell'.up /\ command.by = "agent"
                      /\ command.seen = edits =>
                    event'.overrides \cap Asked(command.changes.adds) = {}
<1>1. Init => Channel
  BY InitChannel
<1>2. Channel /\ [Next]_vars => Channel'
  BY NextChannel
<1>3. Channel /\ [Next]_vars => [Added]_vars
  <2> SUFFICES ASSUME Channel, [Next]_vars, Relaunched, cell'.up,
                      command.by = "agent", command.seen = edits,
                      NEW m \in Asked(command.changes.adds)
               PROVE  m \notin event'.overrides
    BY DEF Asked
  <2>1. Relaunch /\ command.step = "launch"
    BY RelaunchedIsRelaunch DEF Channel, Relaunched
  <2>2. ~ cell.up
    BY <2>1 DEF Channel, StoppedFirst
  <2>3. Start(Applied(event, command.changes, command.left))
    BY <2>1, <2>2 DEF Relaunch
  <2>4. ~ NeedsOverride(m)
    BY <2>1, SafeWithFlag DEF Channel, RequestChecked, Safe
  <2> QED BY <2>3, <2>4 DEF Start, Logged
<1> QED BY <1>1, <1>2, <1>3, PTL DEF Spec, AgentAddsNothingBroad

\* A request that passed its check does not cost the session: the relaunch
\* passes every gate, if nothing was edited and no more than the registered mode
\* was asked for.
THEOREM ValidRequestsRelaunch == Spec => ValidRequestRelaunches
<1> DEFINE Passes ==
      /\ Relaunched /\ command.by = "agent" /\ cell.edits = edits
      /\ cell.network = Profile[event.profile].network
      /\ \A m \in Mounts : ~ (registry[m] = "ro" /\ command.changes.adds[m] = "rw")
      => cell'.up
<1>1. Init => Channel
  BY InitChannel
<1>2. Channel /\ [Next]_vars => Channel'
  BY NextChannel
<1>3. Channel /\ [Next]_vars => [Passes]_vars
  <2> SUFFICES ASSUME Channel, [Next]_vars, Relaunched, command.by = "agent",
                      cell.edits = edits,
                      cell.network = Profile[event.profile].network,
                      \A m \in Mounts :
                        ~ (registry[m] = "ro" /\ command.changes.adds[m] = "rw")
               PROVE  cell'.up
    OBVIOUS
  <2> DEFINE c == command.changes
             p == Applied(event, c, command.left)
  <2>1. Relaunch /\ command.step = "launch"
    BY RelaunchedIsRelaunch DEF Channel, Relaunched
  <2>2. c \in Changes
    BY DEF Channel, TypeOK, Adjustments
  <2>3. command.seen = edits
    BY <2>1 DEF Channel, EditsInOrder, TypeOK, Cells, Adjustments
  <2>4. /\ p.profile = event.profile /\ p.handling = "profile"
        /\ p.ephemeral = event.ephemeral
        /\ p.flag <=> (event.overrides # {} \/ c.broad)
        /\ p.specs = [m \in Mounts |->
              IF c.adds[m] # "no" THEN c.adds[m]
              ELSE IF m \in c.removes THEN "no" ELSE event.mounts[m]]
    BY <2>2, AppliedFields
  <2> HIDE DEF p
  <2>5. Preflight(p) /\ HasCredential(p)
    <3>1. /\ HasHome \/ event.ephemeral
          /\ cell.network \in {"mediated", "hybrid"} => HasSecret
      BY <2>1 DEF Channel, HarnessStillPasses, Resumable
    <3> QED BY <2>4, <3>1 DEF Preflight, HasCredential, NetworkOf
  <2>6. ASSUME NEW m \in Asked(p.specs)
        PROVE  Resolves(m, p.specs[m]) /\ Safe(m, p.profile, p.flag)
    <3>1. m \in Mounts /\ p.specs[m] # "no"
      BY DEF Asked
    <3>2. CASE c.adds[m] # "no"
      <4>1. Resolves(m, "any") /\ Safe(m, event.profile, FALSE)
        BY <2>1, <2>3, <3>1, <3>2 DEF Channel, RequestChecked, Asked
      <4>2. p.specs[m] = c.adds[m]
        BY <2>4, <3>1, <3>2
      <4> QED BY <2>4, <3>1, <4>1, <4>2 DEF Resolves, Safe
    <3>3. CASE c.adds[m] = "no"
      <4>1. p.specs[m] = event.mounts[m] /\ event.mounts[m] # "no"
        BY <2>4, <3>1, <3>3
      <4>2. /\ Resolves(m, event.mounts[m])
            /\ Safe(m, event.profile, event.overrides # {})
        BY <2>1, <3>1, <4>1 DEF Channel, MountsStillPass, Resumable, Asked
      <4> QED BY <2>4, <4>1, <4>2 DEF Safe
    <3> QED BY <3>2, <3>3
  <2>7. Admitted(p)
    BY <2>5, <2>6 DEF Admitted
  <2>8. Start(p)
    BY <2>1, <2>7 DEF Relaunch, p
  <2> QED BY <2>8, StartLimit
<1> QED BY <1>1, <1>2, <1>3, PTL DEF Spec, ValidRequestRelaunches

\* The host's record of a session that ended idle is all that waking it takes: if
\* nothing was edited and a wake goes by that record, every gate it passed it
\* passes again.
THEOREM UneditedSessionsAlwaysWake == Spec => []UneditedSessionsWake
<1>1. Init => Channel
  BY InitChannel
<1>2. Channel /\ [Next]_vars => Channel'
  BY NextChannel
<1>3. Channel => UneditedSessionsWake
  <2> SUFFICES ASSUME Channel, event \in Found, cell.edits = edits,
                      cell.network = Profile[event.profile].network
               PROVE  MissingNames(event) = {} /\ Admitted(Reconstructed(event, {}))
    BY DEF UneditedSessionsWake
  <2> DEFINE p == Reconstructed(event, {})
  <2>1. Resumable
    BY FoundType DEF Resumable, Channel
  <2>2. /\ p.profile = event.profile /\ p.handling = "profile"
        /\ p.ephemeral = event.ephemeral /\ p.flag = (event.overrides # {})
        /\ \A m \in Mounts : p.specs[m] = event.mounts[m]
    BY DEF Reconstructed, CarriedSpecs, CarriedFlag
  <2> HIDE DEF p
  <2>3. \A m \in Asked(event.mounts) :
          /\ Resolves(m, event.mounts[m])
          /\ Safe(m, event.profile, event.overrides # {})
    BY <2>1 DEF Channel, MountsStillPass
  <2>4. MissingNames(event) = {}
    BY <2>3 DEF MissingNames, MissingPaths, Safe
  <2>5. Preflight(p) /\ HasCredential(p)
    BY <2>1, <2>2 DEF Channel, HarnessStillPasses, Preflight, HasCredential, NetworkOf
  <2>6. \A m \in Asked(p.specs) : Resolves(m, p.specs[m]) /\ Safe(m, p.profile, p.flag)
    BY <2>2, <2>3 DEF Asked
  <2> QED BY <2>4, <2>5, <2>6 DEF Admitted, p
<1> QED BY <1>1, <1>2, <1>3, PTL DEF Spec

-----------------------------------------------------------------------------
(* What an unprompted change may do.  The invariant follows the time that   *)
(* is left exactly, from the moment it is computed to the relaunch.         *)

LeftIsExact ==
  command.step \in {"stop", "launch"} /\ event.limit # Unlimited =>
    command.left = Larger(event.limit - cell.elapsed + command.waited
                            + command.changes.extend, Floor)

Narrow == Consent /\ Budget /\ LeftIsExact

LEMMA BeginIsExact ==
  ASSUME TypeOK, NEW who, NEW c \in Changes, Begin(who, c),
         UNCHANGED << event, cell >>
  PROVE  LeftIsExact'
<1> SUFFICES ASSUME command'.step \in {"stop", "launch"}, event.limit # Unlimited
             PROVE  command'.left = Larger(event.limit - cell.elapsed + command'.waited
                                             + command'.changes.extend, Floor)
  BY DEF LeftIsExact
<1>1. command' # NoCommand
  BY DEF NoCommand
<1>2. /\ command'.changes = Effective(c) /\ command'.waited = 0
      /\ NarrowingOnly(Effective(c)) /\ command'.left = LeftOver(Effective(c))
  BY <1>1, BeginFields
<1>3. command'.changes.extend = 0
  BY <1>2 DEF NarrowingOnly, Unlimited
<1>4. event.limit - cell.elapsed + 0 + 0 = event.limit - cell.elapsed + 0
  BY BudgetTypes
<1> QED BY <1>2, <1>3, <1>4 DEF LeftOver

LEMMA NextIsExact ==
  ASSUME Budget, LeftIsExact, [Next]_vars
  PROVE  LeftIsExact'
<1> USE DEF LeftIsExact
<1>0. TypeOK
  BY DEF Budget
<1>1. ASSUME NEW p \in Params, Launch(p) PROVE LeftIsExact'
  BY <1>1 DEF Launch
<1>2. ASSUME NEW e \in Found, NEW allowMissing \in BOOLEAN,
              Wake(e, allowMissing) PROVE LeftIsExact'
  BY <1>2 DEF Wake
<1>3. ASSUME NEW c \in Changes, Adjust(c) \/ TakeRequest(c) PROVE LeftIsExact'
  BY <1>0, <1>3, BeginIsExact DEF Adjust, TakeRequest
<1>4. CASE Approve
  <2>1. /\ command.step = "prompt" /\ command'.changes = command.changes
        /\ command'.left = LeftOver(command.changes)
        /\ command'.waited = command.waited
        /\ UNCHANGED << event, cell >>
    BY <1>0, <1>4 DEF Approve, TypeOK, Adjustments
  <2>2. command.waited = 0
    BY <2>1 DEF Budget, NotWaited
  <2>3. event.limit - cell.elapsed + 0 = event.limit - cell.elapsed
    BY <1>0, BudgetTypes
  <2> QED BY <2>1, <2>2, <2>3 DEF LeftOver
<1>5. CASE Decline \/ StopFails \/ Relaunch
  BY <1>5, NoCommandFits DEF Decline, StopFails, Relaunch
<1>6. CASE Stop
  <2>1. /\ command.step = "stop" /\ command'.changes = command.changes
        /\ command'.left = command.left /\ command'.waited = command.waited
        /\ event' = event /\ cell'.elapsed = cell.elapsed
    BY <1>0, <1>6 DEF Stop, TypeOK, Adjustments, Cells
  <2> QED BY <2>1
<1>7. ASSUME NEW idle \in BOOLEAN, End(idle) PROVE LeftIsExact'
  <2>1. event'.limit = event.limit /\ cell'.elapsed = cell.elapsed /\ command' = command
    BY <1>0, <1>7 DEF End, TypeOK, Events, Cells
  <2> QED BY <2>1
<1>8. CASE Tick
  <2>1. /\ command'.step = command.step /\ command'.left = command.left
        /\ command'.changes = command.changes /\ event' = event
        /\ cell'.elapsed = cell.elapsed + 1
        /\ command.step \in {"stop", "launch"} => command'.waited = command.waited + 1
    BY <1>0, <1>8 DEF Tick, TypeOK, Adjustments, Cells
  <2>2. command.step \in {"stop", "launch"} =>
          event'.limit - cell'.elapsed + command'.waited
            = event.limit - cell.elapsed + command.waited
    BY <1>0, <2>1, BudgetTypes
  <2> QED BY <2>1, <2>2
<1>9. CASE UNCHANGED << event, cell, command >>
  BY <1>9
<1> QED BY <1>1, <1>2, <1>3, <1>4, <1>5, <1>6, <1>7, <1>8, <1>9, Steps
        DEF Register, EditPath, Edit, vars

\* A change that skips the prompt takes mounts away and does nothing else to
\* what the session may reach, whatever was edited meanwhile: of all that a
\* relaunch rebuilds, only credential handling and platforms may widen.
THEOREM NarrowingsOnlyNarrow == Spec => NarrowingWidensNoMount
<1> DEFINE Narrower ==
      Relaunched /\ cell'.up /\ ~ command.approved =>
        /\ event'.profile = event.profile
        /\ event'.mounts = [m \in Mounts |-> IF m \in command.changes.removes
                                               THEN "no" ELSE event.mounts[m]]
        /\ event'.overrides # {} => event.overrides # {}
        /\ event.limit # Unlimited =>
             /\ event'.limit # Unlimited
             /\ event'.limit
                  = Larger(event.limit - cell.elapsed + command.waited, Floor)
        /\ cell.network = Profile[event.profile].network =>
             cell'.network = cell.network
<1>1. Init => Narrow /\ Channel
  BY InitConsent, InitBudget, InitChannel DEF Narrow, LeftIsExact, Init, NoCommand
<1>2. Narrow /\ Channel /\ [Next]_vars => (Narrow /\ Channel)'
  BY NextConsent, NextBudget, NextIsExact, NextChannel DEF Narrow
<1>3. Narrow /\ Channel /\ [Next]_vars => [Narrower]_vars
  <2> SUFFICES ASSUME Narrow, Channel, [Next]_vars, Relaunched, cell'.up,
                      ~ command.approved
               PROVE  Narrower
    OBVIOUS
  <2> DEFINE c == command.changes
             p == Applied(event, c, command.left)
  <2>0. TypeOK /\ c \in Changes
    BY DEF Channel, TypeOK, Adjustments
  <2>1. Relaunch /\ command.step = "launch"
    BY <2>0, RelaunchedIsRelaunch DEF Relaunched
  <2>2. ~ cell.up
    BY <2>1 DEF Channel, StoppedFirst
  <2>3. Start(p)
    BY <2>1, <2>2 DEF Relaunch
  <2>4. NarrowingOnly(c)
    BY <2>1 DEF Narrow, Consent, UnapprovedNarrows
  <2>5. /\ c.broad = FALSE /\ c.extend = 0
        /\ \A m \in Mounts : c.adds[m] = "no"
    BY <2>0, <2>4 DEF NarrowingOnly, Asked, Unlimited, Changes
  <2>6. /\ p.profile = event.profile /\ p.handling = "profile"
        /\ p.flag <=> (event.overrides # {} \/ c.broad)
        /\ p.override = command.left
        /\ p.specs = [m \in Mounts |->
              IF c.adds[m] # "no" THEN c.adds[m]
              ELSE IF m \in c.removes THEN "no" ELSE event.mounts[m]]
    BY <2>0, AppliedFields
  <2> HIDE DEF p
  <2>7. event' = Logged(p) /\ cell' = Unlogged(p) /\ Admitted(p)
    BY <2>3 DEF Start
  <2>8. event'.profile = event.profile
    BY <2>6, <2>7 DEF Logged
  <2>9. event'.mounts = [m \in Mounts |-> IF m \in c.removes
                                            THEN "no" ELSE event.mounts[m]]
    <3>1. event'.mounts = [m \in Mounts |-> ModeOf(m, p.specs[m])]
      BY <2>7 DEF Logged
    <3>2. ASSUME NEW m \in Mounts
          PROVE  ModeOf(m, p.specs[m]) = IF m \in c.removes THEN "no" ELSE event.mounts[m]
      <4>1. event.mounts[m] \in Modes
        BY <2>0 DEF TypeOK, Events
      <4> QED BY <2>5, <2>6, <4>1 DEF ModeOf, Modes
    <3> QED BY <3>1, <3>2
  <2>10. event'.overrides # {} => event.overrides # {}
    <3>1. p \in Params
      BY <2>0, AppliedType DEF p, TypeOK, Adjustments
    <3> QED BY <2>3, <2>5, <2>6, <3>1, OverrideNeedsBoth
  <2>11. event.limit # Unlimited =>
           /\ event'.limit # Unlimited
           /\ event'.limit = Larger(event.limit - cell.elapsed + command.waited, Floor)
    <3> SUFFICES ASSUME event.limit # Unlimited
                 PROVE  /\ event'.limit # Unlimited
                        /\ event'.limit
                             = Larger(event.limit - cell.elapsed + command.waited, Floor)
      OBVIOUS
    <3>1. command.left = Larger(event.limit - cell.elapsed + command.waited, Floor)
      <4>1. event.limit - cell.elapsed + command.waited + 0
              = event.limit - cell.elapsed + command.waited
        BY <2>0, BudgetTypes
      <4> QED BY <2>1, <2>5, <4>1 DEF Narrow, LeftIsExact
    <3>2. Floor <= command.left
      BY <2>1 DEF Narrow, Budget, LeftFits
    <3>3. command.left # Unlimited
      BY <2>0, <3>2, BudgetTypes DEF Unlimited
    <3> QED BY <2>6, <2>7, <3>1, <3>3 DEF Logged, LimitOf
  <2>12. cell.network = Profile[event.profile].network => cell'.network = cell.network
    BY <2>6, <2>7 DEF Unlogged, NetworkOf
  <2> QED BY <2>8, <2>9, <2>10, <2>11, <2>12
<1> QED BY <1>1, <1>2, <1>3, PTL DEF Spec, NarrowingWidensNoMount
=============================================================================
