----------------------------- MODULE ConfigFiles -----------------------------
(***************************************************************************)
(* The four files of ~/.whizzard/config and the commands that write them:  *)
(* the setup wizard (`whiz init`, init_wizard.py), `whiz mounts add` and   *)
(* the `init` commands for profiles, harnesses and presets; and what a     *)
(* preset launch makes of the four together (validate_references).         *)
(*                                                                         *)
(* A wizard asks its questions and writes one file per step, so that other *)
(* commands, or a Ctrl-C, come between any two of its files.  Every write  *)
(* is one of AtomicWrite's.                                                *)
(***************************************************************************)
EXTENDS Integers, AtomicWrite

CONSTANTS
  UserProfiles,  \* names given in the wizard to profiles of the user's own
  UserMounts,    \* names given to `mounts add`
  WizardMounts,  \* names given to mounts in the wizard
  OddMounts,     \* those of them that load_mounts refuses
  MaxCommands    \* commands in one behaviour

VARIABLES
  cmd,      \* the command each process runs
  commands  \* commands begun so far

vars == << target, tmp, data, writer, met, cmd, commands >>

-----------------------------------------------------------------------------
(* What the files hold *)

ConfigFileNames == {"profiles", "mounts", "harnesses", "presets"}

BundledProfiles == {"default", "safe"}

BundledMounts == {"claude-projects", "ai-sandbox"}

\* Harness names and the platforms of each.
BundledHarnesses == [generic |-> {}, hermes |-> {"discord"}]

Preset(profile, harness, mounts, platforms) ==
  [profile |-> profile, harness |-> harness, mounts |-> mounts, platforms |-> platforms]

BundledPresets ==
  { Preset("default", "hermes", BundledMounts, {"discord"}),
    Preset("safe", "generic", {}, {}) }

Bundled ==
  [ profiles |-> BundledProfiles, mounts |-> BundledMounts,
    harnesses |-> BundledHarnesses, presets |-> BundledPresets ]

WizardHarnesses == [hermes |-> {}]

\* (mutant) The wizard's preset as the bundled one has it, with its platform.
WizardPresetOnDiscord(profile, mounts) == Preset(profile, "hermes", mounts, {"discord"})

WizardPreset(profile, mounts) == Preset(profile, "hermes", mounts, {})

\* The wizard takes the bundled profiles or one of the user's own; no mount or
\* one; and no preset, or one on the "default" profile or on one it wrote, with
\* or without that mount.
ProfileChoices == {BundledProfiles} \cup {{name} : name \in UserProfiles}

MountChoices == {{}} \cup {{name} : name \in WizardMounts}

PresetChoices(profiles, mounts) ==
  {{}} \cup {{WizardPreset(profile, attached)} :
                profile \in profiles \cup {"default"}, attached \in {{}, mounts}}

ConfigContents ==
  [ profiles  |-> ProfileChoices,
    mounts    |-> SUBSET (UserMounts \cup WizardMounts),
    harnesses |-> {BundledHarnesses, WizardHarnesses},
    presets   |-> {BundledPresets}
                    \cup UNION {PresetChoices(BundledProfiles \cup UserProfiles, mounts) :
                                 mounts \in MountChoices} ]

ASSUME ConfigAssumption ==
  /\ Files = ConfigFileNames
  /\ Contents = ConfigContents
  /\ MaxCommands \in Nat

-----------------------------------------------------------------------------
(* Reading the files *)

\* Every loader falls back on what is bundled when its file is absent.
Loaded(f) == IF target[f] = None THEN Bundled[f] ELSE data[f][target[f]]

\* load_profiles, load_mounts, load_harnesses and load_presets all accept.
AllLoad ==
  /\ \A f \in Files : IsWhole(f)
  /\ target["mounts"] # None => Loaded("mounts") \cap OddMounts = {}

\* validate_references: a preset launches only if every preset's references
\* resolve, its own or not.
Resolves ==
  /\ AllLoad
  /\ \A preset \in Loaded("presets") :
       /\ preset.profile \in Loaded("profiles")
       /\ preset.harness \in DOMAIN Loaded("harnesses")
       /\ preset.mounts \subseteq Loaded("mounts")
       /\ preset.platforms \subseteq Loaded("harnesses")[preset.harness]

\* load_mount_specs: nothing is registered while there is no file.
Registered == IF target["mounts"] = None THEN {} ELSE data["mounts"][target["mounts"]]

-----------------------------------------------------------------------------
(* Commands *)

NoCommand ==
  [kind |-> "none", at |-> "end", alone |-> FALSE, profiles |-> {}, mounts |-> {},
   name |-> None]

Over(p) == cmd[p].at = "end"

Commands ==
  [ kind : {"none", "wizard", "add", "init"}, at : ConfigFileNames \cup {"end"},
    alone : BOOLEAN, profiles : ProfileChoices \cup {{}},
    mounts : SUBSET (UserMounts \cup WizardMounts), name : UserMounts \cup {None} ]

\* Only a wizard has several files to write.
CommandOK(c) ==
  /\ c.kind = "none" => c.at = "end"
  /\ c.kind = "wizard" => c.mounts \in MountChoices
  /\ c.kind = "add" => c.at = "end" \/ (c.at = "mounts" /\ c.name \in UserMounts)
  /\ c.kind = "init" => c.at # "mounts"

TypeOK ==
  /\ WriteTypeOK
  /\ cmd \in [Procs -> Commands]
  /\ \A p \in Procs : CommandOK(cmd[p])
  /\ commands \in 0 .. MaxCommands

Init ==
  /\ WriteInit
  /\ cmd = [p \in Procs |-> NoCommand]
  /\ commands = 0

\* No command is alone that another one overlaps; a finished one stays so only
\* until the next begins.
Begin(p, c) ==
  /\ Over(p)
  /\ commands < MaxCommands
  /\ commands' = commands + 1
  /\ cmd' = [q \in Procs |->
               IF q = p THEN [c EXCEPT !.alone = \A r \in Procs \ {p} : Over(r)]
               ELSE IF Over(q) THEN NoCommand
               ELSE [cmd[q] EXCEPT !.alone = FALSE]]
  /\ UNCHANGED writeVars

\* The command goes on to its next file, or is over.
Ended(p) == [NoCommand EXCEPT !.kind = cmd[p].kind, !.alone = cmd[p].alone]

GoOn(p, at) ==
  /\ cmd' = [cmd EXCEPT ![p] = IF at = "end" THEN Ended(p) ELSE [@ EXCEPT !.at = at]]
  /\ UNCHANGED commands

Quit(p) == cmd' = [cmd EXCEPT ![p] = NoCommand] /\ UNCHANGED commands

\* run_wizard: the check that no file is there is made once, at the start.
BeginWizard(p, forced) ==
  /\ forced \/ \A f \in Files : target[f] = None
  /\ Begin(p, [NoCommand EXCEPT !.kind = "wizard", !.at = "profiles"])

Wizard(p, at) == cmd[p].kind = "wizard" /\ cmd[p].at = at

WizardWritesProfiles(p) ==
  /\ Wizard(p, "profiles")
  /\ \E profiles \in ProfileChoices :
       /\ OpenTemp(p, "profiles", profiles)
       /\ cmd' = [cmd EXCEPT ![p].profiles = profiles]
  /\ UNCHANGED commands

WizardWritesMounts(p) ==
  /\ Wizard(p, "mounts")
  /\ \E mounts \in MountChoices :
       /\ OpenTemp(p, "mounts", mounts)
       /\ cmd' = [cmd EXCEPT ![p].mounts = mounts]
  /\ UNCHANGED commands

WizardWritesHarnesses(p) ==
  /\ Wizard(p, "harnesses")
  /\ OpenTemp(p, "harnesses", WizardHarnesses)
  /\ UNCHANGED << cmd, commands >>

WizardWritesPresets(p) ==
  /\ Wizard(p, "presets")
  /\ \E presets \in PresetChoices(cmd[p].profiles, cmd[p].mounts) :
       OpenTemp(p, "presets", presets)
  /\ UNCHANGED << cmd, commands >>

\* `mounts add` refuses a registry it cannot read and a name that is taken.
BeginAdd(p, name) ==
  /\ IsWhole("mounts")
  /\ name \notin Registered
  /\ Begin(p, [NoCommand EXCEPT !.kind = "add", !.at = "mounts",
                                !.mounts = Registered, !.name = name])

\* (mutant) What is saved is what was just asked for.
AddedAlone(loaded, name) == {name}

\* The registry as it was loaded, with the new mount.
Added(loaded, name) == loaded \cup {name}

AddWrites(p) ==
  /\ cmd[p].kind = "add" /\ cmd[p].at = "mounts"
  /\ OpenTemp(p, "mounts", Added(cmd[p].mounts, cmd[p].name))
  /\ UNCHANGED << cmd, commands >>

\* `profiles init`, `harnesses init` and `preset init` refuse a file that is
\* there, unless forced, and write what is bundled.
BeginInit(p, f, forced) ==
  /\ f # "mounts"
  /\ forced \/ target[f] = None
  /\ Begin(p, [NoCommand EXCEPT !.kind = "init", !.at = f])

InitWrites(p) ==
  /\ cmd[p].kind = "init" /\ ~ Over(p)
  /\ OpenTarget(p, cmd[p].at, Bundled[cmd[p].at])
  /\ UNCHANGED << cmd, commands >>

FollowedBy ==
  [profiles |-> "mounts", mounts |-> "harnesses", harnesses |-> "presets", presets |-> "end"]

\* (mutant) Every command goes on to the wizard's next file.
AfterAsWizard(p) == FollowedBy[cmd[p].at]

\* The wizard has a next file, every other command one file only.
After(p) == IF cmd[p].kind = "wizard" THEN FollowedBy[cmd[p].at] ELSE "end"

Written(p) == Publish(p) /\ GoOn(p, After(p))

Filled(p) ==
  /\ Fill(p)
  /\ IF writer[p].direct THEN GoOn(p, "end") ELSE UNCHANGED << cmd, commands >>

\* The rename fails, the process dies, or it is interrupted at a prompt or in
\* the image build.
Lost(p) == PublishFails(p) /\ Quit(p)

Dies(p) == Die(p) /\ Quit(p)

Interrupted(p) ==
  /\ ~ Over(p) /\ writer[p] = NotWriting
  /\ Quit(p)
  /\ UNCHANGED writeVars

Next ==
  \E p \in Procs :
    \/ \E forced \in BOOLEAN : BeginWizard(p, forced)
    \/ WizardWritesProfiles(p)
    \/ WizardWritesMounts(p)
    \/ WizardWritesHarnesses(p)
    \/ WizardWritesPresets(p)
    \/ \E name \in UserMounts : BeginAdd(p, name)
    \/ AddWrites(p)
    \/ \E f \in Files, forced \in BOOLEAN : BeginInit(p, f, forced)
    \/ InitWrites(p)
    \/ Filled(p)
    \/ Written(p)
    \/ Lost(p)
    \/ Dies(p)
    \/ Interrupted(p)

Spec == Init /\ [][Next]_vars

-----------------------------------------------------------------------------
(* What the commands promise *)

\* A registered mount goes only when a wizard replaces the registry, an `add`
\* saves one that was loaded before somebody else's, or two writers met.
Published(p) == writer[p].stage = "filled" /\ writer'[p] = NotWriting

Excused(p) == cmd[p].kind = "wizard" \/ cmd[p].mounts # Registered

KeepsRegistered ==
  [][ \/ "mounts" \in met'
      \/ Registered \subseteq Registered'
      \/ \E p \in Procs : Published(p) /\ writer[p].file = "mounts" /\ Excused(p) ]_vars

\* A wizard that ran to its end with nobody in between leaves four files a
\* preset launch accepts, whatever files it found and whatever was answered,
\* except for two answers it does not check: a mount name load_mounts refuses,
\* and the shipped preset without its "default" profile.
Unchecked ==
  \/ Registered \cap OddMounts # {}
  \/ /\ "default" \notin Loaded("profiles")
     /\ \E preset \in Loaded("presets") : preset.profile = "default"

SetupResolves ==
  \A p \in Procs : Wizard(p, "end") /\ cmd[p].alone => Unchecked \/ Resolves

=============================================================================
