# Whizzard in TLA+

Whizzard (`src/whizzard`) runs an AI agent's harness in a hardened, time-bounded Docker container,
a *session* (the *cell*), mediates its network, and replaces one session by the next when the
operator or the agent asks for a change. This directory specifies the parts of it that are hard to
test, checks them with TLC and proves the central ones with TLAPS.

Paths below are relative to `src/whizzard`. `PROJECT.json` maps each definition to its lines.

## 1. Inventory

Whizzard is a command line program. There is no server and no lock anywhere: every `whiz` command
is a process of its own, and what processes share are docker's objects, the files under `~/.whizzard`
and, with the contained agent, the session's mounted state directory. Nearly all that is
hard follows from that.

| Component | State it keeps | Operations | Interacts with | What is hard |
|---|---|---|---|---|
| Broker sidecar, `broker.py` | two docker networks, a container, a key file per session | `start_broker`, `stop_broker`, `_reap_orphans`, credential lookup | launch core; sweeps of other launchers | half-done bring-up, rollback, timeouts, killed launchers, sweeps beside a bring-up |
| OneCLI route, `onecli_gateway.py` | cell net, link net, gateway attachment, shim container | `start_onecli_route`, `_bring_up_shim`, `stop_onecli_route`, its own sweep | broker's network in hybrid mode | order of removal, two anchors per session swept separately |
| Launch core, `cli/_launch.py` | none of its own | `_perform_launch`: gates, bring-up, `run_shell`, `finally` | everything | every failure must come down again |
| `run_shell`, `docker_cmd.py` | cidfile, client process | log start, spawn, monitor, merge, log end | audit log, monitor | order of log and container; exceptions in the middle |
| Enforcement, `enforcement.py` | loop state, idle tracker | poll, warn, sample, wrap up, stop, reap | docker, adapter, audit log | three clocks, late samples, missing statistics, failing stops |
| Audit log, `session_log.py` | `sessions.jsonl` | append, search after an offset, merge of the agent's events | all commands | concurrent appends; the log is the only memory of a session, and what its cell emitted is in it too |
| Adjust, `adjust.py` | none between calls | `adjust_session`: resolve, prompt, stop, relaunch, classify | log, docker, launch core | each step may fail after the session was stopped |
| Wake, `wake.py`, `cli/wake.py` | none | `find_wakeable`, probe, rebuild parameters, relaunch | log, docker, launch core | what is "idle and gone" may not be |
| Request channel, `requests.py`, `cli/requests.py`, `mcp_server.py` | request files in the cell's reach, resolutions out of it | submit, `process_request`, deny, `mark_resolved` | adjust, log | the cell may rewrite its files at any moment; two commands on one request |
| Mount registry, `mounts.py`, `cli/mounts.py` | `mounts.json` | register, resolve | launch, requests | it changes under a running session |
| Safety policy, `safety.py` | none | `check_mount_path` | launch, registration, requests | tiers, two gates of an override, a parent of a registered mount |
| Profiles and presets, `config.py`, `preset_config.py` | JSON files | load, `preset launch` | launch | which setting wins |
| Atomic writes, `_atomic.py` | files | write to a temporary name and replace | registry, wizard, requests | one temporary name for all writers; some writers do without it |
| Init wizard and the `init` commands, `init_wizard.py`, `cli/init.py` | the four files of `config/` | one check, then four writes with questions and builds in between | registry, presets, Hermes homes | other commands, or Ctrl-C, between two of the files; what was answered need not fit together |
| Hermes homes, `adapters/hermes.py`, `cli/hermes.py` | directories with credentials, links and `gateway.lock` | `create_profile`, `preflight`, `container_mounts` | launch core, host-side Hermes, other cells | all of them write there, nothing locks it, pids of cells mean nothing on the host |
| Adapters, `adapters/` | none | preflight, argv, `wrap_up` | enforcement, launch | `wrap_up` may fail or time out |
| Credentials, broker proxy, images, listings, platform | none | one call each | | |

### What makes each correct

- *Egress route*: a cell never runs on half a route; a sweep takes only what belongs to nobody; a
  launcher that ends leaves only what failed it; what a killed one left goes eventually; nobody waits for ever.
- *Enforcement*: a cap is a cap, within stated delays; a session recorded as ended is over; the
  warning comes before the cap; an agent that works is not idle; the session comes to an end.
- *Command chain*: a session and its replacement never run together; the log says truly what became
  of a stopped session; refusals are audited first; only operators settle requests.
- *Grants*: along any chain of relaunches nothing is mounted, made writable, opened wide or
  prolonged beyond what the operator agreed to, as long as relaunches go by the host's own records; an agent's request cannot bring about an override.
- *Files*: a reader finds a whole file or none; no registration is lost; what the wizard leaves can be launched.
- *Hermes homes*: no cell is given a credential or a link out of its home that the walk could see; a gateway cell yields to a live
  host gateway and clears only what is stale; a new home is filled by one command and carries no foreign lock.

The hazards, each at its line and with the properties aimed at it, are in `PROJECT.json`.

## 2. Modules

```
     RouteLease                    SessionLife                  AtomicWrite
         ^                        ^           ^                      ^
         |                        |           |                      |  EXTENDS; also refines
    EgressRoute          Enforcement     SessionChain            ConfigFiles
    |         |           |       |           |    |             |         |
    MC..   ..Proofs      MC..  ..Proofs     MC..  ..Proofs      MC..   ..Proofs
                                                   |
                                           SessionLivesProofs

    Grants ── MCGrants, GrantsProofs      HermesHome ── MCHermesHome, HermesHomeProofs
```

An arrow up is a refinement: the lower module is shown to implement the upper one.

The specifications look at the same system from different sides and cut it where the code
has an interface: `SessionChain` sees a launch as *logged, spawned, attached, ended* and leaves the
network to `EgressRoute` and the time limits to `Enforcement`; `Grants` sees one command at a time
and leaves overlapping commands and failing docker calls to `SessionChain`, the files to `ConfigFiles`.
Two of the cuts are specifications themselves. `SessionLife` is what the other commands may assume of a
session: `Enforcement` implements it with the monitor, `SessionChain` with the few steps it takes a launch for,
so what one module assumes the other one delivers (`LivesSafely` and `LaunchesLive` prove it, but for the fairness). `RouteLease` is what a cell may assume of its route.

### EgressRoute

One launcher per session. `pc` says which part of `_perform_launch` it is in (`bring`, `start`, `cell`,
`down`, `done`, `crashed`); `Plan[mode]` is the bring-up as a sequence of docker commands and `step`
the position in it. `res[s]` is what really exists for `s`, `made[s]` the code's flags
(`made_int`, `made_egress`, ...), by which the rollback goes. The two differ when a command
times out though docker carried it out, or when `docker run -d` fails with its container created, running or not; `lost[s]` is a history
variable that remembers such objects, and those whose removal failed. `sweep[s]` is the local state of a running `_reap_orphans`:
the listing, the candidate between its probe and its age query, what is still to be removed.

| Action | Code |
|---|---|
| `Launch`, `Create`, `Check`, `StepFails`, `CreateFailsLate` | `start_broker`, `start_onecli_route`, `_bring_up_shim`, step by step, with the rollback's entry; a command fails with nothing made, or late, with its object there and no flag set |
| `StepRaises` | an exception other than `OneCLIGatewayError` out of the hybrid shim, which passes `stop_broker` by |
| `ReapList`, `ReapProbe`, `ReapAge`, `ReapRemove`, `ReapEnd`, `ReapTimesOut` | `_reap_orphans` of either module; other launchers interleave between the queries |
| `StartCell`, `RunShellFails`, `CellExit`, `Abandon` | `run_shell` seen from the launch core |
| `Undo`, `UndoTimesOut`, `Finish` | rollback, `stop_broker`, `stop_onecli_route` and the `finally` clause |
| `Crash`, `Retire`, `Tick` | a killed launcher; reuse of a finished slot for a new session id; time |

`Remove` honours docker's refusal to remove a network that has an endpoint, and the loss of an
attachment together with its container or network.

`RouteLease` forgets all of it but two things: which routes are whole, and which cells are served by one.
A route comes and goes while no cell is served by it; a served cell's stays until it has ended or its launcher
died or let go of it (`KeepsLease`). Bring-up, rollback, teardown and sweeps map to its `Change` or to a stutter.

### Enforcement

One session from `run_shell`'s first append to its last. The monitor's position is `pc`; docker's client
(`client`) and the container (`box`) are separate, since each may outlive the other. `elapsed`, `idle`
and `quiet` are the clock, the tracker's idle time and the ghost *time since the agent last wrote*.
`waited` bounds how long the monitor sits in the subprocess call at `pc`; a step that waits for
nothing takes no time. Actions follow the loop: `WaitReturns`, `Wake`, `DurationHit`, `Warn`,
`NextIteration`, `Sample`, `Enforce`, then the ladder `NoOpWrapUp | HermesWrapUp | WrapUpRaises`,
`PlainStop`, `ClientReaped | KillClient | GiveUpOnClient`, then `MergeEvents`, `LogEnd`.

`SessionLife` sees the two log records, the container and whether somebody is left to stop it (`lost`). Under
`LivesAsPromised` a container exists only after `session_start`, once, and is over at `session_end`, and one with
a cap that somebody holds ends. `lost` is `Excused`: a fault struck that ends the monitor, makes the adapter's stop fail, or takes docker's client away.

### SessionChain

`Procs` are invocations of `whiz`, and each names the session it launches. A process picks a
command and goes through its stages; the shared state is `box` (docker), `log` (`sessions.jsonl`),
`store` (the host's resolutions) and `file` (the cell's request file). `offset`, `code` and `raised` are
what the classification of a relaunch uses (`find_session_start_after_offset` and the exit code). A log record has
a field `by`, which the code does not write, so that properties can say whose record it is: a command's, or nobody's (`NoSession`) if a cell
emitted it. `MergeEmitted` is `merge_agent_events`: before the host's `session_end`, records of any event the cell chose go into the log, under
its session's own id, while the `superseded_session_id` of a `session_woken` is as the cell likes. `Find` reads them as `_build_index` does, whoever wrote
them: a bare wake takes any idle end, one that is given the session its last end.
`LimitHit` and `LimitStops` are two steps, for the monitor decides on a limit before it stops anything.

### Grants

`event` is what `session_start` records and hence all a relaunch knows; `cell` is what else is
true of the session (platforms, network, time elapsed). `command` is the adjustment in progress with its
changes, what was left of the limit when it was computed, and whether the operator approved.
`registry` and `paths` change at any moment (`Register`, `EditPath`); `grant` is a history
variable of what the operator has agreed to. A wake goes by one of `Found`: the host's `session_start`, or one the cell has emitted
under the same id (`Emitted`) and that `_build_index`, which takes the last and does not look at `origin`, finds instead. From then on
the chain is not `genuine`, and `grant` keeps nothing. The functions of the code are operators: `Resolves`,
`Safe` (`check_mount_path` with both gates), `Effective` (`detect_noops`), `Applied` (`_apply_changes`),
`LeftOver`, `Reconstructed` (`reconstruct_launch_params`), `Admitted` (the gates of `_perform_launch`).

### AtomicWrite and ConfigFiles

`AtomicWrite` is `_atomic.py` at the level of inodes. A file has its own name (`target`) and one temporary name
(`tmp`), each pointing to an inode with contents (`data`). `OpenTemp`, `Fill`, `Publish` are the open, the write and the
rename of `atomic_write_text`; `OpenTarget` is the plain `write_text` of the three `init` commands; `Die` cuts a
write anywhere; `PublishFails` is the rename that finds the temporary gone. `met` remembers the files two writers had
open at once, or one wrote directly.

`ConfigFiles` adds the commands, whose every write is one of `AtomicWrite`'s:

| Action | Code |
|---|---|
| `BeginWizard`, `WizardWrites...`, `Written` with `After` | `run_wizard`: one check that nothing is there, four files in order, what was answered |
| `BeginAdd`, `AddWrites` | `whiz mounts add`: load, refuse a taken name, save all |
| `BeginInit`, `InitWrites` | `profiles init`, `harnesses init`, `preset init`, with `--force` |
| `Interrupted`, `Dies`, `Lost` | Ctrl-C at a prompt or in a build, a killed process, a rename that raises |

`Loaded` is the loaders with their fall-back on what is bundled, `AllLoad` and `Resolves` what `validate_references` asks
of all four before a preset may launch.

### HermesHome

Each home is a set of files (`holds`), who made its directory (`maker`) and whose pid its `gateway.lock` records (`lock`).
`CreateProfile`, `MakeTarget`, `CopyLevel`, `CopyFile`, `Created` are `create_profile` with `shutil.copytree`'s listing and
copying as steps of their own. `Preflight`, `Walk`, `Walked`, `ReadGatewayLock`, `ProbePid`, `ClearStaleLock`, `ContainerMounts`, `Mount` are
a launch from `preflight` to `docker run`. `HostWrites`, `HostGatewayStarts`, `CellWrites`, ... are what Hermes itself does in
the same directories: external. The error paths are there too: `Walk` passes over a directory it cannot list and entries it cannot examine (`Hidden`),
`ReadGatewayLock` takes a lock it cannot read for absent, `IsPidAlive` a pid whose probe failed for dead. Three histories are what the properties need:
`unseen`, what was written since the second walk began or was hidden from it; `blind`, that a lock could not be read or a probe failed; `held`,
which host gateways have held the lock ever since the launch began.

## 3. Runs

| Run | Question | Result |
|---|---|---|
| `EgressFaults` | Two launchers, any mode, two faults out of crash, failed removal, docker timeout, command that fails late, exception out of the shim, abandoned cell: is a route ever cut under its cell, does a sweep take a living session, what is left behind? | `TypeOK`, `RouteIntact`, `SweepOnlyOrphans`, `OnlyLostIsLeft` hold, and `KeepsLease`: `EgressRoute` implements `RouteLease`; 2.1 million states |
| `EgressTeardown` | Launchers that may be killed, or lose a container `docker run` failed to report, under fairness: is it swept, and does anything wait for ever? | `OrphanSwept`, `LaunchEnds` hold; 116 thousand states |
| `EnforceLimits` | One session with any two of eight faults | `TypeOK`, `HardCap`, `EndMeansOver`, `WarnedBeforeCap`, `WriterIsNotIdle`, `CappedSessionEnds` hold, and `LivesAsPromised`: `Enforcement` implements `SessionLife`, its fairness included; 631 thousand states |
| `EnforceLogFails` | Does enforcement survive an audit log that cannot be appended to? | `LogFailureLeavesNoCell` violated |
| `ChainSafety` | Three overlapping commands and a cell that forges its request | `TypeOK`, `NeverBoth`, `FailureIsTrue`, `OnlyOperatorsSettle` hold; 2.0 million states |
| `ChainOutcome` | A session and a command on it, any one of six faults, one record the cell emitted, under fairness | `NeverBoth`, `RunningIsLogged`, `RefusalsAreAudited`, `StopsAreAccounted`, `GrantsAreSettled` hold, and `LaunchesAreLives`: each launch is a `SessionLife`; 272 thousand states |
| `ChainWokenTwice` | Is an idle session resumed once only? | `WokenOnce` violated |
| `ChainWrongSession` | Is a relaunch recorded as successful only if its session started? | `SuccessIsTrue` violated |
| `GrantsChain` | Launches, presets, wakes, adjustments and requests in chains of any length while registry or paths change once and a cell may emit a record of its own to be woken from | `TypeOK`, `BroadIsConsented`, `OnlyWhatWasGranted`, `WithinBudget`, `AgentAddsNothingBroad`, `ValidRequestRelaunches` hold; 921 thousand states |
| `GrantsNarrowing` | Does a change that needs no prompt widen nothing? | `NarrowingWidensNothing` violated |
| `ConfigFiles` | Two commands that write the configuration, interleaved by system calls, each killed or interrupted anywhere: what does a reader find, what does a finished wizard leave, which registration is lost? | `TypeOK`, `WholeUnlessMet`, `SetupResolves`, `KeepsRegistered` hold; 818 thousand states |
| `HermesHome` | A `profile create`, two launches, a host gateway and a user on the same homes, and errors on any of the reads: what is a cell given, whose lock is cleared, who fills a new home? | `TypeOK`, `YieldsToHostGateway`, `LocksAreLocal`, `FillsItsOwnHome`, `MountsNoCredential`, `ClearsOnlyStale` hold; 2.6 million states |

### Bounds, and why they are enough

- *EgressRoute*. Two launchers: a sweep and one other session, which is all that `_reap_orphans` and
  the teardown ever relate; `Retire` gives a slot a new session, so a behaviour has any number of
  sessions, two at a time. A tick is the grace of 180 s
  (`Grace = 1`): a bring-up lies within a tick (`StartWindow = 0`), and one may pass between a sweep's two queries
  (`ProbeGap = 1`), the most `GraceCoversStart` allows. `MaxFaults = 2` lets one launcher die, time out or fail late and a removal fail on top. `EgressTeardown` sets the three
  to 0, since fairness and crashes, not ages, are its matter. The theorems need none of these bounds.
- *Enforcement*. Ticks of fifteen seconds: a poll is two ticks, a sample one, the stop two; `MaxLead = 20` is the
  five minutes of the warning. The caps 5 and 15 put the lead below and above one iteration, and no cap at
  all is the third case. The theorems need none of these numbers. `Later` lets counters saturate where nothing tells larger values apart.
- *SessionChain*. Three processes: a session, a command on it and one that interferes. With faults two
  are taken, and one fault; under two faults (a failed stop, then a docker outage) `NeverBoth` does not hold. `MaxRequests = 1`, for
  nothing relates two requests. A cell emits one record in `ChainOutcome` (`MaxEmitted = 1`), a start, an idle end or a woken: the events `wake` reads; what it emits
  besides is read by nobody. The three other runs leave `Emitted` empty: records of the cell on top of three commands are beyond TLC, and the theorems allow any number. Three processes are symmetric; no symmetry is used under fairness.
- *Grants*. Three mounts: one any profile may mount, one inside it (so that registering it makes the
  first a parent), one broad. Two profiles: restricted with a limit, permissive without. One record a cell may emit, that has it all: the permissive profile, every mount as wide as the registry goes, an override, no limit. One mount named per command,
  extensions, floor and stop of one unit each, times up to 3 units, one edit of registry or paths. The theorems need none of them.

- *ConfigFiles*. Two processes and two commands: a command and one that comes in between. Three inodes per file, for a
  directory entry has at most its target, its temporary and one that is deleted but open. Each kind of name occurs: one that
  `mounts add` and the wizard share, one only one of them uses, one the wizard accepts and `load_mounts` does not; a profile of the
  user's own besides the bundled ones. Processes and inodes are symmetric. The theorems need none of these bounds.
- *HermesHome*. The default home and one profile, so that the one `profile create` meets a launch's `mkdir` on the same name; two launches, so
  that the lock one reads may be the other's; one host gateway with one life. A credential in the sub-directory, which takes a walk two
  steps and may go unseen with the directory or by itself, and a link at the top. The theorems need none of these bounds.

Deadlock is checked for `EgressRoute`, where some launcher can always act. It is not for the others: there a
session or the commands of a behaviour may all be over.

### Fairness, and why the code justifies it

- `EgressRoute`: weak fairness of a live launcher (its docker commands have timeouts or end), of the
  exit of a cell (`Enforcement`'s matter), and of reuse; strong fairness of time and of new launches
  with a broker and with a shim, as the orphan sweep's comment counts on "the next launch". A crashed launcher does nothing.
- `Enforcement`: weak fairness of the monitor, of time, and of docker creating and starting what it
  was asked to. Neither client nor container is assumed to exit by itself. From it follows the fairness of
  `SessionLife`, that a capped container somebody holds ends, which is what `SessionChain` assumes of `BoxExits`.
- `SessionChain`: weak fairness of a process at work, with an operator who answers, and of sessions
  ending, which `CappedSessionEnds` provides for capped ones. Faults are never fair.
- `ConfigFiles` and `HermesHome` assume no fairness: what matters of them is safety.

## 4. Proofs

All proofs are checked by TLAPS for every value of the constants that satisfies the modules'
assumptions on them (`ConstantsAssumption`, `GrantsConstants`, `ConfigAssumption`, `HomeAssumption`, ...). A theorem's own
assumptions stand in its `ASSUME` and are named below. Ten properties are theorems only, and no run carries them: `SweepIsThorough`, `NarrowingWidensNoMount`,
`UneditedSessionsWake`, `LeaksWhereRecorded`, `ReadersSeeOldOrNew`, `RelaunchesAreRecorded`, `LineageGoesBack`, `WakesInTurn`,
`DoneIsSettled`, `EndedAreOver`. To see one on a small instance, name it in a copy of its module's cfg.

### EgressRouteProofs

`TypeCorrect`, `RouteStaysIntact`, `SweepSparesTheLiving`, `LeaseKept`, `OnlyLostIsLeftBehind`, `SweepTakesAll`: for any number of launchers. The first
five allow any number of crashes, timeouts, late failures, exceptions, failed removals and abandoned cells. `RouteStaysIntact` to `LeaseKept` assume `GraceCoversStart`: docker
answers a sweep's probe, and the grace is no less than the start window plus the gap of a sweep. It is what
`broker.py` says its `_REAP_GRACE_S` is for; the bound `ProbeGap` is the part the comment does
not mention, and dropping it (or reading the age before the probe) loses the property.

`RouteIntact` is not inductive: it needs that a sweep never takes from a session that comes up, which
in turn needs an invariant about a sweep *in the middle of* its queries. `IInv` adds

- `BringUpProgress`: what the plan has passed exists;
- `CellRuns`, `IdleIsFresh`: what the positions of a launcher say about docker;
- `StartsInTime`: the anchors of a session not yet started are younger than the start window;
- `SweepsKnownSessions`: sweeps hold launched sessions only;
- `ProbedIsOrphanOrYoung`: between probe and age query the session held is an orphan for good, or its anchors
  are no older than the start window plus the gap so far, hence too young to be condemned.

The proof first shows what *every* step does to the life of a session, its resources, the sweeps and
the ages (`NextIsLifeStep`, `NextIsResStep`, `NextIsSweepStep`, `NextIsAgeStep`, one case per
action each); each conjunct of `IInv` is then kept by these four facts alone (`RouteKept`,
`ProbedKept`, `SweepKept`, ...). `LeaseKept`, the refinement of `RouteLease`, needs `IInv` on both sides of a step, so that a served cell's
route is whole at either end, and that a container runs only once its launcher has started it (`CellOnlyAfterStart`).

`OnlyLostIsLeftBehind` (`OnlyLostIsLeft`) assumes nothing. It says that what a launcher leaves when it is done lies in `Remnant`: the objects it lost, and what
docker keeps under them, for a network stays while it has an endpoint and an endpoint while it has its container. A launcher loses a creation that timed out or failed late, a removal that failed,
what is left when a timeout breaks the clean-up off, the network of a cell `run_shell` returned from while it was running, and the broker when an exception passes it by: where none of this happens it leaves nothing. The sweeps of others may take a route's parts meanwhile, and in
another order than its own clean-up does. The invariant `ResidueInv` needs no part of `IInv` but the types and `IdleIsFresh`:

- `Accounted`: between its creation and its removal a launcher knows of a resource, in `made` or, once it cleans up, in `undo`, or it is in `Remnant`;
- `EndpointsHaveContainers`: an attachment is there only with its container, so that docker no longer refuses to remove a network once the
  containers are gone, which come first in the order of removal;
- `CellHasLauncher`: the cell, whose endpoint would block the removal too, is gone before the clean-up begins, or its network counts as lost.

`SweepTakesAll` (`SweepIsThorough`) says of the other party that a sweep which gets through takes all it came for. It assumes `GraceCoversStart`, so that the victim
is an orphan and makes nothing new, and that no removal fails (`"rm" \notin Faults`); timeouts and crashes, which cut a sweep short, are allowed.
`SweptSoFar` follows the sweep through its order. A sweep cut after it has removed the anchor leaves the rest to nobody, for the anchor is
what the next sweep lists: the property is about sweeps that get through, and `OrphanSwept` about anchors that exist.

### GrantsProofs

Eight theorems: `TypeCorrect`; `OverridesAreConsented` and `MountsAreGranted`; `DeadlineIsGranted`;
`AgentsAddNothingBroad` and `ValidRequestsRelaunch`, which are action properties; `UneditedSessionsAlwaysWake`; `NarrowingsOnlyNarrow`. All go beyond the run in the number of mounts,
profiles, presets, edits, and the size of durations. There are four inductive invariants, each with the types:

- `Consent` (`Consented`, `WithinRegistry`, `NothingExtra`, `UnapprovedNarrows`, `AddsNotRemoves`). The two properties speak of
  a running session, but must hold of its record afterwards too, for the record is what the next
  session is made from. An unprompted change must be known to narrow until it is carried out.
- `Budget` (`FitsBudget`, `NotWaited`, `LeftFits`, `UnlimitedByProfile`). What is left is
  computed at the prompt and used after the stop: `LeftFits` follows it in between, with the time
  waited added. `UnlimitedByProfile` is needed because a missing override would otherwise
  let the profile's limit apply to a session that had none.
- `Channel` (`StoppedFirst`, `EditsInOrder`, `RequestChecked`, `MountsStillPass`, `HarnessStillPasses`). The
  check of a request and the gates of its launch read the registry at two times; if nothing
  was edited, both read the same, and what the running session passed it passes again. The last two speak of a session that is up *or ended
  idle* (`Resumable`), which gives `UneditedSessionsAlwaysWake` from the same invariant: `wake` reads nothing but the record.
- `Narrow`: `Consent`, `Budget` and `LeftIsExact`, the time left as an equation instead of a bound. `NarrowingsOnlyNarrow` needs the equation, for it says
  what the relaunched session has: the old one's mounts less those removed, its profile, its overrides if any, its deadline. It is the complement of
  `GrantsNarrowing`: of all a relaunch rebuilds, only credential handling (hence the network) and platforms can widen.

What each says of a chain in which a wake went by a record a cell emitted: `OverridesAreConsented` that the profile's gate still holds, `MountsAreGranted` that
the registry's modes do; both then say nothing of what the operator agreed to, nor does `DeadlineIsGranted`, since the code has no memory of it but the record
(`wake.py:102-106`). `Emitted` is any set of records, so that no theorem depends on what a cell writes. `UneditedSessionsAlwaysWake` is about the host's record: a cell can spoil it.

The type invariant is a theorem worth having: `limit` and `left` are naturals, so no relaunch is given a negative duration.

### ConfigFilesProofs

`TypeCorrect`; `CommandsWriteAtomically`, which says that the commands implement `AtomicWrite` (`Spec => WriteSpec`, one case
per action); `WholeUnlessWritersMeet`, the safety of `AtomicWrite` for any number of writers, files, inodes and texts; from
these two `ConfigWholeUnlessMet` for the commands; `WritesSwapWhole` and `ConfigSwapsWhole`, that readers see the old text or the new one
(`ReadersSeeOldOrNew`); `RegistryKept` and `SetupWorks`. All properties of the run are proved. `WholeUnlessMet` is not inductive: that a text is whole when it is
published follows from what the writer did before, so `WriteIInv` adds

- `OneWriter`: a file no two have met at has one writer at most;
- `OwnsTemp`: that writer's inode is the temporary's, and holds what the writer put there so far;
- `TempIsNotTarget`: filling the temporary does not touch what readers see.

A process that dies leaves its temporary behind; the proof goes through because the next writer truncates it. `FileMoved` is the step behind
`ReadersSeeOldOrNew`: with `WriteIInv`, every step but a publication leaves what a reader finds, and a publication puts the writer's whole text there. That a text
is whole and that it is the writer's are different claims: a stale temporary may be whole.

`RegistryKept` needs `AddsToLoaded`, what a write of the registry holds by the command that makes it; with `OwnsTemp` what is published is that
(`RegistryMoved`, which is `FileMoved` for the registry). `SetupWorks` cannot rest on `OneWriter`, for the wizard may find files where others had met before it began. `Undisturbed`
says it anew for a wizard nobody overlaps: no other command is under way, its write is its own (`WritesItsOwn`), and the files
behind it are what it answered (`Stands`). `AnswersResolve` is then a fact about four texts.

### HermesHomeProofs

`TypeCorrect`, `CreatesFillTheirOwn`, `LocksStayLocal`, `LaunchesYield`, `NoCredentialMounted`, `OnlyStaleCleared`: for any number of homes, creates,
launches and host gateways, and any set of files. All six properties of the run are proved. `HomeIInv` adds

- `HomesKnown`: who has a home in hand has one that exists;
- `NoLockToCopy`, `HoldersRun`: a clone never has a lock on its list, and who a lock names runs, or ran, on that home;
- `HeldNow`: a gateway in `held` runs, the lock is its own, and it is the one the launch read;
- `ReadIsReal`: a lock about to be cleared was read when its gateway had run and was dead, unless the probe failed;
- `PassedIsClean`: a level of the home the second walk has passed is clean but for what is `unseen`.

`LaunchesYield` and `OnlyStaleCleared` are about launches that are not `blind`, `NoCredentialMounted` about what is not `unseen`: they say that the error paths of the
code (`hermes.py:353`, 387, 488, 510, 534, 541) are the only way besides the races named, and no more than that can be said.

### SessionChainProofs

`TypeCorrect`, `RunningIsAlwaysLogged`, `FailuresAreTrue`, `OperatorsSettle`, `RefusalsAlwaysAudited`, `ReplacedNeverRunsOn`,
`RelaunchesAlwaysRecorded`, `LineagesGoBack`, `DecisionsAreStored`, `WakesInTurnResumeOnce`: for any number of
commands and sessions, any records their cells emit, and under every fault of `FaultKinds`, all at once if need be; the runs have three processes without faults and two with one.
`ReplacedNeverRunsOn` is `BothStruck \/ NeverBoth`: of all the faults, only docker failing to stop a session (`stop`) *and* failing to
answer (`daemon`) leaves a session running beside its replacement.
Two of the others say what the findings leave standing: `LineagesGoBack` holds also of a record that names the wrong session
(`ChainWrongSession`), and `WakesInTurnResumeOnce` confines `ChainWokenTwice` to wakes that overlap, raise or die. `IInv` has seven parts:

- `Typed`: `TypeOK`, and every command but a launch has a session (`Commanded`), which its actions index by.
- `Order`, on the records of a launch. `StartedWhenBegun` says which stages are before and which after `session_start`;
  `OffsetsPassed` and `StartsBehindOffset` put that record after the command's own offset, so the search finds one, if
  perhaps another's. Hence `FailureIsTrue`, though `SuccessIsTrue` fails (`ChainWrongSession`); `OutcomeIsOver` keeps it
  so, for who has logged an outcome launches no more.
- `Settled`, on requests. `StoreIsSettled`: a status in the host's store has a command that put it there; `TurnedAwayByOther`: who is
  turned away is not that command; `MirrorIsAudited`: a refusal is logged before the cell's copy is written.
- `Replaced`, on a session and what replaces it. `BoxesArePast` relates docker to the stage of the launch, `ReadyRuns` a slot to its command;
  `MergeIsOver` and `IdleIsOver` say that a container is gone when its records are completed and once there is an idle end in the log, the cell's own included, for it is merged at that
  stage only; `TargetIsPast` and `RelaunchesGone` lead from what a command has seen or stopped to what it relaunches. The middle three allow for a stop that failed,
  `RelaunchesGone` only for that together with a probe docker did not answer.
- `RelaunchesAreRecorded`: inductive with `Order`, since who comes to its end comes by `Classify`, and nobody classifies twice.
- `Lineage`: a command reads of its session that it started, or for `wake` that it ended idle (`OriginLogged`), before it takes its offset
  (`OriginBehindOffset`), and names as new only a start behind the offset. Hence the order in `LineageGoesBack`.
- `Closing`: an outcome names the session its command was given (`OutcomesNameTargets`), which is what makes a `woken` record visible to the next
  `wake`; who is past its record has a status in the store (`DecidedIsStored`), for which commands must keep to their own stages (`Assigned`).

The proof shows once what every step does: other processes stay as they are (`OthersStay`), stages are passed in one direction
(`StagesPassed`), a step logs at most one record, the actor's own (`LogAppends`, `LogGrows`), and moves a request or a
replacement in few ways (`RequestsMoved`, `ReplacingMoved`). Each conjunct then follows from these facts without going through the actions again.
That the search after the offset has a latest record to find (`LatestExists`) is from the library's well-foundedness of the naturals.

### SessionLivesProofs

`LaunchesLive` and `EndedStayOver`. In `SessionChain` each launch is a `SessionLife`, whatever other commands stop, wake or approve beside it. To `IInv` it adds
`Lives`: an end, the host's or one the cell emitted, is logged late (`EndIsLate`) and so, by `MergeIsOver`, after the container is over, unless its stop failed, and what is being
stopped has run (`LimitRan`, `TargetRan`). `BoxesMoved` shows that no step both logs and moves a container, so that each is one step of a life or none (`NextIsLife`).
`EndedStayOver` uses the refinement: that the container of an ended session is over unless its stop failed (`EndedIsOver`) is kept by `SessionLife`'s steps, hence by every step of any command.

### EnforcementProofs

`TypeCorrect` and `WritersAreNotIdle` without assumptions, and under `LimitsOutlastStart` `CapIsHard`, `EndIsOver`, `CapIsWarned`, `LeaksLocated` and
`LivesSafely`: for any caps, idle limits, timeouts and costs of a sample, and any number of faults. `LivesSafely` is `Spec => Life!Spec`, the safety
half of `LivesAsPromised`; with `LaunchesLive` both sides of the interface between the monitor and the other commands are proved.

`LimitsOutlastStart` says that docker starts a container in less time than any limit. Without it the monitor may act on a limit before
there is a container: its stop finds no cidfile, nothing is stopped, and docker creates the container
afterwards. The code accepts any positive number of seconds as a limit; the bundled profiles' are fifteen minutes and more.

The properties bound clocks at positions the loop reaches after several waits, so the invariant says where the time went. `IInv` adds

- `Ordered` (`NotYet`, `Spawned`, `EndIsLast`) and `Starting`: what a position says of client, container and log, and
  that a container asked for comes within `CreateTime`;
- `InTime`: no wait exceeds its timeout; `Paced`: at each position, `elapsed` is at most the cap plus the waits since the cap was last compared;
- `WarningPaced`: an unwarned session has not passed the lead by more than the iteration in progress, so the warning comes before the cap;
- `Undecided`: while it polls, the monitor has no reason to stop; `IdleIsQuiet`: the tracker's idle time is at most
  the time since the agent last wrote, plus the sample in progress, which is what makes `WriterIsNotIdle` an invariant of its steps;
- `Finished` (`GoneIsOver`, `StartedWhenStopping`, `OverForGood`): after the stop ladder the container is over and no step brings one back.

`WritersAreNotIdle` needs of these only the types, `InTime` and `IdleIsQuiet`. `LeaksLocated` (`LeaksWhereRecorded`) is the complement of the finding of
`EnforceLogFails`: with `RaisedForGood`, that an append or an interrupt that raised ends `run_shell`, it says at which two appends an exception leaves a
container running, and that every other one comes when the container is over.

### Only model-checked

Liveness (`OrphanSwept`, `LaunchEnds`, `CappedSessionEnds`, `StopsAreAccounted`, `GrantsAreSettled`, the fairness in
`LivesAsPromised`) is beyond TLAPS' reach here, as is everything about `ENABLED`. Every invariant and action property of a passing run has a
theorem, `NeverBoth` up to the two faults that break it (`BothStruck`). Of the liveness properties a safety half is proved where there is one: `DecisionsAreStored` for
`GrantsAreSettled`, `RelaunchesAlwaysRecorded` for `StopsAreAccounted`, `CapIsHard` for `CappedSessionEnds`, `SweepTakesAll` for `OrphanSwept`.

## 5. Where the code departs from what it says

With a run, and quoted in `PROJECT.json`'s findings:

1. The handler of a failing warner appends to the log the warner failed to append to (`EnforceLogFails`). `LeaksLocated` proves
   that the only other append to leave a container behind is that of a failed wrap-up.
2. `session_woken` is logged when the woken session is over, so an idle session can be resumed twice (`ChainWokenTwice`). `WakesInTurnResumeOnce`
   proves that it takes two wakes at once, an exception in a launch or a killed `whiz`.
3. A relaunch takes another command's `session_start` for its own (`ChainWrongSession`). `LineagesGoBack` proves that what
   it names was still started after what it replaces.
4. A relaunch after an unprompted, narrowing change loses credential handling and platform restriction (`GrantsNarrowing`).
   `NarrowingsOnlyNarrow` proves that it loses nothing else.

Met while modelling, without a run of their own. Of sessions and their network:

- `stop_broker` says it never raises; a docker timeout raises, and the key file stays (`broker.py:269-275`).
- `start_broker` says it cleans up whatever was created (`broker.py:166-167`). A `docker run -d` that fails with its container created has set no flag
  (202-214, `onecli_gateway.py:244-256`), so the container stays, and with it the network it has an endpoint on. A container that was never started is dated to the year 1 by docker, and hence old enough for the next sweep.
- In hybrid mode only a `OneCLIGatewayError` of the shim stops the broker (`cli/_launch.py:480-490`); another exception leaves it up for a sweep (`StepRaises`).
- The model takes a successful `docker run -d` as one step: a sweep that asks for the age of another launcher's container *between* its creation and its start would find
  it dated to the year 1 and remove it (`broker.py:279-280, 307-320`). `NeverStarted` models that date for containers that stay so.
- A limit fires, the adapter's `wrap_up` reports `ERROR` or `TIMEOUT`, and the container runs on though it is recorded as
  ended: only `NO_OP` falls back on docker's stop (`enforcement.py:281`). It is the fault `stop` of `Enforcement`, which
  `EndMeansOver` and `LivesAsPromised` except.
- A `docker ps` that fails during the live-cell probe reads as "no cell" (`broker.py:295`); fault
  `probe` of `EgressRoute` breaks `SweepOnlyOrphans`, so the runs leave it out and `GraceCoversStart` excludes it.

Of adjustments and requests:

- An approved session that itself ends with exit code 1 has its request recorded as denied
  (`requests.py:555`); see `SessionChain!Verdict`.
- A second approve or deny, past its check while the first one is at work, overwrites the first one's status (`cli/requests.py:113`).
- A request to write a read-only mount passes `validate_request`, then stops the session and
  fails to relaunch (`requests.py:491`); `ValidRequestRelaunches` excludes it by name.
- An agent's mount that a registration makes a parent between check and relaunch passes with the flag the
  session carries; `AgentAddsNothingBroad` is stated for an unchanged registry.
- `--allow-missing-mounts` drops missing paths but relaunches one replaced by a symbolic link
  (`wake.py:324` and 240-246); `Grants` has both operators, `MissingPaths` and `MissingNames`.
- `whiz wake` promises to preserve the prior permission set (`cli/wake.py:9-12`), but rebuilds it from the last `session_start` of the id, and `merge_agent_events` appends what the cell
  emitted under that id with its `event`, profile, mounts and overrides, forcing `origin` only (`session_log.py:313-330`, `wake.py:102-106`). `BroadIsConsented`, `OnlyWhatWasGranted` and `WithinBudget` say what holds
  in chains without such a wake (`grant.genuine`), and the first two what the profile's and the registry's gates keep in any.
  The same goes for `session_end` and `session_woken`, by which a cell may have its session found idle, or another's found woken (`SessionChain!MergeEmitted`).
- `Grants` makes these simplifications: the registry only grows, by `whiz mounts add`, the file not being edited by hand; a wake is of the last session; an emitted record with names nobody has is refused by the launch and left out; its host paths, harness and image are not
  distinguished; that a stopped session's container survives is `SessionChain`'s matter.
- A preset's duration, idle and broad-mount overrides are parsed and shown but not applied by
  `preset launch` (`cli/preset.py:236-247`); `Grants!LaunchPreset` does as the code does.

Of configuration files:

- `_atomic.py:10-14` says a reader sees the old or the new text, *never half*, and that every config write goes through it. Two writers that meet
  share one temporary name and may publish a torn text, or one fails on its rename; the `init` commands do not use it at all.
  `WholeUnlessMet` excepts both.
- Two registrations that overlap lose one (`cli/mounts.py:160`); `KeepsRegistered` excepts them.
- `cli/init.py:41` says to retry with `whiz init` after an interruption; the check refuses the files the first attempt left.
- The wizard checks once that no file is there and overwrites what other commands write afterwards (`init_wizard.py:1683`).
- The wizard's shipped Hermes preset names the profile `default` although the user may have chosen other profiles only; and the wizard accepts a mount name
  that `load_mounts` refuses. `SetupResolves` excepts both (`Unchecked`).
- `mounts add` on a fresh install makes a registry without the bundled mounts, so that a bundled preset no longer launches (`Registered` against `Loaded`).

Of Hermes homes:

- The decision on gateway locks (`docs/decisions.md`, D-87) says the block is symmetric. The lock of a gateway in a cell holds a pid of the
  cell's own numbering; the host's answer about it is arbitrary, so a live cell's lock may be cleared, or a dead one's refuse a launch (`IsPidAlive`).
  `YieldsToHostGateway` is about host gateways only.
- `_check_no_auth_json` says that every launch path fails closed (`adapters/hermes.py:313-316`), but goes on where a directory cannot be listed (353-354) or an entry cannot be examined (387-388),
  and docker mounts it unread. `MountsNoCredential` excepts what such an error hid from the second walk (`unseen`).
- `_is_pid_alive` takes any error for a dead process, as its docstring says (497-499, 510-511, 534-536, 541-542), on Windows also the refusal to open another user's; and `_read_gateway_lock` takes a lock it cannot read for absent (488-489). A launch then goes on beside a
  live host gateway, and may clear its lock. `YieldsToHostGateway` and `ClearsOnlyStale` except such launches (`blind`).
- A lock that is not UTF-8, or is JSON but no object, raises out of the preflight as a traceback (486-489, 952); `ReadGatewayLock` ends the launch.
- Two gateway launches can both pass the preflight, and the `unlink` of a stale lock takes a lock written since it was read (`adapters/hermes.py:968`).
- The second walk's `HermesAuthJsonPresentError` is not caught in `_perform_launch`: a traceback, though the teardown is done.
- A launch on a profile that does not exist makes its directory, so a later `profile create` of that name is refused; a `profile create` killed half-way leaves a partial
  home that launches accept.

## 6. Not modelled, and why

- *Path rules of the safety policy*, *durations*, *session id prefixes*: pure
  algorithms; the first is planned as operators checked against a reference definition.
  Here the tier of a path is a constant.
- *The caps of `merge_agent_events`* on size and lines: they drop records a cell emitted, which the model lets it not emit. Its effect on the log is `SessionChain!MergeEmitted`, on a wake `Grants!Found`.
- *docker's argv* (`build_run_argv`), *environment*, *image builds*, *listings*, *platform advice*: data or output
  without state of its own.
- *Hermes's environment and its per-session managed directory*: composed for one session, read by nobody else.
- *Snapshots* (`snapshot.py`): one text composed before a cell starts, not updated while it runs.
- *Credential resolution*: one subprocess call; a step of the bring-up that succeeds or fails.
- *Broker proxy*: forwards one request at a time, keeps nothing between requests.
- *The wizard's prompts, advice and builds*: what they decide is in `ConfigFiles` and `HermesHome`.

## 7. Plan

Done, in this order, the most important behaviour first: `EgressRoute` and its proofs (a cell's route and
the sweep), `Enforcement` (the cap), `SessionChain` (overlapping commands), `Grants` and its proofs; then
`SessionLife` and `RouteLease` with what implements them, `AtomicWrite` and `ConfigFiles` with their proofs, `HermesHome` with its own,
`SessionChainProofs`, `EnforcementProofs` and `SessionLivesProofs`; then theorems for what was only model-checked (`OnlyLostIsLeft`), for
the other party of a hazard (`SweepIsThorough`, `ReadersSeeOldOrNew`, `UneditedSessionsWake`) and for what the findings leave standing.

Next:

1. `PathPolicy`: the rules that yield `Tier` and `RegisteredInside`, over small path trees; `Grants`
   takes its constants from it. It needs a run of its own.
2. A wake by a record of the cell's in one run with overlapping commands: `SessionChain` and `Grants` each have their half of it.
