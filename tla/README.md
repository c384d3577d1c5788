# sshappy-tune: specification, model checking and proofs

sshappy-tune is a command line tool that tunes the TCP sysctls of a Linux host.
It computes a recommendation from the bandwidth, the RTT and the memory of the
host, writes it to a sysctl file, loads it, verifies it, and can undo what it
did from a snapshot taken before. A second part installs systemd units that
reconcile the host after a boot and verify it every six hours.

The tool has no daemon. Its concurrency is that of several *invocations* of one
binary (the boot service, the timer, an operator, `service install`) over shared
files and kernel state, kept apart by `flock`, and its hard behaviours are the
failures: commands that fail half way, values the kernel ignores, signals, kills
and reboots between any two steps, decisions made before the lock is taken.

## Inventory

| Component | State | Operations | What makes it correct |
|---|---|---|---|
| `internal/manage` Manager | live sysctls, two managed files, lock | `NeedsApply`, `Apply`, `Rollback`, `Verify` | one at a time; a failed Apply reverts; a nil error tells the truth; idempotent; applies only on drift |
| `internal/manage` snapshot store | `snapshots/<id>/snapshot.json`, `latest` | `captureSnapshot`, `writeSnapshot`, `readSnapshot`, `restoreFile` | the pointer never dangles; a snapshot is never lost; the latest one undoes a crash |
| `internal/manage` plan | none | `BuildPlan`, `RenderSysctl`, `ParseSysctlConfig` | plan, file and expected values agree |
| `internal/tune` | none | `Recommend` | the buffer stays in bounds and is the documented minimum; backlogs are never lowered |
| `internal/host` Detector | reads `/proc`, `ip`, `tc` | `Detect`, `InspectNetworkNamespace`, `ParseQdisc` | reads are not atomic and not under the lock |
| `internal/automation` Installer | profile, three units, enablement, timer, second lock | `PreflightInstall`, `Install`, `Uninstall`, `Status` | files of others that are there when it looks are kept; an installation is whole or undone; a removal is whole |
| `internal/cli` | none | the commands; `reconcileInput`, `serviceInstall` compose the others | decisions made outside the lock are still right inside it |
| `internal/runx` | the command's context | `Run` | fails at once under a cancelled context |
| systemd units | enabled links, the timer | the boot service, the periodic `verify` | the host is as the saved profile says after a boot |
| `install.sh`, CI, version | – | – | not modelled, see below |

Interaction: every `cli` command calls `Detect` and `Recommend`, then
`BuildPlan`, without any lock; `Apply` and `Rollback` take the manager's lock;
`Install` and `Uninstall` take the automation lock. `service install` runs
preflight, reconcile and `Install` in a row and rolls its own reconcile back by
snapshot ID if `Install` fails. All external commands go through `runx` with
the context that SIGINT and SIGTERM cancel.

The hazards this code is exposed to are listed at their lines in `PROJECT.json`.

## Modules

| Module | Models | Extends |
|---|---|---|
| `HostPlan` | the data: keys, files, plans, snapshots, what comparing and restoring them does | – |
| `Manager` | `Apply`, `Rollback`, `Verify` and the reconcile path by several invocations, with faults | `HostPlan` |
| `LastChange` | `Manager` with a history variable for what `rollback` promises | `Manager` |
| `HostContract` | abstract: what the manager's commands promise, each taking effect in one step | `HostPlan` |
| `ManagerRefinement` | the mapping under which `Manager` implements `HostContract` | `Manager` |
| `Installer` | `Install` with `restoreInstall`, `Uninstall`, with faults | – |
| `Service` | `service install` and `uninstall` composed of manager and installer, the boot service | `Manager`, instance of `Installer` |
| `Recommend` | the buffer arithmetic in fixed-width integers | – |
| `MCHost`, `MCManager`, `MCLastChange`, `MCRefinement`, `MCInstaller`, `MCService`, `MCRecommend` | the instances TLC checks | the above |
| `InstallerProof` | typing, exclusion and the honest answers of `Installer` | `Installer` |
| `TransactionProof` | what one failure leaves of an installation | `InstallerProof` |
| `ManagerProof` | typing, mutual exclusion and the commands of `Manager` | `Manager` |
| `RecoveryProof` | snapshots, recovery and honest exit statuses; what a command has seen of the host | `ManagerProof` |
| `RefinementProof` | that `Manager` implements `HostContract` | `ManagerRefinement`, `RecoveryProof` |
| `OutcomeProof` | reconcile, failed Apply and default rollback | `LastChange`, `RecoveryProof` |
| `ServiceProof` | `service install` and `verify` with both components running together | `Service`, `RecoveryProof`, instance of `InstallerProof` |
| `RecommendProof` | bounds and exactness of the buffer | `Recommend` |

### Manager and the code

| TLA+ | Code |
|---|---|
| `live` | the values under `/proc/sys` for `ManagedSysctls` |
| `file["sysctl"]`, `file["modules"]` | the files of `DefaultPaths` |
| `snaps`, `latest` | `/var/lib/sshappy-tune` |
| `lock` | the flock on `/run/lock/sshappy-tune.lock` |
| `pc`, `mem`, `cancelled` | the next call, the locals and the context of an invocation |
| `result` | how the last command ended, with *why* (refused, reverted, dirty) where the code has one error |
| `torn` | history only: the host before an Apply that has begun to change it and has not ended well |
| `faults`, `ops` | bounds only |

A process starts with `Begin`. `apply` and `reconcile` go through `DetectKey`
(one sysctl at a time) and `MakePlan`; `reconcile` continues with `NeedsApply`
and, without drift, with the calls of `verify`; `verify` is `DetectKey` followed
by `VerifyHost`, which reads the managed file and compares (`Verdict`,
`Observes`), both without the lock. `apply` and a `reconcile` that found drift
take `AcquireLock`, `LoadModule`, `Capture`, `WriteSnapshot`, `WriteLatest`,
`WriteSysctlFile`, `WriteModulesFile`, `LoadKey` per sysctl, `LoadEnds`,
`Verify`. Any failure after `WriteLatest` continues in `RestoreFile` (twice),
`RestoreKey` per sysctl and `VerifyRestored`; `rollback` enters there through
`ReadSnapshot`. `Return` includes the deferred `releaseLock`. Steps that only
read under the lock are one step each: the reads of `captureSnapshot`, of
`verifyExpected`, of `readSnapshot`.

`torn` is set by the first change of an Apply and cleared by `Verify` or
`VerifyRestored` when they succeed, and by `WriteLatest`: an Apply that follows a
crash takes a snapshot of the half-changed host and makes it the latest one, so
that only `rollback --snapshot` with the older ID still reaches the original
state. That is what the code does, and `Recoverable` claims no more.

Abstractions. A sysctl value is a number. Of the thirteen keys the model
distinguishes two kinds: those recommended as a function of the input, and those
of `Backlog` (`somaxconn`, `tcp_max_syn_backlog`), recommended as the larger of
`minimumBacklog` and the value the host has. The memory size in the header of
the sysctl file is part of the input. A file is what the tool can tell about it:
absent, rendered from a plan, the modules line, someone else's, or not a regular
file. What `verify` expects is `Expected`: the values of a rendered file, read
back by `ParseSysctlConfig`, and `Builtin`, the values common to all inputs, if
there is no file; of a file of somebody else the parser may return anything or
an error. That `tcp_bbr` has been unloaded, which `Verify` also looks at, is no
state of the model but a form of `drift` met by `VerifyHost`. `atomicWrite` is
one step because it renames a complete file. Snapshot IDs are taken to be fresh
(`FreshId`): they are UTC nanoseconds and only the holder of the lock takes one.
The checks of root, paths and the allowlist, and the refusal of snapshots
written by another version, come before anything is changed and are left out.
`NeedsApply` reads its two files in one step, though the code reads them one
after the other without the lock. An answer that mixes two states of the files
is one more way to act on an outdated answer, which the model has already
(`StaleReconcile`); no property says anything of a reconcile during which
someone else changes the files, but for those about what it does under the lock,
whatever led it there. A `tc` that fails under a cancelled context is only a
warning in `Detect`; the model has that case as a signal that comes right after
`Detect`, as nothing between the two looks at the context.

Faults, each switched on per run: `cmd` (a command fails), `fs` (a file
operation fails), `ignore` (the kernel keeps its value), `cancel`
(SIGINT/SIGTERM), `kill`, `reboot` (the sysctls restart from the managed file),
`drift` (someone else changes the host while the lock is free), `interfere`
(also while it is held).

### Installer and the code

`file` holds the profile and the three units, `loaded` what systemd last read
(`daemon-reload`), `linked` what is enabled, `active` the running timer.
`Preflight` is `PreflightInstall`; `Reconcile` stands for `reconcileInput`, which
ends well or not and touches none of this state; `Service` puts the manager in
its place (`OwnStep` is a step without it). `Write` takes the four files in any
order because `Install` ranges over a Go map. `UndoTimer`, `UndoApply`,
`RestoreOwned`, `ReloadRestored` are `restoreInstall`; the removal actions are
`Uninstall`. `removeIfOwned` is two steps for each file: `Remove` reads it and
judges it, `Unlink` is the `os.Remove`, which does not look again. A `systemctl
enable` or `enable --now` may fail before or after it has made the link; a
`disable` of a unit whose file is gone, here and in `restoreInstall`, may or may
not remove the link, and its error is dropped (`isMissingUnitError`). A unit that
is missing, or has a directory in its place, is not enabled; one of someone else
may or may not be.

The faults are `cmd`, `fs`, `cancel`, `kill` and `reboot` as above, and
`interfere` (`AdminChanges`): the administrator replaces or removes one of the
four files, or disables a unit, *at any time*. The automation lock is advisory
and binds only this tool, so a file replaced after `capture` is overwritten by
`atomicWrite`, and one replaced between the two steps of `removeIfOwned` is
removed. The history variable `others` records which files and units somebody
else has changed since the lock was last taken and its holder last looked at
them: `AdminChanges` adds to it, `Acquire` and `Capture` empty it, `Remove` takes
out the file it has read. No action reads it; the properties use it to say of
which files they speak. `capture` reads its four files in one step: a change
that comes between two of the reads is, for the files read before it, one that
comes after `capture`, and for the others one that comes before it.

### HostContract

The contract has no lock, no order of calls and no fault but "the world outside
intervened". A command is asked, may save the host and point `latest` at what it
saved, and answers; with its answer the host changes at once. `applied` and
`restored` mean the whole goal, `refused`, `unchanged`, `reverted` and the
verdicts of `verify` mean no change, `dirty` and `killed` that every sysctl and
every file is as before or as intended, and, for an Apply, only if the snapshot
named by `latest` is the host from before. `ManagerRefinement` adds one history
variable, `base`, the host when the lock was taken; to the contract the host is
`base` while the lock is held (`Visible`). `Archive` forgets the IDs inside the
snapshots, `Asked` keeps of a running process only its command. Thus
`ImplementsContract` says that the flock makes commands of several invocations
atomic.

### Service and the code

| TLA+ | Code |
|---|---|
| the variables of `Manager` | as above, one `pc` for the manager's part of each process |
| `owned`, `loaded`, `linked`, `active`, `ilock`, `ipc`, `imem`, `iresult`, `icancelled` | the variables of `Installer`, renamed |
| `made` | `result.SnapshotID` in `serviceInstall` when `result.Changed` |
| `booting` | the boot has not reached the enabled `apply.service` yet |
| `was` | history only: host and owned files when p's command began, forgotten as soon as someone else changes them |

`InstallerStep` is a step of `Installer`; when it comes to the reconcile it starts
the manager's part (`StartReconcile` with the profile's input), and when the
installation ends with an error and a snapshot was made it starts the rollback
to that ID. `ReconcileStep` is a step of `Manager` within `service install`; its
end leads to `Install` or ends the command. `ManagerStep` is a manager command of
its own, or that rollback. `ManagerCommand` gives `reconcile` the input of the
saved profile. One signal cancels the one context both parts use; a kill ends
both; a reboot ends everything, and if the unit is enabled and its condition
holds, `BootService` runs the reconcile once.

### Recommend and the code

The operators have the names of `recommend.go`. The behaviours ask for one
recommendation after another, with any accepted inputs. `saturatingProduct(a, b,
c)` is written as nested binary products, starting from 1 as the loop does.
`profile.MemoryMB * MiB` wraps in Go, hence `Wrap`. With the limits of the code
(100000 Mbps, 2000 ms) a product never saturates in 64 bits; the instance TLC
checks is scaled down so that it does, and the proofs are for every limit and
width.

## Runs

| Run | Checks | Bounds |
|---|---|---|
| `ManagerFaults` | `TypeOK`, `MutualExclusion`, `Recoverable`, `HonestOutcome`, `RollbackUndoesCrash`, `ImplementsContract` | 2 processes, 2 commands, 2 faults of 6 kinds |
| `ManagerInterference` | `LatestExists`, `SnapshotsKept`, `CommandsEnd` | 2 processes, 2 commands, 1 fault of `fs`, `cancel`, `kill`, `interfere`; fair |
| `ManagerAlone` | `FailedApplyReverts`, `ReconcileNeedsDrift`, `BacklogNeverLowered`, `Idempotent` | 1 process, 4 commands, 1 fault (no signal), nobody else changes the host |
| `RollbackLatest` | `RollbackUndoesLastApply` | 2 processes, 3 commands, 2 IDs, 1 `drift`, no failure |
| `InstallerOneFailure` | `ForeignKept`, `InstalledWhole`, `InstallIsTransaction`, `FirstInstallLeavesNoUnit` | 2 processes, 2 profiles, 3 commands, 1 fault of all kinds, `interfere` included |
| `InstallerRemoval` | `TypeOK`, `StatusHidesNothing`, `RemovedWhole`, `UndoneIsUndone` | 2 processes, 3 commands, 2 faults of `fs`, `kill`, `reboot` |
| `Service` | `InstallAllOrNothing`, `InstallTunes`, `VerdictIsRight`, `BootTunes` | 2 processes, 2 commands, 1 fault of `cmd`, `fs`, `cancel`, `kill`, `reboot`; 1 key; fair |
| `Recommend` | `BufferInBounds`, `BufferAsDocumented` | 16-bit integers, a MiB of 3 bytes, 11 x 9 x 14 inputs |

Four more runs expect a violation; each shows a statement of the documentation
or of a test that the code does not keep (`findings` in `PROJECT.json`):

- `StaleReconcile`: two invocations, no fault. A reconcile that decided on drift
  before the other one applied takes the lock after it and creates a snapshot of
  the tuned host, which becomes `latest` (README.md:40, 141).
- `StaleBacklog`: a backlog raised between `Detect` and the lock is lowered
  (README.md:178).
- `CancelledApply`: a signal during `Apply`; the automatic rollback runs under the
  cancelled context, so that no `sysctl -w` of it runs (manager_test.go:96).
- `RollbackAfterFailure`: a failed, reverted Apply leaves `latest` at its own
  snapshot; the next rollback restores the state after, not before, the last
  successful change (README.md:151).

Why the bounds are enough. Two keys give every loop a first and a last key and
one key of each kind; two inputs let two plans differ; values below, at and
above the floor are 0, 1, 2. Two invocations are all a lock or a stale decision
needs, and a third command lets a rollback follow an Apply that follows another;
alone, a process gets four, so that a reconcile can follow a rollback of a
second Apply. `RollbackLatest` has two IDs, as its third command is the rollback
that follows two snapshots. Two faults let one strike while the other is being
repaired: a kill, then a failing restore; a failure, then a signal during its
rollback. One fault is the right bound for `FailedApplyReverts`: a second one
may hit the automatic rollback itself, which then reports an error and restores
what it can. `ManagerFaults` leaves out `drift`, changes by others while the
lock is free: it triples the states, `ManagerInterference` has the stronger
`interfere`, and the proofs of its invariants include it. `Service` has one key,
since the loops over keys are the business of the manager's runs. As that key
differs between the two inputs, `Builtin` is empty there, and of a `verify`
without a managed file only the proof (`VerdictIsTrue`) says something. The run
starts without managed files, with the first command a `service install` of a
given process (processes are alike; two manager commands are covered above), and
hands out snapshot IDs in order, which loses nothing because IDs are only
compared for equality. The administrator is left out of the composition. One
fault fails an installation after its reconcile, in any of its steps, while a
second command of any kind runs at any point; or it is the reboot after which
`BootTunes` asks what the boot service achieves. The proofs below remove the
bounds from the properties they cover. `CHECK_DEADLOCK FALSE` because an
execution ends once `MaxOps` commands have ended; `Recommend` never stops and is
checked for deadlock.

Fairness. `FairSpec` is weak fairness of `Step(p)` for every process, `SFairness`
the same for `Act(p)`, a step of either component: a process that is running is
scheduled, and the external commands it waits for end. `SFairness` also asks that
a boot comes to the unit it has enabled (`BootService`), which is systemd's work.
Nothing is assumed of the start of commands, of faults or of the other users of
the host. The code has no timeout, so a command that never returns is outside
the assumption; in the boot service `TimeoutStartSec=60` turns it into a signal
and a kill.

Exemptions the code forces. `FailedApplyReverts` and `FirstInstallLeavesNoUnit`
hold without signals only, see `CancelledApply`; `FailedApplyReverts`,
`InstallIsTransaction` and `FirstInstallLeavesNoUnit` for a single failure, as a
second one can strike the undo (`UndoneIsUndone` and `ImplementsContract` say
what holds then). `ForeignKept`, `InstalledWhole`, `InstallIsTransaction` and
`UndoneIsUndone` do not speak of a file in `others`: the tool overwrites or
removes what an administrator puts in its place after it has looked, without a
word. They do speak of the other three files, of every file replaced before the
look, and of what happens when the replaced file is one `Install` cannot write.
`InstallAllOrNothing`, `InstallTunes` and `VerdictIsRight` are about commands
during which nobody else changed the host: another invocation between the two
parts of a `service install`, or between the two reads of `verify`, makes them
false, and the code has nothing against it. `InstallAllOrNothing` exempts an
undo that itself reports an error: the rollback that fails or finds the
manager's lock taken, and `restoreInstall` (`"dirty"`), also if the rollback
after it succeeds, as both errors are joined. `BootTunes` asks that nothing
fails and nobody runs another command after the boot. `InstallerRemoval` has no
failing command: after a failed `systemctl disable` the unit files are removed
anyway, and a retry may report success although the link is left, which `service
status` then does not show. `ReconcileNeedsDrift` and `BacklogNeverLowered` are
checked with one process on a host nobody else changes; the violation runs show
what happens otherwise. Both are about sysctls `Detect` could read: an
unreadable one counts as drifted, and an unreadable backlog as too small, so
that it may be lowered to 8192 (`maxParsed`). `Recoverable`, `HonestOutcome` and
`RollbackUndoesCrash` do not hold if someone changes the host while the lock is
held: the lock is advisory.

## Proofs

All proofs are checked by `tlapm`. They hold for every set of keys, values,
inputs, profiles, processes and IDs, every subset of faults, and every bound.
They rest on the named assumptions of `HostPlan`, `Manager`,
`ManagerRefinement`, `Installer`, `Service` and `Recommend` (`None` is no value,
ID, input, result or command; `Tuned` maps inputs to values and `Builtin` keys
to values; `Free` is no process; a rendered file, or a profile, is distinct from
the special file contents, which differ from each other, and from the texts of
the units; there is a profile; the limits are positive and 256 MiB fits an
integer).

`ManagerProof`. `TypeInv` strengthens `TypeOK` with `LocalsOf`: which locals a
process has at which call (a plan after `detect`, a snapshot from
`writeSnapshot` on), without which the assignments that read them cannot be
typed. `MutualExclusion` is inductive together with the typing of the control
variables. `CommandInv` says that a process at any call has been asked something,
and that it still holds the plan `BuildPlan` made for its input from the values
it saw; `StepForm` sorts every step into one that goes on, one that takes the
lock and one that returns. Both are what the later modules build on.

- `TypeCorrect`: `Spec => []TypeOK`
- `Exclusive`: `Spec => []MutualExclusion`

`RecoveryProof`. The lemma `Isolation` says what the flock is for: while a
process is inside the lock, no step of another process changes a snapshot, the
pointer, its locals, or (without interference) a file or a sysctl. With it each
invariant about a process inside the lock has only that process's own steps to
survive. The inductive invariants are

- `SnapshotInv`: a process about to write its snapshot has an ID nobody uses, and
  finds the snapshot on disk under it from then until the host is touched; hence
  `PointerSafe` (`LatestExists`) and `SnapshotsNeverLost` (`SnapshotsKept`), both
  under every fault, interference included;
- `RecoverInv`: between `captureSnapshot` and the first change the snapshot in
  memory is the host as it is, and `latest` names it before the first change;
  hence `Recovery` (`Recoverable`) and `CrashUndone` (`RollbackUndoesCrash`);
- `HonestInv`: which files already agree with the plan or with the snapshot, at
  each call of Apply and of the restore, and that a default rollback holds the
  snapshot `latest` names; the sysctls need no invariant because the last step
  of both compares all of them. Hence `Honest` (`HonestOutcome`).

`Recovery`, `CrashUndone` and `Honest` assume that nobody else changes the host
under the lock (`"interfere" \notin Faults`).

`RefinementProof`. `Refinement` is `RSpec => ImplementsContract`. It adds to the
invariants above `BaseInv` (`base` is a host exactly while the lock is held) and
`WorkInv`: under the lock each sysctl and each file is as in `base` or as in what
the command is about to establish (`Halfway`), and an Apply that has begun has
its snapshot of `base` on disk under `latest`. Then each action has its lemma:
one that goes on shows nothing (`QuietStep`) or saves a snapshot
(`LockedGoesOn`), one that returns answers, and its answer tells the contract what
the host has become (`ModifyRefines`, `RestoredRefines`, `EndsPartly`); a kill or
a reboot is a "killed" answer, to every process that ran
(`KillRefines`, `RebootRefines`). It assumes that nobody changes the host under
the lock.

`OutcomeProof` proves what does not hold in general, each part under the
circumstances in which it does; the violation runs show that they are needed.

- `Alone`, one invocation at a time and nobody else changing the host, with any
  number of failures, signals, kills and reboots. `SeenInv` (of `RecoveryProof`,
  as `ServiceProof` needs it too) says that what
  `Detect` saw is still so up to the first sysctl assigned, that a reconcile on
  its way to the lock has seen a drift that is still there, and that one which
  found none looks at a host that would be planned the same again. Hence
  `ReconcileHasReason` (`ReconcileNeedsDrift`), `BacklogRaised`
  (`BacklogNeverLowered`) and, with `PlanAgain`, `ReconcileIdempotent`
  (`Idempotent`). `StaleReconcile` and `StaleBacklog` break them with a second
  invocation and with a change by somebody else.
- `OneFault`, at most one fault, no signal and nobody changing the host under the
  lock, with any number of invocations. An Apply turns back only after a fault
  (`Flawless`: before it, every step did what it should), so that its restore
  meets none (`Undoing`). Hence `FailureUndone` (`FailedApplyReverts`).
  `CancelledApply` breaks it with a signal.
- `NoFailure`, nothing but changes by others while the lock is free, with any
  number of invocations. `BeforeInv`: unless an Apply is at work, `latest` names
  the host from before the last one. Hence `LastApplyUndone`
  (`RollbackUndoesLastApply`). `RollbackAfterFailure` breaks it with a failure.

`InstallerProof`. `LockIsolates` is the same idea for the automation lock: while a
process is inside it, no step of another one changes a file, what systemd knows
or the locals of the first. `InstallerInv` adds to the types and to exclusion
what a process inside the lock knows, whatever was killed before it:

- `OwnFiles`: from the first write to the end of the undo every file and every
  backup is ours or absent, because `capture` looked under the lock; hence
  `ForeignFilesSurvive` (`ForeignKept`);
- `Progress`: the files written so far, the units systemd has read and the link
  made so far are still so; hence `InstalledMeansWhole` (`InstalledWhole`);
- `Restored`: what `restoreOwnedFiles` has put back is still so, unless an error
  is noted; hence `UndoneMeansUndone` (`UndoneIsUndone`).

All three are stated file by file, for the files outside `others`: a change by
the administrator takes the one file it concerns out of them and leaves the rest
(`PhaseAmidChanges`). `InstallerTypeCorrect` is `Spec => []TypeOK`. These hold for
every kind and number of faults, and for changes by the administrator at any
time, under the lock too, with the exception that each property names: what he
has changed after the tool looked. Two more assume `Obedient`: no
systemctl command fails or is cancelled and the administrator changes nothing,
while file operations fail, processes die and the host restarts at will.
`RemovalInv` says that an enabled unit has its file and a profile (`Backed`), that
nothing `restoreInstall` is going to remove is enabled (`Removable`: only a failed
write leads to it, before the first `enable`), and how far a removal has come
(`Withdrawn`); hence `StatusIsComplete` (`StatusHidesNothing`) and
`RemovedMeansRemoved` (`RemovedWhole`).

`TransactionProof` assumes at most one fault, of any kind (`OneFault`), signals
and a change by the administrator included. Up to the fault the host is as
`RemovalInv` says, since a step without a fault is one in which systemctl does
what it is told (`Docile`, `ObedientIsDocile`). `UndoInv` says that an installation
turns back only after the fault, so that `restoreOwnedFiles` meets none but the
file the administrator replaced, and that what `restoreInstall` has disabled
stays so; under a cancelled context its commands fail nevertheless (`Spent`: the
signal was the fault), which is why `FailedInstallRestores`
(`InstallIsTransaction`) covers an interrupted installation and
`FailedInstallDisables` (`FirstInstallLeavesNoUnit`) does not.

`ServiceProof`. A step of `Service` is a step of `Manager`, the start of one of
its commands, or leaves its variables alone (`ManagerSide`), and the same for
`Installer` (`InstallerSide`). So each keeps the invariants of its own proofs, and
with them holds `Joined`: which part of a process runs, and which snapshot its
installation remembers. Together they are `JointInv` (`BothKeepTheirInvariants`).
`HistoryInv` adds what a command knows from its start on, until someone else
changes the host or the owned files:

- `SeenInv` as above: what it has read is still so; hence `VerdictIsTrue`
  (`VerdictIsRight`);
- `StaysTuned`: from the end of its reconcile to the end of the installation the
  host is tuned for the profile it installs; hence `InstallHasTuned`
  (`InstallTunes`);
- `Reconciling`, `Installs`, `RollsBackAll`: the snapshot its reconcile made is the
  host from before, under the ID the installation remembers, and the backups
  `Install` takes are the owned files from before; hence `InstallIsUndone`
  (`InstallAllOrNothing`).

The four theorems hold for any number of invocations, and of faults of every kind
that is an action of `Service`: failing commands and file operations, ignored
values, signals, kills and reboots. `Service` has no action of the administrator,
so they say nothing about his changes.

`RecommendProof`. `ProductExact` and `SumExact`: a saturating operator returns
the exact result or `MaxInt`, whichever is less. `SaturateOnce`: a chain of them
saturates once. So `TargetBuffer` is the exact target cut at `MaxInt`, and the
cap, at most 256 MiB, hides that cut.

- `BufferBounded`: also when memory in bytes overflows
- `BufferDocumented`: when memory in bytes fits an integer

Only model-checked: `CommandsEnd` and `BootTunes`, as liveness is outside the
prover's reach. Every safety property of a run is also a theorem; those a
violation run refutes hold under the circumstances given with their theorems.

## Not modelled

- `ParseQdisc`, `assess`, `InspectNetworkNamespace`, `validInterface` and printing:
  they produce text and warnings for the operator; no command changes anything
  because of them.
- `service status`, `detect`, `inspect-container`, `recommend`, `apply --dry-run`:
  read-only, and nothing is decided from what they read. Of `service status` the
  model has what it concludes from a missing profile.
- Flag parsing, the confirmation flags, the root and allowlist checks, the
  versions of snapshots and profiles: refusals before anything is changed.
- Whether the kernel has `bbr` at all: `LoadModule` or `sysctl -p` fails if not.
- `install.sh`, CI, version: no state of this program.
- Loss of a rename at a power failure (`atomicWrite` syncs the file, not its
  directory), an external command that never returns, a `sysctl -p` that
  outlives its killed parent.

## Plan

Done: `HostPlan`, `Manager` with `verify`, `LastChange`, `HostContract` and its
refinement, `Installer`, `Service`, `Recommend`; proofs about each of them.

Next: circumstances that are wider than a proof now needs. `Alone` could allow
other invocations that only read, and `OneFault` and `NoFailure` the faults that
do not touch the restore. Then the hazards without a property, each of which
needs the model to tell apart something it does not tell apart yet (see the notes
in `PROJECT.json`).
