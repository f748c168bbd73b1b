# CachyFreeze in TLA+

CachyFreeze gives a CachyOS machine two modes. **THAWED** is the persistent
system in the Btrfs subvolume `@`; **FROZEN** is a disposable copy, `@active`,
made at every boot from the read-only baseline `@golden`, which `freeze`
publishes. Everything that can go wrong lies between durable steps: the machine
loses power in the middle of a publication, of its recovery, or of the recovery
of that; two programs with different rules (the Python engine and a shell script
in the initramfs) repair the same disk; GRUB reads what both of them wrote. Beside
it stand a deletion that cannot be undone, the migration of the snapshot history of
earlier releases; an installer that has to put back what it found; callers that act
on what they were told a moment ago, a window and a playbook; and a policy that
powers an idle machine off, which two programs carry out through a pipe.

This directory models those steps, checks them with TLC and proves the main
results with TLAPS.

## The system

| Part | Source | State it keeps | Operations |
|---|---|---|---|
| Transaction engine | `src/cachy_freeze/engine.py` | the managed subvolumes | `status`, `freeze`, `thaw`, `boot-success`, `preflight`, `migrate` |
| Operation journal | `catalog.py` | `transaction.json`: one of five phases | `begin`, `set_phase`, `finish`, `load` |
| Process lock, top mount | `runner.py`, `engine.py` `mounted_top` | an flock; whether `subvolid=5` is mounted | acquire without waiting; mount, borrow, umount |
| Initramfs reset | `deepfreeze/initcpio/cachy-freeze-reset` | `active-reset-boot-id` | recover, validate, recreate `@active`, prove |
| GRUB | `deepfreeze/grub/99_cachy_freeze` | `grubenv`: `cachy_mode`, `cachy_remote_auth` | choose mode, root and kernel |
| Boot-health service | `deepfreeze/systemd` | none | one `boot-success` in each boot |
| Legacy migration | `engine.py`, `versioning.py` | `snapshots.json`, `history-migration.json`, `schema-version.json` | `migrate` |
| Command line | `cli.py` | `status.json`, written after the lock was released | a command, then the status under a second lock |
| Installer | `installer/install-freeze-engine.sh` | files, two program trees with `.next` and `.previous`, boot images and configuration | install, roll back, migrate |
| Manager application | `app/cachy_freeze_gui` | last status, one running helper | status, freeze, thaw, reboot, setup |
| Idle policy | `workstation/idle` | sessions, an agent and its pipe | lock, power off |
| Fleet maintenance | `ansible/` | what a playbook registered | thaw, update, freeze, verify |

The parts meet on the disk. The engine writes the journal and renames
subvolumes; the reset, in another boot, restores predecessors and moves the
journal away without looking at its phase; GRUB takes the FROZEN kernel from
`@golden` and the mode from `grubenv` in `@`; the reset proof, written before
switch-root, is what the engine accepts a FROZEN boot by. The lock orders the
engine's commands, but `preflight` shares the top-level mount without it.

What is hard, and what makes each part correct:

* **Engine and reset**: a crash between any two steps. The baseline is complete,
  never used, never lost; what is pending is owned by a journal; a reported
  success is one.
* **Reset**: a proof of an earlier boot, a second request after `/sysroot` is
  mounted, a command that fails under `set -e`. What is handed to switch-root is
  fresh, and a live root is never taken.
* **Lock and mount**: a mount that is borrowed from a process which leaves first.
* **GRUB**: the passwordless boot must not outlive the first THAWED boot whose
  `boot-success` comes to its end, nor be carried along by a new schedule.
* **Migration, installer**: crashes around the commit boundary of a deletion. Only
  what is provably owned is deleted, and a run that stopped can be resumed.
* **Idle policy**: events that are lost with a process, arrive together, or reach
  the supervisor after the fact. An idle session is locked, an idle machine is off.
* **Application, playbook**: acting on a status that is no longer true.

## The modules

| Module | What it is |
|---|---|
| `TwoModes` | the abstract specification: `@`, what a freeze captured of it, the baseline, the scheduled mode and its authorization, the session |
| `FreezeState` | the state that all programs share, and the operations on a subvolume |
| `FreezeEngine` | the engine's commands and its recovery, one action per durable step |
| `InitramfsReset` | the reset, its two ways of failing, `/sysroot` and switch-root |
| `CachyMachine` | both under GRUB, power failures and the administrator; the properties |
| `CrashRecovery` | the machine with fairness and a bounded number of crashes; liveness |
| `TopMount` | several processes, the lock and the mount |
| `BaselineCapture` | how a candidate is made while the system below it is in use |
| `CommandLine` | several callers of one host's commands, each command cut down to what `TwoModes` tells apart |
| `Manager` | the window of the manager application and its helper |
| `FleetMaintenance` | the maintenance playbook, task by task |
| `ManagedHost` | window, playbook and boot-health on one host; the properties |
| `Installer` | runs of the installer, its rollback and its commit boundary |
| `LegacyMigration` | `migrate`, with stops, retries and an outsider |
| `IdlePolicy` | agent, pipe and supervisor, the user, the clock and logind |
| `DocumentedClaims`, `MigrationClaims`, `IdleClaims`, `FleetClaims` | what documents and comments say and the code does not do |
| `CachyMachineProofs`, `CrashRecoveryProofs`, `TopMountProofs`, `BaselineCaptureProofs`, `ManagedHostProofs`, `InstallerProofs`, `LegacyMigrationProofs`, `IdlePolicyProofs` | the theorems |

`FreezeState`, `FreezeEngine` and `InitramfsReset` make up `CachyMachine`;
`CommandLine`, `Manager` and `FleetMaintenance` make up `ManagedHost`. `TwoModes` is
the abstract specification of both: the first implements it, and the second, which
starts in an installed FROZEN session, takes only its steps.

### State

`subvol` maps each of the seven managed names to `Absent` or to a record. `base`
is the version of `@` the content comes from, `whole` says that the captured
data mounts have all been copied in, `used` that a session wrote to it, `ro` is
the Btrfs property. The code only sees existence and `ro` (the five required
boot files are there from the first snapshot on, so they tell no two reachable
states apart): `whole` and `used` are there to say what the validation cannot.
`maintenance` is the version of `@`; an `Edit` changes it. `journal` is the phase
in `transaction.json`. `marker` is `active-reset-boot-id` relative to the
running boot: `PowerOff` turns `current` into `stale`. `cmd` and `pc` are the
command that holds the lock and its next step; `rpc` is the next step of the
reset. The position inside a loop of deletions is read off the disk, as the code
does: it deletes the first name of its list that exists.

### Actions and code

| Code | Actions |
|---|---|
| `_recover_transaction_locked` | `RecoverNothing`, `RecoverRefuses`, `RecoverRollsBack` `Rollback` `RollbackDone` `RestoreMode`, `RecoverRollsForward` `RecoverRefusesPair` `Cleanup` `CleanupDone`, `Close` |
| `freeze` | `Begin` `SnapshotCandidate` `CaptureSources` `Flatten` `DropCapture` `Seal` `DeriveActive` `Prepared` `GoldenOut` `GoldenIn` `GoldenCommitted` `ActiveOut` `ActiveIn` `ActiveCommitted` `ScheduleFrozen` `BootCommitted` `Cleanup` `CleanupDone` `Finish` |
| `thaw`, `status` | `Thaw`, `Status` |
| `mark_boot_successful` | `VerifyFrozenBoot`, or `VerifyThawedBoot` `DiscardRuntime` `RuntimeDiscarded` `ForgetProof` `RevokeRemote` |
| `recover_baseline_transaction` | `Reconcile` `ReconcileDone` |
| `main` of the reset | `ProbeAgain`, or `ProbeFirst` … `Validate` `Clear` `Derive` `Drop` `Swap` `Prove` |
| `fail`, `set -e` | `ResetFails`, `ResetAborts` |
| `emit_entry` | `BootThawed` `BootFrozen` `BootFindsNoKernel` |

`CommandFails` is an exception at any step of an engine command: it leaves the
disk as it is, and the lock is released. Preconditions that only fail on a disk
nothing here produces (a missing `@`, a damaged `grub.cfg`) are covered by it.

**Crash model.** One action is one durable operation, and a crash falls between
two of them. Btrfs commits in order, subvolume deletions use `--commit-after`,
phases are written with fsync and rename, and the code syncs after each
replacement; losing a suffix of unsynced operations is the same as crashing
earlier. `PowerOff` also stands for a reboot.

`TopMount` looks at the processes instead. Every locked command is reduced to a
freeze: recover, publish, clean up, close. A command on a subvolume raises when
TOP is not mounted, but `_subvolume_exists` takes every failure for absence, so
only the cleanup goes on. `Kill` runs no `finally` clause, and `Leave` may leave TOP
mounted for any reason: `umount` runs with `check=False`, and a shell or an indexer on
the mount is enough.

`BaselineCapture` opens up the one step in which `FreezeEngine` makes a candidate. A
*place* is `@`, a standard mount such as `/home`, or a subvolume nested in `@`.
`content` is the number of the move that last wrote it, `window` its versions since
the snapshot of `@`, and `unseen` the places whose shape (a subvolume or not, one
inside or not) changed after the engine looked at them for the last time.

| Code | Actions |
|---|---|
| `_baseline_layout`, `_mounted_baseline_sources` | `ReadMounts` `CheckUnmounted` `ListNested` `CheckPath` |
| `_prepare_golden_candidate` | `SnapshotRoot` `CreateCapture` `LookAgain` `TakeSource` `ClearDestination` `CopySource` `DropCapture` `Seal` |
| a check that says no; anything else that ends it | `Refuse`; `Stop` |
| the administrator | `Write` `MakeSubvolume` `DeleteSubvolume` `MakeForeign` `DeleteForeign` `MountOrUnmount` |

`CommandLine` is the host as its callers meet it. A publication is three steps, the
snapshot, the boot-committed phase and the cleanup, and it can stop between them while
`@` goes on changing; the recovery, the reset and GRUB do what `FreezeEngine` and
`InitramfsReset` do step by step. What
is not cut down is the order of `main`: the mode is looked at before the lock, the
lock is taken without waiting, the command runs, the lock is released and taken again
for a second status, that one is written to `status.json` with no lock at all, and only
then does the caller learn of success.

| Code | Actions |
|---|---|
| `ProcessLock`, `freeze`, `thaw`, `mark_boot_successful`, `status` | `Invoke` with `Allowed`, `Enter`, `Recover`; `Snapshot` `Commit` `FreezeStops` `Publish` `Thaw` `BootSuccess` `Status` |
| `main`: the second status, the cache, the exit code | `Relock` `ReadStatus` `WriteCache` `Fails` |
| GRUB, the reset | `HostDown` `HostBootsThawed` `HostBootsFrozen` `HostBootFails` |
| `MainWindow` | `OpenWindow` `CloseWindow` `Click` with `Enabled`, `RefreshLocal`, `StatusChanged` |
| `BackendClient` | `Authorized` `NotAuthorized` `Failed` `StatusFinished` `ModeFinished` `RebootFinished` |
| `maintenance.yml` and its role | `StartPlay` `Ask` `Answered` `CommandTaskFails` `UpdateStarts` `UpdateEnds` `UpdateFails` `RebootTask` `Reconnects` `RebootTimesOut` `WriteMarker`, and `ConnectionLost` when the host goes down |

A click includes the question that follows it, because the window is modal while it
asks. A window that is closed while its helper runs is not modelled, nor are two
windows: the application has one instance. The window's `verified`, `shown`,
`rebootDue` and `rebootOffer` are the fields and widgets of the same names.

`Installer` is the script between its first change and its last. Files that are
copied over the installed ones are one variable each for the command line and for the
rest; a tree has a place, a `.next` and a `.previous`. A step that does not come to its
end leaves `mixed`, except a rename. `Fails` runs the ERR trap, `FailsInRollback` goes
on under `set +e`, `FailsCommitted` has no trap any more, and `Killed` runs nothing:
the next run starts from what is there.

| Code | Actions |
|---|---|
| up to `trap - ERR` | `Begin` `InstallTool` `Stage` `Retire` `MoveOut` `MoveIn` `InstallFiles` `BuildBoot` `Check` |
| after it | `Migrate` `RetireUnits` `Clean` |
| `rollback_boot_configuration` | `Restore` `Drop` `Back` `Rebuild` |

`LegacyMigration` has the lock to itself, so one run at a time. Its state is the
disk: what each name in `@cachy-snapshots` is, the catalog `snapshots.json`, the
record `history-migration.json`, the old transients and the schema version. `todo`
is the listing that the run proved its ownership by. Names are numbers, in the
order the loop sorts them.

| Code | Actions |
|---|---|
| `StateMigrationManager.status` | `CheckVersion` |
| `_delete_legacy_history_locked` | `Check` `WriteRecord` `DeleteChild` `MarkDeleted` `DeleteParent` `UnlinkCatalog` `UnlinkRecord` |
| `migrate_state` | `DeleteTransients` `RecordSchema` `UnlinkObsolete` |
| a failed command, a kill, a crash | `Stop`: the disk is all that is left (`stopped` differs from `idle` only in how the last run ended) |
| the administrator | `Meddle`: a child appears, goes or becomes a directory |

`IdlePolicy` counts idle time in thresholds. `pipe` is what the agent has written,
`buffer` what Python's `readline` took out of the pipe and has not returned:
`select` sees the first and not the second. `flags` are the agent's two emitted
flags, `armed` its `catchNextResumeEvent`.

| Code | Actions |
|---|---|
| the agent | `AgentWarns` `AgentReady` `AgentInitial`, and `TimeoutReached`, `Resumed` inside `ThresholdPasses` and `Input` |
| `serve` | `FindSession` `SpawnAgent` |
| `supervise_session` | `Poll` `SelectTimeout` `ReadLine` `TerminateAgent` |
| `handle_event`, `lock_session`, `power_off` | `HandleEvent` `LockSession` `LockFails` `PowerOff` `PowerOffFails` |
| `command` with its timeout, `Restart=always` | `SupervisorDies` `ServiceRestarts` |

A threshold is at least a minute, and what the two programs do between two waits
takes seconds (a command is given up after 15): it passes only while both wait.
How long each wait lasts is not modelled, only what ends it. What `KIdleTime`
reports at the start is taken for the true idle time.

## The runs

| Run | Bounds | Shows |
|---|---|---|
| `machine` | two versions of `@` | 8 invariants, `LiveRootKept`, refinement of `TwoModes` |
| `crash_recovery` | two versions, five crashes | `NeverRefused`, `AuthorizationConsumed`, `TransactionEnds`, `MachineComesUp` |
| `top_mount` | three commands, two preflights | `BodyMounted`, `NothingUnowned`, `OwnMountHolds` |
| `baseline_capture` | two mounts, one nested source, two moves, two stops | `TypeOK`, `SealedIsWhole`, `RetriesSeal` |
| `managed_host` | one manager, one playbook, boot-health, two versions of `@` | `ButtonsFitTheMode`, `VerifiedShowsTruth`, `ConsumedBeforeUpdate`, `EndsUpdated`, `AuthorizationLasts`, `StepsOfContract` |
| `installer` | two trees, four failures or kills | `TypeOK`, `RollbackRestores`, `EngineKept`, `NoOldEngineBeside`, `SuccessIsWhole`, `MigratesComplete` |
| `legacy_migration` | three children, two transients | `TypeOK`, `RetryAccepted`, `SchemaLast`, `DeletesOnlyOwned`, `RetriesConverge` |
| `idle_policy` | two sessions, three thresholds | `TypeOK`, `PolicyInTime`, `SupervisionSettles` |

`machine` has no bound on crashes, failures or commands: its state is finite as
it is, and TLC visits all of it (about 40 000 states). Two versions are enough to
tell a published baseline from its predecessor and from a changed `@`; the proofs
hold for any set. Five crashes in `crash_recovery` let a freeze crash, then its
recovery, then the reset that follows, then the recovery again, with one to
spare. `AuthorizationConsumed` is about the THAWED boots whose boot-health service got
the lock and whose `boot-success` was not cut off; of the others see the disagreements
below. In `top_mount` (about 20 000 states) three commands include one that comes while
one leaves and one arrives; two preflights let one mount over the other. `BodyMounted`
and `NothingUnowned` are about the time until a preflight comes in (`shared`), which is
where the lock is all there is: what a preflight does to a command that borrowed its
mount they do not see.

`baseline_capture` (about 375 000 states) has a source of each kind and a second one
for the loops; the nested source and a mount together give the layout each order of
looking and taking. Two moves let a place change and change back or two places change
in either order; two stops let a retry be stopped as well.

`managed_host` (about 1.4 million states, a good minute) bounds nothing: neither
reboots, nor plays, nor clicks, nor failures. It begins in the FROZEN session the
playbook and the manager are for. Two versions of `@` are all that an update tells
apart: before it and after it. `EndsUpdated` excepts a host that went down between the
play's check and its freeze; a power failure or a user's reboot there really makes the
play update one boot and freeze another.

`installer` (about 1.1 million states) bounds failures, not runs. Four are enough for
a run that is killed, another that fails and whose rollback fails, and a last one. Its
two exceptions are the code's: `torn` is a kill between the two renames of a tree, or
anything of a rollback that failed. A run killed between the renames leaves the only
copy of a tree in `.previous`; if the next run fails after it has removed the stale
`.previous`, the tree is lost.

`legacy_migration` (about 230 000 states) bounds neither stops nor meddling. It
starts from every combination of children, catalog, transients and version; three
children have a first, a middle and a last deletion. `DeletesOnlyOwned` holds with
an outsider at any step, because the loop deletes what it listed and asks Btrfs
again before each deletion; `RetryAccepted` is about machines nobody meddled with.
`idle_policy` (about 27 000 states) bounds no failures either. Two sessions let one
take the place of the other; the third threshold is there to see a machine stay on.
`PolicyInTime` holds whatever failed before, with one exception that it names: an
event in the buffer of `readline`.

Deadlock is checked in every run but `crash_recovery`, where the machine may stop
for good: GRUB without a kernel and no crash left.

Four runs end in a violation, each of one sentence of a document, a comment or a
message:

* `frozen_boot_finds_kernel` — *"An interrupted FREEZE transaction is recovered
  fail-closed"* (`docs/threat-model.md:24`). With FROZEN still scheduled from an
  earlier freeze (freeze, then freeze again before rebooting), a crash between
  the two renames of golden leaves GRUB no `@golden` to load the kernel from, so
  the initramfs that would restore it never starts.
* `missing_children_completed` — *"Missing owned children are therefore treated as
  completed work only when the durable migration record exists"*
  (`engine.py:957-959`). A resumed run that lists no child rewrites no record, so a
  stop after the last deletion and another after that of the parent leave a record
  that names children and no parent: every later run refuses it. A crash between
  the unlinks of the catalog and of the record ends the same way.
* `idle_never_overdue` — *"120 minutes total idle -> systemctl poweroff"*
  (`docs/workstation-provisioning.md:148`). An agent that replaces a dead one in a
  session beyond the second threshold writes `READY` and `POWER_OFF` together;
  `readline` takes both and returns one, and nothing is ever written again. The same
  can happen to `LOCK`; there the `POWER_OFF` that follows an hour later wakes
  `select`, `readline` returns the `LOCK` first and the `POWER_OFF` next.
* `rescue_leaves_thawed` — *"Host was intentionally left THAWED for administrator
  review."* (`maintenance.yml:48`). The rescue is that of the whole block, the freeze
  and its verification included. A freeze that committed is reported as failed when
  another caller has the lock at the second status, and the marker is written with
  FROZEN scheduled; a `boot-success` that meets the boot-health service fails with
  FROZEN running.

Also seen while modelling, without a run of their own:

* *"After the boot-mode commit, recovery validates the new pair and removes pending
  objects"* (`docs/architecture.md:53`) is true of the engine. The recovery that an
  interrupted cleanup meets after a reboot is the one in the initramfs, which rolls
  any journal back. No baseline is lost (`ContractKept`): publication is the deletion
  of the predecessor, not the phase.
* *"the boot-verification service recursively deletes stale CachyFreeze runtime
  objects"* (`docs/architecture.md:86`): the recovery it starts with refuses the
  `@active.next` that a failed reset left.
* *"The THAWED boot verification service immediately consumes the flag [...] so the
  exception is one-time only"* (the repository's `README.md:158-161`): a `boot-success`
  that finds the lock taken, raises, or is cut off by a crash before `engine.py:883` is
  not run again in that boot. Every THAWED boot asks for no password until one comes to its end
  (`AuthorizationConsumed`), or the schedule is written again. `TwoModes` does not
  promise one boot, either: `Stop` and `BootThawed` keep `authorized`, and nothing says
  that `Consume` comes before the next boot.
* the transaction-scoped names *"must not remain after a successful operation"*
  (`docs/architecture.md:29`): a `preflight` that unmounts TOP under a freeze makes
  its cleanup a silent no-op and lets it close the journal. `NothingUnowned` says it
  of the time before a preflight comes in.
* *"A failed reset schedules the next boot as password-protected THAWED"*
  (`docs/architecture.md:75`) is true of `fail` only, a `btrfs` or `mv` that fails ends
  the script under `set -e` (`ResetAborts`).
* *"mismatched ownership evidence aborts migration without deletion"*
  (`docs/architecture.md:103`) is not true of a directory under an owned name, which is
  met in the loop, after the deletions before it.
* A subvolume that is created after the layout was read is an empty directory in the
  baseline, and one that is created inside a source is missing from it: `SealedIsWhole`
  leaves out the places of `unseen`, which the engine does not look at again.
* The window may offer a transition that is already scheduled, after a command that
  committed and was reported as failed, or after another caller's (`outdated`). The
  engine accepts it again; `tests/test_gui.py:83` names the case that is excluded.
* The installer's rollback ignores the errors of its own commands but the last
  (`set +e`) and reports *restored* (`botched`); a `mv` of a stale `.previous` onto an
  existing tree puts it inside that tree.

### Fairness

`CrashSpec` is weakly fair to booting, to the steps of the reset and of the
engine, and to the boot-health service. systemd starts the reset unit and the
service of each boot, the kernel schedules the processes, and somebody switches
the machine on again. Nothing is assumed of the administrator, and crashes are
only bounded. The run leaves failing commands out (`CommandFails`, `ResetFails`,
`ResetAborts`): a command that always fails would refute every liveness property,
and rightly. Both properties have one exception, the machine that GRUB finds no
kernel for.

`LegacyMigration` is weakly fair to the steps of a run and to `Start`: the code
never waits, and the installer tells its user to retry. `RetriesConverge` makes
no claim of a behaviour that is stopped or meddled with forever; its other
outcomes are a machine migrated for good and evidence refused for good.
`IdlePolicy` is weakly fair to the agent and to the supervisor, whose waits all
have timeouts and whose service restarts always. `SupervisionSettles` makes no
claim of a machine where failures, switches or boots never end. `BaselineCapture` is
weakly fair to the engine's steps and to a freeze that is started again: it runs to its
end once it runs, and stops and moves are bounded. `RetriesSeal` makes no claim of a
layout that stays unsupported.

`ManagedHost` and `Installer` state no fairness. A play waits for a host that need not
come back, a window for a user, and a run of the installer for whoever retries.

## The proofs

`CachyMachineProofs` proves, for any set of versions and any number of crashes,
every property of the `machine` run. None of the safety properties is inductive:
a step's effect depends on where `pc` and `rpc` are. The inductive invariant
`IInv` adds

* `Control`, `FrozenControl`: which program runs in which state of the machine;
  in a FROZEN session the engine never gets past its recovery check, because
  there is nothing to recover;
* `JournalOfStep`: the phase at each step;
* `QuietClean`: the steps at which no transaction-scoped subvolume exists;
* `Candidate`, `Placed`, `Pair`: what the publication has built so far, in
  particular that nothing read-only under `@golden.next` is incomplete, and that
  the runtime was derived from the golden it is published with;
* `ResetControl`: what the reset has built so far, and that the proof of a boot
  implies a fresh root in that boot.

`PowerOff` keeps `IInv` because each part speaks either of the disk alone or of a
position that a crash forgets. The proof has one lemma per group of actions
(`BootKeepsIInv`, `RecoveryKeepsIInv`, `CommandKeepsIInv`, `FreezeKeepsIInv`,
`ResetKeepsIInv`) with one case per action.

`MachineImplementsContract` proves that the machine implements `TwoModes` with

    work       <- the version of @
    captured   <- the version of the candidate: of @golden.next, or of @golden
                  while its predecessor is still pending
    baseline   <- the version of @golden.pending if it exists, else of @golden
    scheduled  <- cachy_mode
    authorized <- cachy_remote_auth
    session    <- the version of @active in a FROZEN session

so a freeze captures at its snapshot, and its commit point is the instant its
predecessor is deleted (for a first freeze, the rename of the candidate). What it
publishes is what it captured, not what `@` has become since, and a rollback, by
whichever program, at most abandons the capture. That mapping is why `Placed` also
says that while a golden and its predecessor are both there, no other candidate
waits: without it, a recovery could turn one capture into another. The lemmas
`RecoveryImplements`, `CommandImplements`, `FreezeImplements` and `ResetImplements`
map each group of actions to a capture, a publication, a change of the schedule, a
boot, or a stutter. `FrozenChangesNothing` reads three promises out of the contract:
no step in a FROZEN session changes `@` or the baseline, the baseline only becomes
what was captured of `@` and only while THAWED, and once there is one it is not lost.

`KernelWaitsInPredecessor` bounds what the run `frozen_boot_finds_kernel` finds:
wherever GRUB meets no kernel, the journal is open and the sealed, complete
predecessor is there under its pending name. It is also the exception that the two
liveness properties of `crash_recovery` make.

The only assumption is that `Absent` is neither a version nor a record.

`CrashRecoveryProofs` shows that the machine of `crash_recovery` is the machine, so
that every theorem above is one about it, and proves `NeverRefused` for any number of
crashes. To `IInv` it adds what one boot leaves to the next: `LeftToReset` (without a
journal, objects are only left where FROZEN is scheduled and the reset will remove
them), `CommittedFrozen` and `CommittedPair` (a committed freeze has FROZEN scheduled,
so no THAWED system boots into its journal, and the system that committed it has the
pair). `ServedBootConsumes` proves `AuthorizationConsumed` from the same invariant: a
`boot-success` that is never refused returns in THAWED only from its last step, and
nothing else there gives an authorization. `AuthorizedNeverRefused`, in
`CachyMachineProofs`, says of the whole machine, failing commands and resets included,
that no recovery refuses a disk while a passwordless boot is authorized: an unowned
object or an invalid pair does not keep the flag alive.

`MachineComesToRest` is the half of `TransactionEnds` and `MachineComesUp` that needs
no fairness. It gives each state a rank, of the boot, the steps that the lock's holder
and the reset have before them and what the deletion loops find on the disk, and shows
that every step but the administrator's lowers it, whatever a crash left there: no
recovery goes round in a circle, for any number of crashes. That the steps are taken,
and that none is missing where the properties want one, stays with TLC.

`TopMountProofs` proves the properties of `top_mount` for any number of commands and
preflights. `LockInv` says, for the time before a preflight, that the lock's holder is
the only one between `probe` and `unlock` and that the mount is there when it needs it;
a mount that stays behind is borrowed by the commands that follow and never piled up
(`LockStacksNoMount`); `MountForEach` gives, with preflights, each process that mounted
TOP a mount of its own to count on: that makes `OwnMountHolds` inductive.

`BaselineCaptureProofs` proves `TypeOK` and `SealedIsWhole` for any sources and any
number of moves and stops. `LoopInv` says where each loop stands, `LayoutInv` what the
engine's looks at the disk are still worth (a place that is not `unseen` is as it was
read), and `CandidateInv` what each place of the candidate holds at each step: its
version of the snapshot, a directory to be filled, or a capture from its window.

`ManagedHostProofs` proves all six properties of `managed_host` and its types, for any
set of clients and any contents. `HostInv` is about the host and its callers:
`OneHolder` (the lock), `CallsMatch` and `NobodyWhenDown` (who runs a command),
`ModeOfCommand` (in which mode), `Publishing` and `CommittedCandidate` (a freeze past
its snapshot has a candidate, and so has a boot-committed journal),
`FrozenHasNoJournal` and `RemoteForThawed`. `SeenInv` is about what the window was told
and whether the schedule changed since, `ConsumedInv` about the authorization at each
task, and `UpdateInv` about the update: from its end to the freeze, `@` holds it unless
the host went down, and from the play's snapshot to its publication so does its
candidate. `HostKeepsContract` maps each
action of host and callers to one step of `TwoModes`, as above with `candidate` for
what was captured and `remote` for the authorization.

`InstallerProofs` proves all six properties of `installer` for any set of trees and any
number of failures. `RunInv` says what each tree has in its three places at each step
of a run, `RollbackInv` what each step of a rollback has still to put back, `EngineInv`
that a release is always in one of a tree's places, and `LegacyInv` that the history
is whole before the commit boundary.

`IdlePolicyProofs` proves `TypeOK` and `PolicyInTime` for any set of sessions. Its
invariant says that what the agent has reported is in the pipe, in the buffer or in
the supervisor's hands until it is done (`ShutdownHandled`, `LockHandled`), and that
every threshold the idle time has passed was reported (`ThresholdsReported`).

`LegacyMigrationProofs` proves the four safety properties of `legacy_migration`
for any set of names, any number of stops and any outsider. The
invariant adds to them `Accepting` and `Recorded` (from the check to the last
deletion there is a catalog, and from the first deletion a record of the same
ownership), `Backed` (a record beside a history matches its catalog), `NotAhead` (an
untouched child that is still there is still in the record and in the listing),
`Unwound` (after the parent, nothing is left of the history) and `Done`. It assumes
that names are natural numbers, which is what orders them, that there are finitely
many, and that a missing or malformed file is not a set of names. `RunIsFinite` is the
half of `RetriesConverge` without fairness: each step of a run lowers a rank that no
outsider raises, so a run takes at most two steps for each name a child can have, one
for each old transient and ten more.

Only model-checked: the liveness properties, `TransactionEnds`, `MachineComesUp`,
`RetriesConverge`, `SupervisionSettles` and `RetriesSeal`. They rest on fairness and on
where an action is enabled, which is out of the prover's reach; for the first three,
`MachineComesToRest` and `RunIsFinite` prove that the steps before the end are bounded. Every other property of a passing run is a theorem.
`TypeOK` of `TopMount` and of `ManagedHost` is established by its proof, not by a run.

## Not modelled

* The content of files beyond a version, the exclusions of a capture, parsing and
  validation of configuration, the audit log, the password prompt and the recovery
  menu gate of GRUB.
* `preflight` beyond its use of the mount, and `version`: they change nothing.
* The manager's setup of a workstation and its helper's (`window.py` 246-319 and
  408-448, the helper 78-109), and everything of the window that is layout or wording.
* The playbooks beside maintenance, and many hosts at once: they share nothing.
* The scripts that call the installer or set GRUB's password. The installer is checked
  alone; a command that runs meanwhile (it takes no lock) is not.
* Workstation provisioning, packaging, CI and vendored recipes: sequences of
  idempotent commands without a state of their own.

Liveness of the managed host is not checked: its state space with a fair schedule is
beyond a run of minutes, and nothing in the playbook promises an end.
