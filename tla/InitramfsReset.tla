--------------------------- MODULE InitramfsReset ---------------------------
(***************************************************************************)
(* cachy-freeze-reset, the oneshot that recreates @active from @golden in  *)
(* the initramfs of every FROZEN boot, and the mount of /sysroot and       *)
(* switch-root that follow it.  The script runs under set -e: a validation *)
(* that fails calls fail(), which schedules a protected THAWED boot; a     *)
(* command that fails ends the script and schedules nothing.               *)
(***************************************************************************)
EXTENDS FreezeState, Sequences

ResetSteps ==
  {"probe", "reconcile", "validate", "clear", "derive", "drop", "swap", "prove",
   "ready"}

AtReset(step) == power = "initrd" /\ rpc = step

ResetGoTo(step) == rpc' = step /\ UNCHANGED <<cmd, pc, power, sysroot>>

\* Bug: the proof of an earlier boot is accepted.
ProbeAnyProof ==
  /\ AtReset("probe") /\ marker # "none"
  /\ ValidGolden(Golden) /\ ValidActive(Active)
  /\ ResetGoTo("ready")
  /\ UNCHANGED disk

\* A reset that finds the proof of this boot only validates what it did before.
ProbeAgain ==
  /\ AtReset("probe") /\ marker = "current"
  /\ ValidGolden(Golden) /\ ValidActive(Active)
  /\ ResetGoTo("ready")
  /\ UNCHANGED disk

\* Bug: the reset runs only where no proof was ever written.
ProbeWithoutProof ==
  /\ AtReset("probe") /\ marker = "none" /\ ~sysroot
  /\ ResetGoTo("reconcile")
  /\ UNCHANGED disk

ProbeFirst ==
  /\ AtReset("probe") /\ marker # "current" /\ ~sysroot
  /\ ResetGoTo("reconcile")
  /\ UNCHANGED disk

\* Bug: the predecessor is taken for a leftover and deleted.
DeletePredecessor ==
  \/ Present(GoldenPending) /\ Delete(GoldenPending)
  \/ ~Present(GoldenPending) /\ RestorePredecessor(Active, ActivePending)
  \/ /\ NonePresent({GoldenPending, ActivePending})
     /\ DeleteFirst(<<GoldenNext, ActiveNext, Capture>>)

(***************************************************************************)
(* recover_baseline_transaction: both predecessors first, then the         *)
(* candidates, then the journal, whatever phase it records.                *)
(***************************************************************************)
ReconcileStep ==
  \/ RestorePredecessor(Golden, GoldenPending)
  \/ ~Present(GoldenPending) /\ RestorePredecessor(Active, ActivePending)
  \/ /\ NonePresent({GoldenPending, ActivePending})
     /\ DeleteFirst(<<GoldenNext, ActiveNext, Capture>>)

Reconcile ==
  /\ AtReset("reconcile") /\ ReconcileStep
  /\ UNCHANGED <<maintenance, journal, grubenv, marker, cmd, pc, boot>>

\* Bug: the journal of the transaction that was rolled back stays.
ReconcileKeepsJournal ==
  /\ AtReset("reconcile") /\ NonePresent(Transients)
  /\ ResetGoTo("validate")
  /\ UNCHANGED disk

\* mv transaction.json transaction.initramfs-rolled-back.json
ReconcileDone ==
  /\ AtReset("reconcile") /\ NonePresent(Transients)
  /\ journal' = "none"
  /\ ResetGoTo("validate")
  /\ UNCHANGED <<subvol, maintenance, grubenv, marker>>

Validate ==
  /\ AtReset("validate") /\ ValidGolden(Golden)
  /\ ResetGoTo("clear")
  /\ UNCHANGED disk

Clear ==
  /\ AtReset("clear")
  /\ subvol' = [n \in Names |->
       IF n \in {Capture, ActiveNext, ActivePending} THEN Absent ELSE subvol[n]]
  /\ ResetGoTo("derive")
  /\ UNCHANGED <<maintenance, journal, grubenv, marker>>

Derive ==
  /\ AtReset("derive") /\ Present(Golden)
  /\ Snapshot(Golden, ActiveNext)
  /\ ResetGoTo("drop")
  /\ UNCHANGED <<maintenance, journal, grubenv, marker>>

\* The replacement is validated before the old runtime goes.
Drop ==
  /\ AtReset("drop") /\ ValidActive(ActiveNext)
  /\ Delete(Active)
  /\ ResetGoTo("swap")
  /\ UNCHANGED <<maintenance, journal, grubenv, marker>>

Swap ==
  /\ AtReset("swap") /\ Present(ActiveNext)
  /\ Rename(ActiveNext, Active)
  /\ ResetGoTo("prove")
  /\ UNCHANGED <<maintenance, journal, grubenv, marker>>

Prove ==
  /\ AtReset("prove") /\ ValidActive(Active)
  /\ marker' = "current"
  /\ ResetGoTo("ready")
  /\ UNCHANGED <<subvol, maintenance, journal, grubenv>>

-----------------------------------------------------------------------------
\* fail(), with a GRUB environment that can be written.
FailingSteps == {"probe", "reconcile", "validate", "clear", "drop", "prove"}

ResetFails ==
  /\ power = "initrd" /\ rpc \in FailingSteps
  /\ SetBootMode("thawed", FALSE)
  /\ power' = "emergency" /\ rpc' = "idle"
  /\ UNCHANGED <<subvol, maintenance, journal, marker, cmd, pc, sysroot>>

\* A command that fails under set -e, or a fail() that cannot schedule anything.
AbortingSteps == FailingSteps \cup {"derive", "swap"}

ResetAborts ==
  /\ power = "initrd" /\ rpc \in AbortingSteps
  /\ power' = "emergency" /\ rpc' = "idle"
  /\ UNCHANGED <<disk, cmd, pc, sysroot>>

-----------------------------------------------------------------------------
\* initrd-root-fs.target can request the reset again, even with /sysroot mounted.
ResetAgain ==
  /\ AtReset("ready")
  /\ ResetGoTo("probe")
  /\ UNCHANGED disk

\* sysroot.mount is ordered after a reset that succeeded.
MountSysroot ==
  /\ AtReset("ready") /\ ~sysroot /\ Present(Active)
  /\ sysroot' = TRUE
  /\ UNCHANGED <<disk, cmd, pc, rpc, power>>

\* The FROZEN session begins to write to its root.
SwitchRoot ==
  /\ AtReset("ready") /\ sysroot
  /\ power' = "frozen" /\ rpc' = "idle" /\ sysroot' = FALSE
  /\ Put(Active, [base |-> subvol[Active].base, whole |-> subvol[Active].whole,
                  used |-> TRUE, ro |-> subvol[Active].ro])
  /\ UNCHANGED <<maintenance, journal, grubenv, marker, cmd, pc>>

ResetStep ==
  \/ ProbeAgain \/ ProbeFirst \/ Reconcile \/ ReconcileDone \/ Validate
  \/ Clear \/ Derive \/ Drop \/ Swap \/ Prove
  \/ MountSysroot \/ SwitchRoot
=============================================================================
