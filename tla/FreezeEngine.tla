---------------------------- MODULE FreezeEngine ----------------------------
(***************************************************************************)
(* The engine's commands status, freeze, thaw and boot-success, one action *)
(* per durable step.  ProcessLock admits one command at a time, so cmd and *)
(* pc are those of the lock's holder; a command that finds it taken fails  *)
(* before it touches anything.  Every command first reconciles an          *)
(* interrupted transaction.  An exception (CommandFails) ends the command  *)
(* wherever it is and leaves the disk as it is.                            *)
(***************************************************************************)
EXTENDS FreezeState, Sequences

EngineSteps ==
  {"recover", "rollback", "restore-mode", "forward", "close", "body",
   "snapshot", "capture", "flatten", "uncapture", "seal", "derive", "prepared",
   "golden-out", "golden-in", "golden-committed",
   "active-out", "active-in", "active-committed",
   "boot-mode", "boot-committed", "cleanup", "finish",
   "discard", "forget", "revoke"}

At(step) == Running /\ pc = step

GoTo(step) == pc' = step /\ UNCHANGED <<cmd, boot>>

\* The command returns and the lock is released.
Return == pc' = "idle" /\ cmd' = "none" /\ UNCHANGED boot

(***************************************************************************)
(* A command starts: freeze only on a verified THAWED root, thaw only on a *)
(* verified FROZEN one, the others on either.                              *)
(***************************************************************************)
Start(c) ==
  /\ Running /\ pc = "idle"
  /\ c = "freeze" => power = "thawed"
  /\ c \in {"thaw", "thaw-authorized"} => power = "frozen"
  /\ cmd' = c /\ pc' = "recover"
  /\ UNCHANGED <<disk, boot>>

CommandFails ==
  /\ Running /\ pc # "idle"
  /\ Return
  /\ UNCHANGED disk

-----------------------------------------------------------------------------
(***************************************************************************)
(* _recover_transaction_locked                                             *)
(***************************************************************************)
RecoverNothing ==
  /\ At("recover") /\ journal = "none" /\ NonePresent(Transients)
  /\ GoTo("body")
  /\ UNCHANGED disk

\* "Unowned transaction subvolumes require manual review"
RecoverRefuses ==
  /\ At("recover") /\ journal = "none" /\ ~NonePresent(Transients)
  /\ Return
  /\ UNCHANGED disk

RecoverRollsBack ==
  /\ At("recover") /\ journal \notin {"none", "boot-committed"}
  /\ GoTo("rollback")
  /\ UNCHANGED disk

RecoverRollsForward ==
  /\ At("recover") /\ journal = "boot-committed"
  /\ ValidGolden(Golden) /\ ValidActive(Active)
  /\ GoTo("forward")
  /\ UNCHANGED disk

RecoverRefusesPair ==
  /\ At("recover") /\ journal = "boot-committed"
  /\ ~(ValidGolden(Golden) /\ ValidActive(Active))
  /\ Return
  /\ UNCHANGED disk

(***************************************************************************)
(* _rollback_pair on golden, then on active, then the capture parent.      *)
(***************************************************************************)
RollbackStep ==
  \/ RestorePredecessor(Golden, GoldenPending)
  \/ /\ ~Present(GoldenPending) /\ Present(GoldenNext)
     /\ Delete(GoldenNext)
  \/ /\ NonePresent({GoldenPending, GoldenNext})
     /\ RestorePredecessor(Active, ActivePending)
  \/ /\ NonePresent({GoldenPending, GoldenNext, ActivePending})
     /\ DeleteFirst(<<ActiveNext, Capture>>)

Rollback ==
  /\ At("rollback") /\ RollbackStep
  /\ UNCHANGED <<maintenance, journal, grubenv, marker, cmd, pc, boot>>

\* Bug: the capture parent is not rolled back.
RollbackLeavesCapture ==
  /\ At("rollback") /\ NonePresent(Transients \ {Capture})
  /\ GoTo("restore-mode")
  /\ UNCHANGED disk

RollbackDone ==
  /\ At("rollback") /\ NonePresent(Transients)
  /\ GoTo("restore-mode")
  /\ UNCHANGED disk

RestoreMode ==
  /\ At("restore-mode")
  /\ SetBootMode("thawed", FALSE)
  /\ GoTo("close")
  /\ UNCHANGED <<subvol, maintenance, journal, marker>>

\* Bug: the predecessor is not cleaned up.
CleanupWithoutPredecessor == <<GoldenNext, ActiveNext, ActivePending, Capture>>

(***************************************************************************)
(* _cleanup_transaction_subvolumes, when recovering and at the end of a    *)
(* freeze.                                                                 *)
(***************************************************************************)
CleanupOrder == <<GoldenNext, ActiveNext, GoldenPending, ActivePending, Capture>>

Cleanup ==
  /\ pc \in {"forward", "cleanup"} /\ Running
  /\ DeleteFirst(CleanupOrder)
  /\ UNCHANGED <<maintenance, journal, grubenv, marker, cmd, pc, boot>>

CleanupDone ==
  /\ pc \in {"forward", "cleanup"} /\ Running /\ NonePresent(Elements(CleanupOrder))
  /\ GoTo(IF pc = "forward" THEN "close" ELSE "finish")
  /\ UNCHANGED disk

\* Bug: the recovery does not close the journal.
CloseNothing ==
  /\ At("close")
  /\ GoTo("body")
  /\ UNCHANGED disk

\* journal.finish of the recovery; the command itself is next.
Close ==
  /\ At("close")
  /\ journal' = "none"
  /\ GoTo("body")
  /\ UNCHANGED <<subvol, maintenance, grubenv, marker>>

-----------------------------------------------------------------------------
(***************************************************************************)
(* status only reads.                                                      *)
(***************************************************************************)
Status ==
  /\ At("body") /\ cmd = "status"
  /\ Return
  /\ UNCHANGED disk

(***************************************************************************)
(* thaw                                                                    *)
(***************************************************************************)
Thaw ==
  /\ At("body") /\ cmd \in {"thaw", "thaw-authorized"}
  /\ SetBootMode("thawed", cmd = "thaw-authorized")
  /\ Return
  /\ UNCHANGED <<subvol, maintenance, journal, marker>>

(***************************************************************************)
(* mark_boot_successful: FROZEN is verified against the reset proof of the *)
(* running boot; THAWED discards the disposable runtime, forgets the proof *)
(* and consumes the remote authorization.                                  *)
(***************************************************************************)
VerifyFrozenBoot ==
  /\ At("body") /\ cmd = "boot-success" /\ power = "frozen"
  /\ ValidGolden(Golden) /\ ValidActive(Active) /\ marker = "current"
  /\ Return
  /\ UNCHANGED disk

\* Bug: the runtime is discarded in either mode.
VerifyAnyBoot ==
  /\ At("body") /\ cmd = "boot-success"
  /\ GoTo("discard")
  /\ UNCHANGED disk

VerifyThawedBoot ==
  /\ At("body") /\ cmd = "boot-success" /\ power = "thawed"
  /\ GoTo("discard")
  /\ UNCHANGED disk

Runtimes == <<Active, ActiveNext, ActivePending>>

DiscardRuntime ==
  /\ At("discard") /\ DeleteFirst(Runtimes)
  /\ UNCHANGED <<maintenance, journal, grubenv, marker, cmd, pc, boot>>

RuntimeDiscarded ==
  /\ At("discard") /\ NonePresent(Elements(Runtimes))
  /\ GoTo("forget")
  /\ UNCHANGED disk

\* Bug: without a proof to forget the command returns early.
ForgetProofOnce ==
  /\ At("forget")
  /\ marker' = "none"
  /\ IF marker = "none" THEN Return ELSE GoTo("revoke")
  /\ UNCHANGED <<subvol, maintenance, journal, grubenv>>

ForgetProof ==
  /\ At("forget")
  /\ marker' = "none"
  /\ GoTo("revoke")
  /\ UNCHANGED <<subvol, maintenance, journal, grubenv>>

RevokeRemote ==
  /\ At("revoke")
  /\ SetBootMode(grubenv.mode, FALSE)
  /\ Return
  /\ UNCHANGED <<subvol, maintenance, journal, marker>>

-----------------------------------------------------------------------------
(***************************************************************************)
(* freeze                                                                  *)
(***************************************************************************)
WritePhase(phase, next) ==
  /\ journal' = phase
  /\ GoTo(next)
  /\ UNCHANGED <<subvol, maintenance, grubenv, marker>>

ChangeSubvolumes(next) ==
  /\ GoTo(next)
  /\ UNCHANGED <<maintenance, journal, grubenv, marker>>

\* Bug: a phase that the journal does not know.
BeginUnknownPhase ==
  /\ At("body") /\ cmd = "freeze" /\ journal = "none"
  /\ WritePhase("started", "snapshot")

Begin ==
  /\ At("body") /\ cmd = "freeze" /\ journal = "none"
  /\ WritePhase("preparing", "snapshot")

\* Bug: the candidate is sealed before the captured sources are copied in.
SealUnflattened ==
  /\ At("snapshot")
  /\ \E hasSources \in BOOLEAN :
       /\ Put(GoldenNext, [base |-> maintenance, whole |-> ~hasSources,
                           used |-> FALSE, ro |-> FALSE])
       /\ ChangeSubvolumes("seal")

\* _prepare_golden_candidate: with no auxiliary source there is nothing to flatten.
SnapshotCandidate ==
  /\ At("snapshot")
  /\ \E hasSources \in BOOLEAN :
       /\ Put(GoldenNext, [base |-> maintenance, whole |-> ~hasSources,
                           used |-> FALSE, ro |-> FALSE])
       /\ ChangeSubvolumes(IF hasSources THEN "capture" ELSE "seal")

CaptureSources ==
  /\ At("capture")
  /\ Put(Capture, [base |-> maintenance, whole |-> FALSE, used |-> FALSE, ro |-> FALSE])
  /\ ChangeSubvolumes("flatten")

Flatten ==
  /\ At("flatten")
  /\ Put(GoldenNext, [base |-> subvol[GoldenNext].base, whole |-> TRUE,
                      used |-> subvol[GoldenNext].used, ro |-> FALSE])
  /\ ChangeSubvolumes("uncapture")

DropCapture ==
  /\ At("uncapture")
  /\ Delete(Capture)
  /\ ChangeSubvolumes("seal")

Seal ==
  /\ At("seal")
  /\ Put(GoldenNext, [base |-> subvol[GoldenNext].base, whole |-> subvol[GoldenNext].whole,
                      used |-> subvol[GoldenNext].used, ro |-> TRUE])
  /\ ChangeSubvolumes("derive")

DeriveActive ==
  /\ At("derive") /\ ValidGolden(GoldenNext)
  /\ Snapshot(GoldenNext, ActiveNext)
  /\ ChangeSubvolumes("prepared")

Prepared ==
  /\ At("prepared") /\ ValidActive(ActiveNext)
  /\ WritePhase("prepared", "golden-out")

\* Bug: the current root is deleted instead of moved to its pending name.
DeleteOut(current, candidate, pending) ==
  /\ Present(candidate) /\ ~Present(pending)
  /\ Delete(current)

(***************************************************************************)
(* _replace_with_candidate: the current root moves to its pending name,    *)
(* then the candidate takes its place.                                     *)
(***************************************************************************)
MoveOut(current, candidate, pending) ==
  /\ Present(candidate) /\ ~Present(pending)
  /\ \/ Present(current) /\ Rename(current, pending)
     \/ ~Present(current) /\ UNCHANGED subvol

MoveIn(current, candidate) == Present(candidate) /\ Rename(candidate, current)

GoldenOut ==
  /\ At("golden-out") /\ MoveOut(Golden, GoldenNext, GoldenPending)
  /\ ChangeSubvolumes("golden-in")

GoldenIn ==
  /\ At("golden-in") /\ MoveIn(Golden, GoldenNext)
  /\ ChangeSubvolumes("golden-committed")

GoldenCommitted ==
  /\ At("golden-committed") /\ ValidGolden(Golden)
  /\ WritePhase("golden-committed", "active-out")

ActiveOut ==
  /\ At("active-out") /\ MoveOut(Active, ActiveNext, ActivePending)
  /\ ChangeSubvolumes("active-in")

ActiveIn ==
  /\ At("active-in") /\ MoveIn(Active, ActiveNext)
  /\ ChangeSubvolumes("active-committed")

ActiveCommitted ==
  /\ At("active-committed") /\ ValidActive(Active)
  /\ WritePhase("active-committed", "boot-mode")

ScheduleFrozen ==
  /\ At("boot-mode")
  /\ SetBootMode("frozen", FALSE)
  /\ GoTo("boot-committed")
  /\ UNCHANGED <<subvol, maintenance, journal, marker>>

\* Bug: the journal is closed before the pending objects are gone.
CommitCloses ==
  /\ At("boot-committed")
  /\ WritePhase("none", "cleanup")

BootCommitted ==
  /\ At("boot-committed")
  /\ WritePhase("boot-committed", "cleanup")

\* journal.finish of the freeze: the command reports success.
Finish ==
  /\ At("finish")
  /\ journal' = "none"
  /\ Return
  /\ UNCHANGED <<subvol, maintenance, grubenv, marker>>

-----------------------------------------------------------------------------
Recovery ==
  \/ RecoverNothing \/ RecoverRefuses \/ RecoverRollsBack \/ RecoverRollsForward
  \/ RecoverRefusesPair \/ Rollback \/ RollbackDone \/ RestoreMode
  \/ Cleanup \/ CleanupDone \/ Close

Freeze ==
  \/ Begin \/ SnapshotCandidate \/ CaptureSources \/ Flatten \/ DropCapture \/ Seal
  \/ DeriveActive \/ Prepared \/ GoldenOut \/ GoldenIn \/ GoldenCommitted
  \/ ActiveOut \/ ActiveIn \/ ActiveCommitted \/ ScheduleFrozen \/ BootCommitted \/ Finish

BootSuccess ==
  \/ VerifyFrozenBoot \/ VerifyThawedBoot \/ DiscardRuntime \/ RuntimeDiscarded
  \/ ForgetProof \/ RevokeRemote

\* What the lock's holder does when nothing fails.
EngineStep == Recovery \/ Status \/ Thaw \/ BootSuccess \/ Freeze
=============================================================================
