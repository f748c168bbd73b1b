------------------------ MODULE CrashRecoveryProofs ------------------------
(***************************************************************************)
(* No crash alone makes the engine refuse a disk, for any set of versions  *)
(* and any number of crashes.  The invariant of the machine says what the  *)
(* disk is at each step; CrashInv adds what a crash leaves to the boot     *)
(* after it.  It is about the machine without failing commands: a reset    *)
(* that fails leaves exactly what it denies.  A rank that every step of    *)
(* the machine lowers shows that its boots and recoveries come to rest.    *)
(***************************************************************************)
EXTENDS CrashRecovery, CachyMachineProofs

\* An unowned object is only ever left to an initramfs, which removes it.
LeftToReset ==
  journal = "none" /\ (Running \/ grubenv.mode = "thawed") => NonePresent(Transients)

\* A committed freeze has FROZEN scheduled: no THAWED system boots into it.
CommittedFrozen == journal = "boot-committed" => grubenv.mode = "frozen"

\* The system that committed it has the pair until it goes down.
CommittedPair ==
  journal = "boot-committed" /\ Running => ValidGolden(Golden) /\ ValidActive(Active)

CrashInv == LeftToReset /\ CommittedFrozen /\ CommittedPair

-----------------------------------------------------------------------------
(***************************************************************************)
(* Sums of ranks: of the boot, the engine's and the reset's steps and the  *)
(* disk, and of that with the crashes that may still come.                 *)
(***************************************************************************)
Boots == 0..3
Engines == 0..22
Resets == 0..10
Disks == 0..12
Ranks == 0..1999

\* The boot counts most, then the steps ahead, then the disk.
Total(b, e, r, d) == 500 * b + 13 * (e + r) + d

MostSteps == 2000
OfAll(c, rank) == MostSteps * (MaxCrashes - c) + rank

LEMMA TotalBounded ==
  ASSUME NEW b \in Boots, NEW e \in Engines, NEW r \in Resets, NEW d \in Disks
  PROVE  Total(b, e, r, d) \in Ranks
BY DEF Total, Boots, Engines, Resets, Disks, Ranks

LEMMA TotalFalls ==
  ASSUME NEW b \in Boots, NEW e \in Engines, NEW r \in Resets, NEW d \in Disks,
         NEW b2 \in Boots, NEW e2 \in Engines, NEW r2 \in Resets, NEW d2 \in Disks,
         \/ b2 < b
         \/ b2 = b /\ r2 = r /\ e2 < e
         \/ b2 = b /\ e2 = e /\ r2 < r
         \/ b2 = b /\ e2 = e /\ r2 = r /\ d2 < d
  PROVE  Total(b2, e2, r2, d2) < Total(b, e, r, d)
<1> USE DEF Total, Boots, Engines, Resets, Disks
<1>1. CASE b2 < b
  BY <1>1
<1>2. CASE b2 = b /\ r2 = r /\ e2 < e
  BY <1>2
<1>3. CASE b2 = b /\ e2 = e /\ r2 < r
  BY <1>3
<1>4. CASE b2 = b /\ e2 = e /\ r2 = r /\ d2 < d
  BY <1>4
<1> QED BY <1>1, <1>2, <1>3, <1>4

LEMMA OfAllFalls ==
  ASSUME NEW c \in 0..MaxCrashes, NEW r \in Ranks, NEW q \in Ranks
  PROVE  /\ OfAll(c, r) \in 0..(MostSteps * (MaxCrashes + 1))
         /\ q < r => OfAll(c, q) < OfAll(c, r)
         /\ c < MaxCrashes => c + 1 \in 0..MaxCrashes /\ OfAll(c + 1, q) < OfAll(c, r)
<1> USE MaxCrashesAssumption DEF OfAll, MostSteps, Ranks
<1>1. OfAll(c, r) \in 0..(MostSteps * (MaxCrashes + 1))
  OBVIOUS
<1>2. q < r => OfAll(c, q) < OfAll(c, r)
  OBVIOUS
<1>3. c < MaxCrashes => c + 1 \in 0..MaxCrashes /\ OfAll(c + 1, q) < OfAll(c, r)
  OBVIOUS
<1> QED BY <1>1, <1>2, <1>3

-----------------------------------------------------------------------------
USE AbsentAssumption
    DEF Names, Golden, GoldenNext, GoldenPending, Active, ActiveNext, ActivePending,
        Capture, Transients, Subvolume, Phases, Modes, Commands, Powers,
        EngineSteps, ResetSteps, BuildSteps, SealedSteps, PlacedSteps,
        VerifySteps, FreezeSteps, Running, Present, ValidGolden, ValidActive,
        NonePresent, Baseline, boot, disk, At, GoTo, Return,
        IInv, TypeOK, Control, FrozenControl, JournalOfStep, QuietClean, Quiet,
        Candidate, ResetControl, Placed, Pair, BaselinePristine, Pristine,
        PendingOwned, FrozenHasBaseline, SwitchRootIsFresh, FreshRoot,
        FrozenQuiescent, RemoteOnlyForThawed,
        CrashInv, LeftToReset, CommittedFrozen, CommittedPair

\* GRUB boots THAWED only where nothing is left; a power failure leaves it to GRUB.
LEMMA BootKeepsCrashInv ==
  ASSUME IInv, CrashInv, Boot \/ PowerOff \/ Edit
  PROVE  CrashInv'
<1>1. CASE Boot
  BY <1>1, SMTT(20) DEF Boot, BootThawed, BootFrozen, BootFindsNoKernel
<1>2. CASE PowerOff
  BY <1>2, SMTT(20) DEF PowerOff
<1>3. CASE Edit
  BY <1>3, SMTT(20) DEF Edit
<1> HIDE DEF IInv, CrashInv
<1> QED BY <1>1, <1>2, <1>3

\* A recovery closes the journal over a clean disk, and keeps a committed pair.
LEMMA RecoveryKeepsCrashInv ==
  ASSUME IInv, CrashInv, Recovery
  PROVE  CrashInv'
<1>1. CASE RecoverNothing
  BY <1>1, SMTT(20) DEF RecoverNothing
<1>2. CASE RecoverRefuses
  BY <1>2, SMTT(20) DEF RecoverRefuses
<1>3. CASE RecoverRollsBack
  BY <1>3, SMTT(20) DEF RecoverRollsBack
<1>4. CASE RecoverRollsForward
  BY <1>4, SMTT(20) DEF RecoverRollsForward
<1>5. CASE RecoverRefusesPair
  BY <1>5, SMTT(20) DEF RecoverRefusesPair
<1>6. CASE Rollback
  BY <1>6, SMTT(20) DEF Rollback, RollbackStep, RestorePredecessor, Put, Delete, Rename,
     DeleteFirst
<1>7. CASE RollbackDone
  BY <1>7, SMTT(20) DEF RollbackDone
<1>8. CASE RestoreMode
  BY <1>8, SMTT(20) DEF RestoreMode, SetBootMode
<1>9. CASE Cleanup
  BY <1>9, SMTT(20) DEF Cleanup, CleanupOrder, DeleteFirst, Put, Delete
<1>10. CASE CleanupDone
  BY <1>10, SMTT(20) DEF CleanupDone, CleanupOrder, Elements
<1>11. CASE Close
  BY <1>11, SMTT(20) DEF Close
<1> HIDE DEF IInv, CrashInv
<1> QED BY <1>1, <1>2, <1>3, <1>4, <1>5, <1>6, <1>7, <1>8, <1>9, <1>10, <1>11 DEF Recovery

\* status, thaw and boot-success run without a journal.
LEMMA CommandKeepsCrashInv ==
  ASSUME IInv, CrashInv, (\E c \in Commands : Start(c)) \/ Status \/ Thaw \/ BootSuccess
  PROVE  CrashInv'
<1>1. CASE \E c \in Commands : Start(c)
  BY <1>1, SMTT(20) DEF Start
<1>2. CASE Status
  BY <1>2, SMTT(20) DEF Status
<1>3. CASE Thaw
  BY <1>3, SMTT(20) DEF Thaw, SetBootMode
<1>4. CASE VerifyFrozenBoot
  BY <1>4, SMTT(20) DEF VerifyFrozenBoot
<1>5. CASE VerifyThawedBoot
  BY <1>5, SMTT(20) DEF VerifyThawedBoot
<1>6. CASE DiscardRuntime
  BY <1>6, SMTT(20) DEF DiscardRuntime, Runtimes, DeleteFirst, Put, Delete
<1>7. CASE RuntimeDiscarded
  BY <1>7, SMTT(20) DEF RuntimeDiscarded, Runtimes, Elements
<1>8. CASE ForgetProof
  BY <1>8, SMTT(20) DEF ForgetProof
<1>9. CASE RevokeRemote
  BY <1>9, SMTT(20) DEF RevokeRemote, SetBootMode
<1> HIDE DEF IInv, CrashInv
<1> QED BY <1>1, <1>2, <1>3, <1>4, <1>5, <1>6, <1>7, <1>8, <1>9 DEF BootSuccess

\* A freeze owns what it creates by its journal until it has removed it.
LEMMA FreezeKeepsCrashInv ==
  ASSUME IInv, CrashInv, Freeze
  PROVE  CrashInv'
<1>1. CASE Begin
  BY <1>1, SMTT(20) DEF Begin, WritePhase
<1>2. CASE SnapshotCandidate
  BY <1>2, SMTT(20) DEF SnapshotCandidate, ChangeSubvolumes
<1>3. CASE CaptureSources
  BY <1>3, SMTT(20) DEF CaptureSources, ChangeSubvolumes
<1>4. CASE Flatten
  BY <1>4, SMTT(20) DEF Flatten, ChangeSubvolumes
<1>5. CASE DropCapture
  BY <1>5, SMTT(20) DEF DropCapture, ChangeSubvolumes
<1>6. CASE Seal
  BY <1>6, SMTT(20) DEF Seal, ChangeSubvolumes
<1>7. CASE DeriveActive
  BY <1>7, SMTT(20) DEF DeriveActive, ChangeSubvolumes
<1>8. CASE Prepared
  BY <1>8, SMTT(20) DEF Prepared, WritePhase
<1>9. CASE GoldenOut
  BY <1>9, SMTT(20) DEF GoldenOut, ChangeSubvolumes
<1>10. CASE GoldenIn
  BY <1>10, SMTT(20) DEF GoldenIn, ChangeSubvolumes
<1>11. CASE GoldenCommitted
  BY <1>11, SMTT(20) DEF GoldenCommitted, WritePhase
<1>12. CASE ActiveOut
  BY <1>12, SMTT(20) DEF ActiveOut, ChangeSubvolumes
<1>13. CASE ActiveIn
  BY <1>13, SMTT(20) DEF ActiveIn, ChangeSubvolumes
<1>14. CASE ActiveCommitted
  BY <1>14, SMTT(20) DEF ActiveCommitted, WritePhase
<1>15. CASE ScheduleFrozen
  BY <1>15, SMTT(20) DEF ScheduleFrozen, SetBootMode
<1>16. CASE BootCommitted
  BY <1>16, SMTT(20) DEF BootCommitted, WritePhase, Writable
<1>17. CASE Finish
  BY <1>17, SMTT(20) DEF Finish
<1> HIDE DEF IInv, CrashInv
<1> QED BY <1>1, <1>2, <1>3, <1>4, <1>5, <1>6, <1>7, <1>8, <1>9, <1>10, <1>11,
   <1>12, <1>13, <1>14, <1>15, <1>16, <1>17 DEF Freeze

\* The reset runs with FROZEN scheduled and hands a clean disk to the session.
LEMMA ResetKeepsCrashInv ==
  ASSUME IInv, CrashInv, ResetStep
  PROVE  CrashInv'
<1>1. CASE ProbeAgain
  BY <1>1, SMTT(20) DEF ProbeAgain, AtReset, ResetGoTo
<1>2. CASE ProbeFirst
  BY <1>2, SMTT(20) DEF ProbeFirst, AtReset, ResetGoTo
<1>3. CASE Reconcile
  BY <1>3, SMTT(20) DEF Reconcile, AtReset
<1>4. CASE ReconcileDone
  BY <1>4, SMTT(20) DEF ReconcileDone, AtReset, ResetGoTo
<1>5. CASE Validate
  BY <1>5, SMTT(20) DEF Validate, AtReset, ResetGoTo
<1>6. CASE Clear
  BY <1>6, SMTT(20) DEF Clear, AtReset, ResetGoTo
<1>7. CASE Derive
  BY <1>7, SMTT(20) DEF Derive, AtReset, ResetGoTo
<1>8. CASE Drop
  BY <1>8, SMTT(20) DEF Drop, AtReset, ResetGoTo
<1>9. CASE Swap
  BY <1>9, SMTT(20) DEF Swap, AtReset, ResetGoTo
<1>10. CASE Prove
  BY <1>10, SMTT(20) DEF Prove, AtReset, ResetGoTo
<1>11. CASE MountSysroot
  BY <1>11, SMTT(20) DEF MountSysroot, AtReset
<1>12. CASE SwitchRoot
  BY <1>12, SMTT(20) DEF SwitchRoot, AtReset, Put
<1> HIDE DEF IInv, CrashInv
<1> QED BY <1>1, <1>2, <1>3, <1>4, <1>5, <1>6, <1>7, <1>8, <1>9, <1>10, <1>11, <1>12 DEF ResetStep

-----------------------------------------------------------------------------
HIDE DEF IInv, TypeOK, Control, FrozenControl, JournalOfStep, QuietClean, Quiet,
         Candidate, ResetControl, Placed, Pair, BaselinePristine, PendingOwned,
         FrozenHasBaseline, SwitchRootIsFresh, FrozenQuiescent, RemoteOnlyForThawed, CrashInv

\* Counting crashes and starting boot-success once adds nothing to the machine's steps.
LEMMA CrashStepIsMachineStep ==
  ASSUME [CrashNext]_crashVars
  PROVE  \/ Boot \/ PowerOff \/ Edit
         \/ \E c \in Commands : Start(c)
         \/ EngineStep
         \/ ResetStep
         \/ UNCHANGED vars
<1>1. CASE UNCHANGED crashVars
  BY <1>1 DEF crashVars
<1>2. CASE BootAgain \/ ResetOnward \/ Crash
  BY <1>2 DEF BootAgain, ResetOnward, Crash
<1>3. CASE BootHealth
  <2>1. CASE BootHealthStarts
    <3>1. Start("boot-success")
      BY <2>1 DEF BootHealthStarts
    <3> QED BY <3>1
  <2>2. CASE BootHealthFindsLock
    BY <2>2 DEF BootHealthFindsLock
  <2> QED BY <1>3, <2>1, <2>2 DEF BootHealth
<1>4. CASE Administrator \/ EngineOnward
  BY <1>4 DEF Administrator, EngineOnward
<1> QED BY <1>1, <1>2, <1>3, <1>4 DEF CrashNext

LEMMA CrashStepKeepsCrashInv ==
  ASSUME IInv, CrashInv, [CrashNext]_crashVars
  PROVE  CrashInv'
<1>1. CASE UNCHANGED vars
  BY <1>1, SMTT(20) DEF vars, CrashInv
<1> QED BY <1>1, CrashStepIsMachineStep, BootKeepsCrashInv, RecoveryKeepsCrashInv,
     CommandKeepsCrashInv, FreezeKeepsCrashInv, ResetKeepsCrashInv DEF EngineStep

(***************************************************************************)
(* The machine of the crash runs is the machine: every theorem about Spec  *)
(* is one about CrashSpec.                                                 *)
(***************************************************************************)
THEOREM CrashSpecIsMachine == CrashSpec => Spec
<1>1. CrashInit => Init
  BY DEF CrashInit
<1>2. [CrashNext]_crashVars => [Next]_vars
  BY CrashStepIsMachineStep DEF Next
<1> QED BY <1>1, <1>2, PTL DEF CrashSpec, Spec

(***************************************************************************)
(* _recover_transaction_locked, however many crashes came before: it never *)
(* raises "Unowned transaction subvolumes require manual review", and the  *)
(* pair of a committed freeze is always valid.                             *)
(***************************************************************************)
THEOREM CrashesNeverRefused == CrashSpec => []NeverRefused
<1>1. CrashInit => CrashInv
  BY SMTT(20) DEF CrashInit, Init, CrashInv
<1>2. IInv /\ CrashInv /\ [CrashNext]_crashVars => CrashInv'
  BY CrashStepKeepsCrashInv
<1>3. CrashInv => NeverRefused
  BY DEF CrashInv, NeverRefused
<1> QED BY <1>1, <1>2, <1>3, CrashSpecIsMachine, Invariant, PTL DEF CrashSpec

-----------------------------------------------------------------------------
\* Only thaw gives an authorization; on a disk that is not refused, boot-success
\* returns in THAWED when it has taken it away.
LEMMA EngineConsumes ==
  ASSUME IInv, CrashInv, EngineStep, power = "thawed",
         cmd = "boot-success" \/ ~grubenv.remote
  PROVE  cmd' = "boot-success" \/ ~grubenv'.remote
<1> USE DEF CrashInv, IInv
<1>1. CASE Recovery
  <2>1. CASE RecoverRefuses \/ RecoverRefusesPair
    BY <2>1, SMTT(20) DEF RecoverRefuses, RecoverRefusesPair, LeftToReset, CommittedPair
  <2>2. CASE RestoreMode
    BY <2>2, SMTT(20) DEF RestoreMode, SetBootMode
  <2>3. CASE ~RecoverRefuses /\ ~RecoverRefusesPair /\ ~RestoreMode
    BY <1>1, <2>3, SMTT(20) DEF Recovery, RecoverNothing, RecoverRollsBack, RecoverRollsForward,
       Rollback, RollbackDone, Cleanup, CleanupDone, Close
  <2> QED BY <2>1, <2>2, <2>3
<1>2. CASE Status \/ Thaw
  BY <1>2, SMTT(20) DEF Status, Thaw, Control
<1>3. CASE BootSuccess
  BY <1>3, SMTT(20) DEF BootSuccess, VerifyFrozenBoot, VerifyThawedBoot, DiscardRuntime,
     RuntimeDiscarded, ForgetProof, RevokeRemote, SetBootMode
<1>4. CASE Freeze
  <2>1. cmd # "boot-success"
    BY <1>4 DEF Freeze, Begin, SnapshotCandidate, CaptureSources, Flatten, DropCapture, Seal,
       DeriveActive, Prepared, GoldenOut, GoldenIn, GoldenCommitted, ActiveOut, ActiveIn,
       ActiveCommitted, ScheduleFrozen, BootCommitted, Finish, Control
  <2>2. CASE ScheduleFrozen
    BY <2>2 DEF ScheduleFrozen, SetBootMode
  <2>3. CASE ~ScheduleFrozen
    <3>1. grubenv' = grubenv
      BY <1>4, <2>3 DEF Freeze, Begin, SnapshotCandidate, CaptureSources, Flatten, DropCapture,
         Seal, DeriveActive, Prepared, GoldenOut, GoldenIn, GoldenCommitted, ActiveOut, ActiveIn,
         ActiveCommitted, BootCommitted, Finish, WritePhase, ChangeSubvolumes
    <3> QED BY <2>1, <3>1
  <2> QED BY <2>2, <2>3
<1> QED BY <1>1, <1>2, <1>3, <1>4 DEF EngineStep

(***************************************************************************)
(* The passwordless boot ends with the first THAWED boot whose boot-health *)
(* service finds the lock free and is not cut off by a crash, whatever     *)
(* crashed in the boots before it.                                         *)
(***************************************************************************)
THEOREM ServedBootConsumes == CrashSpec => []AuthorizationConsumed
<1>1. CrashInit => CrashInv /\ AuthorizationConsumed
  BY SMTT(20) DEF CrashInit, Init, CrashInv, AuthorizationConsumed
<1>2. IInv /\ CrashInv /\ [CrashNext]_crashVars => CrashInv'
  BY CrashStepKeepsCrashInv
<1>3. IInv /\ CrashInv /\ AuthorizationConsumed /\ [CrashNext]_crashVars =>
        AuthorizationConsumed'
  <2> SUFFICES ASSUME IInv, CrashInv, AuthorizationConsumed, [CrashNext]_crashVars
               PROVE  AuthorizationConsumed'
    OBVIOUS
  <2>1. CASE BootAgain \/ ResetOnward \/ Crash \/ BootHealthFindsLock
    <3>1. health' # "served"
      BY <2>1 DEF BootAgain, ResetOnward, Crash, BootHealthFindsLock
    <3> QED BY <3>1 DEF AuthorizationConsumed
  <2>2. CASE BootHealthStarts
    <3>1. cmd' = "boot-success"
      BY <2>2 DEF BootHealthStarts, Start
    <3> QED BY <3>1 DEF AuthorizationConsumed
  <2>3. CASE Administrator
    <3>1. grubenv' = grubenv /\ power' = power /\ health' = health
      BY <2>3 DEF Administrator, Edit, Start
    <3>2. cmd' = cmd \/ cmd = "none"
      BY <2>3 DEF Administrator, Edit, Start, IInv, Control
    <3> QED BY <3>1, <3>2 DEF AuthorizationConsumed
  <2>4. CASE EngineOnward
    <3>1. power' = power /\ health' = health
      BY <2>4, CommandsRun DEF EngineOnward
    <3> QED BY <2>4, <3>1, EngineConsumes DEF EngineOnward, AuthorizationConsumed
  <2>5. CASE UNCHANGED crashVars
    BY <2>5 DEF crashVars, vars, AuthorizationConsumed
  <2> QED BY <2>1, <2>2, <2>3, <2>4, <2>5 DEF CrashNext, BootHealth
<1> QED BY <1>1, <1>2, <1>3, CrashSpecIsMachine, Invariant, PTL DEF CrashSpec

-----------------------------------------------------------------------------
(***************************************************************************)
(* What TransactionEnds and MachineComesUp rest on beside fairness: no     *)
(* command, recovery, reset or boot goes round in a circle.  The rank of a *)
(* state counts what a loop of deletions and renames finds on the disk,    *)
(* the steps that the lock's holder and the reset have before them, and    *)
(* the boot and its boot-success that are still to come.                   *)
(***************************************************************************)
Weight(n, w) == IF Present(n) THEN w ELSE 0

\* A predecessor weighs more than the name that it is renamed to.
DiskRank ==
  Weight(GoldenPending, 2) + Weight(GoldenNext, 2) + Weight(ActivePending, 2)
    + Weight(ActiveNext, 2) + Weight(Capture, 2) + Weight(Golden, 1) + Weight(Active, 1)

EngineRank ==
  CASE pc = "recover" -> 22 [] pc = "rollback" -> 21
    [] pc \in {"restore-mode", "forward"} -> 20 [] pc = "close" -> 19 [] pc = "body" -> 18
    [] pc = "snapshot" -> 17 [] pc = "capture" -> 16 [] pc = "flatten" -> 15
    [] pc = "uncapture" -> 14 [] pc = "seal" -> 13 [] pc = "derive" -> 12
    [] pc = "prepared" -> 11 [] pc = "golden-out" -> 10 [] pc = "golden-in" -> 9
    [] pc = "golden-committed" -> 8 [] pc = "active-out" -> 7 [] pc = "active-in" -> 6
    [] pc = "active-committed" -> 5 [] pc = "boot-mode" -> 4
    [] pc \in {"boot-committed", "discard"} -> 3 [] pc \in {"cleanup", "forget"} -> 2
    [] pc \in {"finish", "revoke"} -> 1 [] OTHER -> 0

ResetRank ==
  CASE rpc = "probe" -> 10 [] rpc = "reconcile" -> 9 [] rpc = "validate" -> 8
    [] rpc = "clear" -> 7 [] rpc = "derive" -> 6 [] rpc = "drop" -> 5 [] rpc = "swap" -> 4
    [] rpc = "prove" -> 3 [] rpc = "ready" -> IF sysroot THEN 1 ELSE 2 [] OTHER -> 0

BootRank ==
  IF power = "off" THEN 3
  ELSE IF power = "initrd" THEN 2
  ELSE IF Running /\ health = "due" THEN 1 ELSE 0


LEMMA RanksAreSmall ==
  /\ DiskRank \in Disks /\ EngineRank \in Engines /\ ResetRank \in Resets /\ BootRank \in Boots
  /\ DiskRank' \in Disks /\ EngineRank' \in Engines /\ ResetRank' \in Resets /\ BootRank' \in Boots
<1>1. DiskRank \in Disks /\ DiskRank' \in Disks
  BY DEF DiskRank, Weight, Disks
<1>2. EngineRank \in Engines /\ EngineRank' \in Engines
  BY DEF EngineRank, Engines
<1>3. ResetRank \in Resets /\ ResetRank' \in Resets
  BY DEF ResetRank, Resets
<1>4. BootRank \in Boots /\ BootRank' \in Boots
  BY DEF BootRank, Boots
<1> QED BY <1>1, <1>2, <1>3, <1>4

Rank == Total(BootRank, EngineRank, ResetRank, DiskRank)
RankOfAll == OfAll(crashes, Rank)

LEMMA RankIsSmall == Rank \in Ranks /\ Rank' \in Ranks
<1>1. Rank' = Total(BootRank', EngineRank', ResetRank', DiskRank')
  BY DEF Rank, Total
<1>2. Total(BootRank', EngineRank', ResetRank', DiskRank') \in Ranks
  BY RanksAreSmall, TotalBounded, Zenon
<1>3. Total(BootRank, EngineRank, ResetRank, DiskRank) \in Ranks
  BY RanksAreSmall, TotalBounded, Zenon
<1> QED BY <1>1, <1>2, <1>3, Zenon DEF Rank

\* A step of a recovery, but for the loops, is one step further.
LEMMA RecoveryDescends ==
  ASSUME Recovery, ~Rollback, ~Cleanup
  PROVE  EngineRank' < EngineRank
<1>1. CASE RecoverNothing \/ RecoverRefuses \/ RecoverRollsBack \/ RecoverRollsForward \/ RecoverRefusesPair
  <2>1. pc = "recover" /\ pc' \in {"rollback", "forward", "body", "idle"}
    BY <1>1 DEF RecoverNothing, RecoverRefuses, RecoverRollsBack, RecoverRollsForward,
       RecoverRefusesPair
  <2> QED BY ONLY <2>1 DEF EngineRank
<1>2. CASE RollbackDone \/ RestoreMode \/ Close
  <2>1. <<pc, pc'>> \in {<<"rollback", "restore-mode">>, <<"restore-mode", "close">>, <<"close", "body">>}
    BY <1>2 DEF RollbackDone, RestoreMode, Close
  <2> QED BY ONLY <2>1 DEF EngineRank
<1>3. CASE CleanupDone
  <2>1. <<pc, pc'>> \in {<<"forward", "close">>, <<"cleanup", "finish">>}
    BY <1>3 DEF CleanupDone
  <2> QED BY ONLY <2>1 DEF EngineRank
<1> QED BY <1>1, <1>2, <1>3 DEF Recovery

LEMMA BootSuccessDescends ==
  ASSUME BootSuccess, ~DiscardRuntime
  PROVE  EngineRank' < EngineRank
<1>1. <<pc, pc'>> \in {<<"body", "idle">>, <<"body", "discard">>, <<"discard", "forget">>,
                      <<"forget", "revoke">>, <<"revoke", "idle">>}
  BY DEF BootSuccess, VerifyFrozenBoot, VerifyThawedBoot, RuntimeDiscarded, ForgetProof, RevokeRemote
<1> QED BY ONLY <1>1 DEF EngineRank

LEMMA FreezeDescends ==
  ASSUME Freeze
  PROVE  EngineRank' < EngineRank
<1>1. CASE \/ Begin \/ SnapshotCandidate \/ CaptureSources \/ Flatten \/ DropCapture \/ Seal
           \/ DeriveActive \/ Prepared
  <2>1. <<pc, pc'>> \in {<<"body", "snapshot">>, <<"snapshot", "capture">>, <<"snapshot", "seal">>,
                        <<"capture", "flatten">>, <<"flatten", "uncapture">>,
                        <<"uncapture", "seal">>, <<"seal", "derive">>,
                        <<"derive", "prepared">>, <<"prepared", "golden-out">>}
    BY <1>1 DEF Begin, SnapshotCandidate, CaptureSources, Flatten, DropCapture, Seal,
       DeriveActive, Prepared, WritePhase, ChangeSubvolumes
  <2> QED BY ONLY <2>1 DEF EngineRank
<1>2. CASE \/ GoldenOut \/ GoldenIn \/ GoldenCommitted \/ ActiveOut \/ ActiveIn
           \/ ActiveCommitted \/ ScheduleFrozen \/ BootCommitted \/ Finish
  <2>1. <<pc, pc'>> \in {<<"golden-out", "golden-in">>, <<"golden-in", "golden-committed">>,
                        <<"golden-committed", "active-out">>, <<"active-out", "active-in">>,
                        <<"active-in", "active-committed">>, <<"active-committed", "boot-mode">>,
                        <<"boot-mode", "boot-committed">>, <<"boot-committed", "cleanup">>,
                        <<"finish", "idle">>}
    BY <1>2 DEF GoldenOut, GoldenIn, GoldenCommitted, ActiveOut, ActiveIn, ActiveCommitted,
       ScheduleFrozen, BootCommitted, Finish, WritePhase, ChangeSubvolumes
  <2> QED BY ONLY <2>1 DEF EngineRank
<1> QED BY <1>1, <1>2 DEF Freeze

\* A loop finds less on the disk each time; any other step is one step further.
LEMMA EngineDescends ==
  ASSUME IInv, EngineStep
  PROVE  /\ UNCHANGED <<power, rpc, sysroot>>
         /\ \/ EngineRank' < EngineRank
            \/ pc' = pc /\ DiskRank' < DiskRank
<1>1. UNCHANGED <<power, rpc, sysroot>>
  <2>1. CASE Recovery
    BY <2>1 DEF Recovery, RecoverNothing, RecoverRefuses, RecoverRollsBack, RecoverRollsForward,
       RecoverRefusesPair, Rollback, RollbackDone, RestoreMode, Cleanup, CleanupDone, Close
  <2>2. CASE Status \/ Thaw \/ BootSuccess
    BY <2>2 DEF Status, Thaw, BootSuccess, VerifyFrozenBoot, VerifyThawedBoot, DiscardRuntime,
       RuntimeDiscarded, ForgetProof, RevokeRemote
  <2>3. CASE Freeze
    BY <2>3 DEF Freeze, Begin, SnapshotCandidate, CaptureSources, Flatten, DropCapture, Seal,
       DeriveActive, Prepared, GoldenOut, GoldenIn, GoldenCommitted, ActiveOut, ActiveIn,
       ActiveCommitted, ScheduleFrozen, BootCommitted, Finish, WritePhase, ChangeSubvolumes
  <2> QED BY <2>1, <2>2, <2>3 DEF EngineStep
<1>2. CASE Rollback
  BY <1>1, <1>2, SMTT(20) DEF Rollback, RollbackStep, RestorePredecessor, Put, Delete, Rename,
     DeleteFirst, DiskRank, Weight, IInv, TypeOK
<1>3. CASE Cleanup
  BY <1>1, <1>3, SMTT(20) DEF Cleanup, CleanupOrder, DeleteFirst, Put, Delete, DiskRank, Weight,
     IInv, TypeOK
<1>4. CASE DiscardRuntime
  BY <1>1, <1>4, SMTT(20) DEF DiscardRuntime, Runtimes, DeleteFirst, Put, Delete, DiskRank,
     Weight, IInv, TypeOK
<1>5. CASE Status \/ Thaw
  <2>1. pc = "body" /\ pc' = "idle"
    BY <1>5 DEF Status, Thaw
  <2>2. EngineRank' < EngineRank
    BY ONLY <2>1 DEF EngineRank
  <2> QED BY <1>1, <2>2
<1> QED BY <1>1, <1>2, <1>3, <1>4, <1>5, RecoveryDescends, BootSuccessDescends, FreezeDescends
        DEF EngineStep

LEMMA ResetDescends ==
  ASSUME IInv, ResetStep
  PROVE  /\ UNCHANGED pc /\ power = "initrd" /\ power' \in {"initrd", "frozen"}
         /\ \/ ResetRank' < ResetRank
            \/ rpc' = rpc /\ sysroot' = sysroot /\ DiskRank' < DiskRank
<1> USE DEF IInv, TypeOK, AtReset, ResetGoTo
<1>1. CASE Reconcile
  BY <1>1, SMTT(20) DEF Reconcile, ReconcileStep, RestorePredecessor, Put, Delete, Rename,
     DeleteFirst, DiskRank, Weight
<1>2. CASE ProbeAgain \/ ProbeFirst \/ ReconcileDone \/ Validate \/ Clear \/ Derive
  BY <1>2, SMTT(20) DEF ProbeAgain, ProbeFirst, ReconcileDone, Validate, Clear, Derive, ResetRank
<1>3. CASE Drop \/ Swap \/ Prove \/ MountSysroot \/ SwitchRoot
  BY <1>3, SMTT(20) DEF Drop, Swap, Prove, MountSysroot, SwitchRoot, ResetRank
<1> QED BY <1>1, <1>2, <1>3 DEF ResetStep

LEMMA RankFalls ==
  ASSUME \/ BootRank' < BootRank
         \/ BootRank' = BootRank /\ ResetRank' = ResetRank /\ EngineRank' < EngineRank
         \/ BootRank' = BootRank /\ EngineRank' = EngineRank /\ ResetRank' < ResetRank
         \/ /\ BootRank' = BootRank /\ EngineRank' = EngineRank /\ ResetRank' = ResetRank
            /\ DiskRank' < DiskRank
  PROVE  Rank' < Rank
<1>1. Rank' = Total(BootRank', EngineRank', ResetRank', DiskRank')
  BY DEF Rank, Total
<1>2. Total(BootRank', EngineRank', ResetRank', DiskRank')
        < Total(BootRank, EngineRank, ResetRank, DiskRank)
  BY RanksAreSmall, TotalFalls, Zenon
<1> QED BY <1>1, <1>2, Zenon DEF Rank

LEMMA OnwardDescends ==
  ASSUME IInv, BootAgain \/ ResetOnward \/ BootHealth \/ EngineOnward
  PROVE  Rank' < Rank /\ crashes' = crashes
<1>1. CASE BootAgain
  <2>1. BootRank = 3 /\ BootRank' \in 0..2
    BY <1>1 DEF BootAgain, Boot, BootThawed, BootFrozen, BootFindsNoKernel, BootRank
  <2>2. BootRank' < BootRank
    BY ONLY <2>1
  <2> QED BY <1>1, <2>2, RankFalls DEF BootAgain
<1>2. CASE ResetOnward
  <2>1. EngineRank' = EngineRank
    BY <1>2, ResetDescends DEF ResetOnward, EngineRank
  <2>2. CASE power' = "initrd"
    <3>1. BootRank' = BootRank
      BY <1>2, <2>2, ResetDescends DEF ResetOnward, BootRank
    <3>2. ResetRank' < ResetRank \/ (ResetRank' = ResetRank /\ DiskRank' < DiskRank)
      BY <1>2, ResetDescends DEF ResetOnward, ResetRank
    <3> QED BY <1>2, <2>1, <3>1, <3>2, RankFalls DEF ResetOnward
  <2>3. CASE power' # "initrd"
    <3>1. BootRank = 2 /\ BootRank' = 1
      BY <1>2, <2>3, ResetDescends DEF ResetOnward, BootRank
    <3>2. BootRank' < BootRank
      BY ONLY <3>1
    <3> QED BY <1>2, <3>2, RankFalls DEF ResetOnward
  <2> QED BY <2>2, <2>3
<1>3. CASE BootHealth
  <2>1. BootRank = 1 /\ BootRank' = 0
    BY <1>3 DEF BootHealth, BootHealthStarts, BootHealthFindsLock, Start, BootRank, vars
  <2>2. BootRank' < BootRank
    BY ONLY <2>1
  <2> QED BY <1>3, <2>2, RankFalls DEF BootHealth, BootHealthStarts, BootHealthFindsLock
<1>4. CASE EngineOnward
  <2>1. BootRank' = BootRank /\ ResetRank' = ResetRank
    BY <1>4, EngineDescends DEF EngineOnward, BootRank, ResetRank
  <2>2. EngineRank' < EngineRank \/ (EngineRank' = EngineRank /\ DiskRank' < DiskRank)
    BY <1>4, EngineDescends DEF EngineOnward, EngineRank
  <2> QED BY <1>4, <2>1, <2>2, RankFalls DEF EngineOnward
<1> QED BY <1>1, <1>2, <1>3, <1>4

(***************************************************************************)
(* systemd's boots, the reset, boot-success and the engine's recoveries    *)
(* and commands: whatever a crash left, each of their steps brings the     *)
(* machine nearer to its rest, and a crash uses up a crash.  Unless the    *)
(* administrator does something, the rest is at most MostSteps steps away  *)
(* for each crash that is still to come, and as many after the last.       *)
(***************************************************************************)
THEOREM MachineComesToRest ==
  CrashSpec => /\ [](RankOfAll \in 0..(MostSteps * (MaxCrashes + 1)))
               /\ [][~Administrator => RankOfAll' < RankOfAll]_crashVars
<1> DEFINE Counted == crashes \in 0..MaxCrashes
<1>1. CrashInit => Counted
  BY MaxCrashesAssumption DEF CrashInit
<1>2. IInv /\ Counted /\ [CrashNext]_crashVars =>
        Counted' /\ [~Administrator => RankOfAll' < RankOfAll]_crashVars
  <2> SUFFICES ASSUME IInv, Counted, [CrashNext]_crashVars
               PROVE  Counted' /\ [~Administrator => RankOfAll' < RankOfAll]_crashVars
    OBVIOUS
  <2>1. Rank \in Ranks /\ Rank' \in Ranks /\ RankOfAll' = OfAll(crashes', Rank')
    BY RankIsSmall DEF RankOfAll, OfAll
  <2>2. CASE BootAgain \/ ResetOnward \/ BootHealth \/ EngineOnward
    <3>1. Rank' < Rank /\ crashes' = crashes
      BY <2>2, OnwardDescends
    <3>2. OfAll(crashes, Rank') < OfAll(crashes, Rank)
      BY <2>1, <3>1, OfAllFalls, Zenon
    <3> QED BY <2>1, <3>1, <3>2, Zenon DEF RankOfAll
  <2>3. CASE Crash
    <3>1. crashes < MaxCrashes /\ crashes' = crashes + 1
      BY <2>3 DEF Crash
    <3>2. crashes + 1 \in 0..MaxCrashes /\ OfAll(crashes + 1, Rank') < OfAll(crashes, Rank)
      BY <2>1, <3>1, OfAllFalls, Zenon
    <3> QED BY <2>1, <3>1, <3>2, Zenon DEF RankOfAll
  <2>4. CASE Administrator
    BY <2>4 DEF Administrator
  <2>5. CASE UNCHANGED crashVars
    BY <2>5 DEF crashVars
  <2> QED BY <2>2, <2>3, <2>4, <2>5 DEF CrashNext
<1>3. Counted => RankOfAll \in 0..(MostSteps * (MaxCrashes + 1))
  <2> SUFFICES ASSUME Counted PROVE RankOfAll \in 0..(MostSteps * (MaxCrashes + 1))
    OBVIOUS
  <2>1. Rank \in Ranks
    BY RankIsSmall
  <2> QED BY <2>1, OfAllFalls, Zenon DEF RankOfAll
<1>4. CrashSpec => []IInv
  BY CrashSpecIsMachine, Invariant, PTL
<1> HIDE DEF Counted
<1> QED BY <1>1, <1>2, <1>3, <1>4, PTL DEF CrashSpec
=============================================================================
