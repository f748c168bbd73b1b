------------------------- MODULE CachyMachineProofs -------------------------
(***************************************************************************)
(* The machine's theorems. The properties of CachyMachine are not          *)
(* inductive: what a step does depends on where the engine and the reset   *)
(* are, so IInv adds, for each position of pc and rpc, what the steps      *)
(* before it have established: the journal phase, which names exist, what  *)
(* the candidate holds and which subvolume the runtime was derived from. A *)
(* crash keeps all of it, since it forgets the position and leaves the     *)
(* disk.                                                                   *)
(***************************************************************************)
EXTENDS CachyMachine, TLAPS

BuildSteps    == {"capture", "flatten", "uncapture", "seal"}
SealedSteps   == {"derive", "prepared", "golden-out", "golden-in"}
PlacedSteps   == {"golden-committed", "active-out", "active-in", "active-committed",
                  "boot-mode", "boot-committed", "cleanup", "finish"}
VerifySteps   == {"discard", "forget", "revoke"}
FreezeSteps   == {"snapshot"} \cup BuildSteps \cup SealedSteps \cup PlacedSteps

\* Which programs run in which state of the machine, and who may hold the lock.
Control ==
  /\ pc # "idle" => Running
  /\ cmd = "none" <=> pc = "idle"
  /\ rpc # "idle" <=> power = "initrd"
  /\ power = "initrd" => grubenv.mode = "frozen"
  /\ sysroot => power \in {"initrd", "emergency"} /\ marker = "current"
  /\ cmd = "freeze" => power = "thawed"
  /\ cmd \in {"thaw", "thaw-authorized"} => power = "frozen"
  /\ pc \in FreezeSteps => cmd = "freeze"
  /\ pc \in VerifySteps => power = "thawed"

\* A frozen session leaves the engine nothing to recover.
FrozenControl == power = "frozen" => pc \in {"idle", "recover", "body"}

\* The phase that the journal records at each step of the engine and of the reset.
JournalOfStep ==
  /\ pc \in {"rollback", "restore-mode"} => journal \notin {"none", "boot-committed"}
  /\ pc \in {"forward", "cleanup", "finish"} => journal = "boot-committed"
  /\ pc = "close" => journal # "none"
  /\ pc \in {"snapshot", "derive", "prepared"} \cup BuildSteps => journal = "preparing"
  /\ pc \in {"golden-out", "golden-in", "golden-committed"} => journal = "prepared"
  /\ pc \in {"active-out", "active-in", "active-committed"} => journal = "golden-committed"
  /\ pc \in {"boot-mode", "boot-committed"} => journal = "active-committed"
  /\ pc \in {"body"} \cup VerifySteps => journal = "none"
  /\ rpc \in {"validate", "clear", "derive", "drop", "swap", "prove", "ready"} =>
       journal = "none"

\* The steps at which no transaction-scoped subvolume may exist.
Quiet ==
  \/ pc \in {"restore-mode", "close", "body", "snapshot", "finish"} \cup VerifySteps
  \/ rpc \in {"validate", "clear", "derive", "prove", "ready"}

QuietClean == Quiet => NonePresent(Transients)

\* What _prepare_golden_candidate has made of @golden.next so far: it is sealed last.
Candidate ==
  /\ Present(GoldenNext) =>
       ~subvol[GoldenNext].used /\ (subvol[GoldenNext].ro => subvol[GoldenNext].whole)
  /\ pc \in BuildSteps \cup SealedSteps => Present(GoldenNext)
  /\ pc \in {"uncapture", "seal"} => subvol[GoldenNext].whole
  /\ pc \in SealedSteps => subvol[GoldenNext].ro

\* What the reset has made of the runtime so far, and what the proof of this boot says.
ResetControl ==
  /\ rpc \in {"clear", "derive", "drop", "swap", "prove", "ready"} => Present(Golden)
  /\ rpc \in {"drop", "swap"} =>
       /\ NonePresent(Transients \ {ActiveNext})
       /\ subvol[ActiveNext] = Writable(subvol[Golden])
  /\ rpc = "prove" =>
       Present(Active) /\ subvol[Active] = Writable(subvol[Golden])
  /\ power = "initrd" /\ rpc = "probe" /\ marker = "current" =>
       FreshRoot /\ journal = "none" /\ NonePresent(Transients)
  /\ sysroot => Present(Active)
  /\ marker = "current" => power \in {"initrd", "frozen", "emergency"}
  /\ power = "initrd" /\ marker = "current" => rpc \in {"probe", "ready"}

\* From the rename of the candidate on, @golden is there and valid, and its predecessor
\* does not wait for another candidate.
Placed ==
  /\ pc \in {"forward", "cleanup", "finish"} \cup PlacedSteps => ValidGolden(Golden)
  /\ Present(Golden) /\ Present(GoldenPending) => ~Present(GoldenNext)

\* The runtime that a freeze publishes is derived from the golden it publishes.
Pair ==
  /\ pc \in {"prepared", "golden-out", "golden-in"} =>
       Present(ActiveNext) /\ subvol[ActiveNext] = Writable(subvol[GoldenNext])
  /\ pc \in {"golden-committed", "active-out", "active-in"} =>
       Present(ActiveNext) /\ subvol[ActiveNext] = Writable(subvol[Golden])
  /\ pc \in {"active-committed", "boot-mode", "boot-committed", "cleanup", "finish"} =>
       Present(Active) /\ subvol[Active] = Writable(subvol[Golden])
  /\ pc \in {"boot-committed", "cleanup", "finish"} =>
       grubenv = [mode |-> "frozen", remote |-> FALSE]

\* The inductive invariant.
IInv ==
  /\ TypeOK /\ Control /\ FrozenControl /\ JournalOfStep /\ QuietClean
  /\ Candidate /\ ResetControl /\ Placed /\ Pair
  /\ BaselinePristine /\ PendingOwned /\ FrozenHasBaseline
  /\ SwitchRootIsFresh /\ FrozenQuiescent /\ RemoteOnlyForThawed

-----------------------------------------------------------------------------
(***************************************************************************)
(* The vocabulary of the steps below: names, sets of steps and the parts   *)
(* of the invariant.                                                       *)
(***************************************************************************)
USE AbsentAssumption
    DEF Names, Golden, GoldenNext, GoldenPending, Active, ActiveNext, ActivePending,
        Capture, Transients, Subvolume, Phases, Modes, Commands, Powers,
        EngineSteps, ResetSteps, BuildSteps, SealedSteps, PlacedSteps,
        VerifySteps, FreezeSteps, Running, Present, ValidGolden, ValidActive,
        NonePresent, Baseline, boot, disk, At, GoTo, Return

\* A record of a subvolume is never the value of a missing one, whichever of
\* its fields a step rewrites.
LEMMA SubvolumePresent ==
  ASSUME NEW b \in Versions, NEW w \in BOOLEAN, NEW u \in BOOLEAN, NEW r \in BOOLEAN
  PROVE  [base |-> b, whole |-> w, used |-> u, ro |-> r] # Absent
<1>1. [base |-> b, whole |-> w, used |-> u, ro |-> r] \in Subvolume
  BY Zenon DEF Subvolume
<1> QED BY <1>1

\* The same of a subvolume whose used and ro fields are rewritten (seal, switch-root).
LEMMA RewrittenPresent ==
  ASSUME NEW s \in Subvolume, NEW u \in BOOLEAN, NEW r \in BOOLEAN
  PROVE  [base |-> s.base, whole |-> s.whole, used |-> u, ro |-> r] # Absent
<1>1. s.base \in Versions /\ s.whole \in BOOLEAN
  BY Zenon DEF Subvolume
<1> QED BY <1>1, SubvolumePresent, Zenon

\* The same of a writable snapshot of a subvolume.
LEMMA WritablePresent ==
  ASSUME NEW s \in Subvolume
  PROVE  Writable(s) # Absent
<1>1. s.used \in BOOLEAN
  BY Zenon DEF Subvolume
<1> QED BY <1>1, RewrittenPresent, Zenon DEF Writable

USE DEF IInv, TypeOK, Control, FrozenControl, JournalOfStep, QuietClean, Quiet,
        Candidate, ResetControl, Placed, Pair, BaselinePristine, Pristine,
        PendingOwned, FrozenHasBaseline, SwitchRootIsFresh, FreshRoot,
        FrozenQuiescent, RemoteOnlyForThawed

\* The installed machine satisfies the invariant.
LEMMA InitIInv == ASSUME Init PROVE IInv
<1>1. sysroot \in BOOLEAN
  BY Zenon DEF Init
<1>2. TypeOK
  BY <1>1, SMTT(20) DEF Init
<1>3. /\ Control /\ FrozenControl /\ JournalOfStep /\ QuietClean /\ Candidate
      /\ ResetControl /\ Placed /\ Pair /\ BaselinePristine /\ PendingOwned
      /\ FrozenHasBaseline /\ SwitchRootIsFresh /\ FrozenQuiescent
      /\ RemoteOnlyForThawed
  BY SMTT(20) DEF Init
<1> QED BY <1>2, <1>3

\* GRUB, a power failure and the administrator's changes to @ keep it.
LEMMA BootKeepsIInv ==
  ASSUME IInv, Boot \/ PowerOff \/ Edit
  PROVE  IInv'
<1>1. CASE BootThawed
  BY <1>1, SMTT(20) DEF BootThawed
<1>2. CASE BootFrozen
  BY <1>2, SMTT(20) DEF BootFrozen
<1>3. CASE BootFindsNoKernel
  BY <1>3, SMTT(20) DEF BootFindsNoKernel
<1>4. CASE PowerOff
  <2>1. TypeOK'
    <3>1. sysroot' \in BOOLEAN
      BY <1>4, Zenon DEF PowerOff
    <3> QED BY <1>4, <3>1, SMTT(20) DEF PowerOff
  <2>2. (/\ Control /\ FrozenControl /\ JournalOfStep /\ QuietClean /\ Candidate
         /\ ResetControl /\ Placed /\ Pair /\ BaselinePristine /\ PendingOwned
         /\ FrozenHasBaseline /\ SwitchRootIsFresh /\ FrozenQuiescent
         /\ RemoteOnlyForThawed)'
    BY <1>4, SMTT(20) DEF PowerOff
  <2> QED BY <2>1, <2>2
<1>5. CASE Edit
  BY <1>5, SMTT(20) DEF Edit
<1> HIDE DEF IInv
<1> QED BY <1>1, <1>2, <1>3, <1>4, <1>5 DEF Boot

\* So does the recovery that every command starts with.
LEMMA RecoveryKeepsIInv ==
  ASSUME IInv, Recovery
  PROVE  IInv'
<1>1. CASE RecoverNothing
  BY <1>1, SMTT(20) DEF RecoverNothing
<1>2. CASE RecoverRefuses
  BY <1>2, SMTT(20) DEF RecoverRefuses
<1>3. CASE RecoverRollsBack
  BY <1>3, SMTT(20) DEF RecoverRollsBack
<1>4. CASE RecoverRollsForward
  BY <1>4, SMTT(20) DEF RecoverRollsForward
<1>5. CASE RecoverRefusesPair
  BY <1>5, SMTT(20) DEF RecoverRefusesPair
<1>6. CASE Rollback
  BY <1>6, SMTT(20) DEF Rollback, RollbackStep, RestorePredecessor, Put, Delete, Rename,
     DeleteFirst
<1>7. CASE RollbackDone
  BY <1>7, SMTT(20) DEF RollbackDone
<1>8. CASE RestoreMode
  BY <1>8, SMTT(20) DEF RestoreMode, SetBootMode
<1>9. CASE Cleanup
  <2>1. Pair'
    BY <1>9, SMTT(20) DEF Cleanup, CleanupOrder, DeleteFirst, Put, Delete
  <2>2. (/\ TypeOK /\ Control /\ FrozenControl /\ JournalOfStep /\ QuietClean
         /\ Candidate /\ ResetControl /\ Placed /\ BaselinePristine /\ PendingOwned
         /\ FrozenHasBaseline /\ SwitchRootIsFresh /\ FrozenQuiescent
         /\ RemoteOnlyForThawed)'
    BY <1>9, SMTT(20) DEF Cleanup, CleanupOrder, DeleteFirst, Put, Delete
  <2> QED BY <2>1, <2>2
<1>10. CASE CleanupDone
  BY <1>10, SMTT(20) DEF CleanupDone, CleanupOrder, Elements
<1>11. CASE Close
  BY <1>11, SMTT(20) DEF Close
<1> HIDE DEF IInv
<1> QED BY <1>1, <1>2, <1>3, <1>4, <1>5, <1>6, <1>7, <1>8, <1>9, <1>10, <1>11 DEF Recovery

\* So do status, thaw and boot-success, and a command that starts or fails.
LEMMA CommandKeepsIInv ==
  ASSUME IInv, (\E c \in Commands : Start(c)) \/ CommandFails \/ Status \/ Thaw \/
     BootSuccess
  PROVE  IInv'
<1>1. CASE \E c \in Commands : Start(c)
  BY <1>1, SMTT(20) DEF Start
<1>2. CASE CommandFails
  BY <1>2, SMTT(20) DEF CommandFails
<1>3. CASE Status
  BY <1>3, SMTT(20) DEF Status
<1>4. CASE Thaw
  BY <1>4, SMTT(20) DEF Thaw, SetBootMode
<1>5. CASE VerifyFrozenBoot
  BY <1>5, SMTT(20) DEF VerifyFrozenBoot
<1>6. CASE VerifyThawedBoot
  BY <1>6, SMTT(20) DEF VerifyThawedBoot
<1>7. CASE DiscardRuntime
  BY <1>7, SMTT(20) DEF DiscardRuntime, Runtimes, DeleteFirst, Put, Delete
<1>8. CASE RuntimeDiscarded
  BY <1>8, SMTT(20) DEF RuntimeDiscarded, Runtimes, Elements
<1>9. CASE ForgetProof
  BY <1>9, SMTT(20) DEF ForgetProof
<1>10. CASE RevokeRemote
  BY <1>10, SMTT(20) DEF RevokeRemote, SetBootMode
<1> HIDE DEF IInv
<1> QED BY <1>1, <1>2, <1>3, <1>4, <1>5, <1>6, <1>7, <1>8, <1>9, <1>10 DEF BootSuccess

\* So does every step of freeze.
LEMMA FreezeKeepsIInv ==
  ASSUME IInv, Freeze
  PROVE  IInv'
<1>1. CASE Begin
  BY <1>1, SMTT(20) DEF Begin, WritePhase
<1>2. CASE SnapshotCandidate
  <2>1. Candidate'
    <3>1. PICK hasSources \in BOOLEAN :
            /\ Put(GoldenNext, [base |-> maintenance, whole |-> ~hasSources,
                                used |-> FALSE, ro |-> FALSE])
            /\ ChangeSubvolumes(IF hasSources THEN "capture" ELSE "seal")
      BY <1>2, Zenon DEF SnapshotCandidate
    <3>2. subvol'[GoldenNext] = [base |-> maintenance, whole |-> ~hasSources,
                                 used |-> FALSE, ro |-> FALSE]
      BY <3>1 DEF Put
    <3>3. subvol'[GoldenNext].whole = ~hasSources
      BY <3>2
    <3>4. ~subvol'[GoldenNext].used /\ ~subvol'[GoldenNext].ro
      BY <3>2
    <3>5. Present(GoldenNext)'
      BY <3>1, <3>2, SubvolumePresent, Zenon
    <3>6. pc' \in {"seal", "capture"} /\ (pc' = "seal" => ~hasSources)
      BY <3>1 DEF ChangeSubvolumes
    <3>7. pc' = "seal" => subvol'[GoldenNext].whole
      BY <3>3, <3>6, Zenon
    <3> QED BY <3>4, <3>5, <3>6, <3>7, SMTT(20)
  <2>2. (/\ TypeOK /\ Control /\ FrozenControl /\ JournalOfStep /\ QuietClean
         /\ ResetControl /\ Placed /\ Pair /\ BaselinePristine /\ PendingOwned
         /\ FrozenHasBaseline /\ SwitchRootIsFresh /\ FrozenQuiescent
         /\ RemoteOnlyForThawed)'
    BY <1>2, SMTT(20) DEF SnapshotCandidate, ChangeSubvolumes, Put
  <2> QED BY <2>1, <2>2
<1>3. CASE CaptureSources
  BY <1>3, SMTT(20) DEF CaptureSources, ChangeSubvolumes, Put
<1>4. CASE Flatten
  <2>1. Candidate'
    <3>1. subvol'[GoldenNext] = [base |-> subvol[GoldenNext].base, whole |-> TRUE,
                                 used |-> subvol[GoldenNext].used, ro |-> FALSE]
      BY <1>4, SMTT(20) DEF Flatten, ChangeSubvolumes, Put
    <3>2. ~subvol[GoldenNext].used
      BY <1>4, SMTT(20) DEF Flatten
    <3>3. /\ subvol'[GoldenNext].whole /\ ~subvol'[GoldenNext].used
          /\ ~subvol'[GoldenNext].ro
      BY <3>1, <3>2
    <3>4. subvol[GoldenNext] \in Subvolume
      BY <1>4, SMTT(20) DEF Flatten
    <3>5. subvol[GoldenNext].base \in Versions /\ subvol[GoldenNext].used \in BOOLEAN
      BY <3>4, Zenon DEF Subvolume
    <3>6. Present(GoldenNext)'
      BY <3>1, <3>5, SubvolumePresent, ZenonT(40)
    <3> QED BY <1>4, <3>3, <3>6, SMTT(20) DEF Flatten, ChangeSubvolumes
  <2>2. (/\ TypeOK /\ Control /\ FrozenControl /\ JournalOfStep /\ QuietClean
         /\ ResetControl /\ Placed /\ Pair /\ BaselinePristine /\ PendingOwned
         /\ FrozenHasBaseline /\ SwitchRootIsFresh /\ FrozenQuiescent
         /\ RemoteOnlyForThawed)'
    BY <1>4, SMTT(20) DEF Flatten, ChangeSubvolumes, Put
  <2> QED BY <2>1, <2>2
<1>5. CASE DropCapture
  BY <1>5, SMTT(20) DEF DropCapture, ChangeSubvolumes, Put, Delete
<1>6. CASE Seal
  <2>1. Candidate'
    <3>1. subvol'[GoldenNext] = [base |-> subvol[GoldenNext].base, whole |->
       subvol[GoldenNext].whole,
                                 used |-> subvol[GoldenNext].used, ro |-> TRUE]
      BY <1>6, SMTT(20) DEF Seal, ChangeSubvolumes, Put
    <3>2. subvol[GoldenNext].whole /\ ~subvol[GoldenNext].used
      BY <1>6, SMTT(20) DEF Seal
    <3>3. /\ subvol'[GoldenNext].whole /\ ~subvol'[GoldenNext].used
          /\ subvol'[GoldenNext].ro
      BY <3>1, <3>2
    <3>4. subvol[GoldenNext] \in Subvolume
      BY <1>6 DEF Seal
    <3>5. subvol[GoldenNext].used \in BOOLEAN
      BY <3>4, Zenon DEF Subvolume
    <3>6. Present(GoldenNext)'
      BY <3>1, <3>4, <3>5, RewrittenPresent, Zenon
    <3> QED BY <1>6, <3>3, <3>6, SMTT(20) DEF Seal, ChangeSubvolumes
  <2>2. (/\ TypeOK /\ Control /\ FrozenControl /\ JournalOfStep /\ QuietClean
         /\ ResetControl /\ Placed /\ Pair /\ BaselinePristine /\ PendingOwned
         /\ FrozenHasBaseline /\ SwitchRootIsFresh /\ FrozenQuiescent
         /\ RemoteOnlyForThawed)'
    BY <1>6, SMTT(20) DEF Seal, ChangeSubvolumes, Put
  <2> QED BY <2>1, <2>2
<1>7. CASE DeriveActive
  <2>1. Candidate'
    BY <1>7, SMTT(20) DEF DeriveActive, ChangeSubvolumes, Put, Snapshot, Writable
  <2>2. Pair'
    <3>1. /\ subvol'[ActiveNext] = Writable(subvol[GoldenNext])
          /\ subvol'[GoldenNext] = subvol[GoldenNext]
      BY <1>7, SMTT(20) DEF DeriveActive, ChangeSubvolumes, Put, Snapshot
    <3>2. subvol[GoldenNext] \in Subvolume
      BY <1>7, SMTT(20) DEF DeriveActive
    <3>3. Writable(subvol[GoldenNext]) # Absent
      BY <3>2, WritablePresent
    <3> QED BY <1>7, <3>1, <3>3, SMTT(20) DEF DeriveActive, ChangeSubvolumes
  <2>3. (/\ TypeOK /\ Control /\ FrozenControl /\ JournalOfStep /\ QuietClean
         /\ ResetControl /\ Placed /\ BaselinePristine /\ PendingOwned
         /\ FrozenHasBaseline /\ SwitchRootIsFresh /\ FrozenQuiescent
         /\ RemoteOnlyForThawed)'
    BY <1>7, SMTT(20) DEF DeriveActive, ChangeSubvolumes, Put, Snapshot, Writable
  <2> QED BY <2>1, <2>2, <2>3
<1>8. CASE Prepared
  BY <1>8, SMTT(20) DEF Prepared, WritePhase
<1>9. CASE GoldenOut
  <2>1. Candidate'
    BY <1>9, SMTT(20) DEF GoldenOut, ChangeSubvolumes, MoveOut, Rename
  <2>2. Pair'
    BY <1>9, SMTT(20) DEF GoldenOut, ChangeSubvolumes, MoveOut, Rename
  <2>3. (/\ TypeOK /\ Control /\ FrozenControl /\ JournalOfStep /\ QuietClean
         /\ ResetControl /\ Placed /\ BaselinePristine /\ PendingOwned
         /\ FrozenHasBaseline /\ SwitchRootIsFresh /\ FrozenQuiescent
         /\ RemoteOnlyForThawed)'
    BY <1>9, SMTT(20) DEF GoldenOut, ChangeSubvolumes, MoveOut, Rename
  <2> QED BY <2>1, <2>2, <2>3
<1>10. CASE GoldenIn
  <2>1. Candidate'
    BY <1>10, SMTT(20) DEF GoldenIn, ChangeSubvolumes, MoveIn, Rename
  <2>2. Pair'
    BY <1>10, SMTT(20) DEF GoldenIn, ChangeSubvolumes, MoveIn, Rename
  <2>3. (/\ TypeOK /\ Control /\ FrozenControl /\ JournalOfStep /\ QuietClean
         /\ ResetControl /\ Placed /\ BaselinePristine /\ PendingOwned
         /\ FrozenHasBaseline /\ SwitchRootIsFresh /\ FrozenQuiescent
         /\ RemoteOnlyForThawed)'
    BY <1>10, SMTT(20) DEF GoldenIn, ChangeSubvolumes, MoveIn, Rename
  <2> QED BY <2>1, <2>2, <2>3
<1>11. CASE GoldenCommitted
  BY <1>11, SMTT(20) DEF GoldenCommitted, WritePhase
<1>12. CASE ActiveOut
  <2>1. Candidate'
    BY <1>12, SMTT(20) DEF ActiveOut, ChangeSubvolumes, MoveOut, Rename
  <2>2. Pair'
    BY <1>12, SMTT(20) DEF ActiveOut, ChangeSubvolumes, MoveOut, Rename
  <2>3. (/\ TypeOK /\ Control /\ FrozenControl /\ JournalOfStep /\ QuietClean
         /\ ResetControl /\ Placed /\ BaselinePristine /\ PendingOwned
         /\ FrozenHasBaseline /\ SwitchRootIsFresh /\ FrozenQuiescent
         /\ RemoteOnlyForThawed)'
    BY <1>12, SMTT(20) DEF ActiveOut, ChangeSubvolumes, MoveOut, Rename
  <2> QED BY <2>1, <2>2, <2>3
<1>13. CASE ActiveIn
  <2>1. Candidate'
    BY <1>13, SMTT(20) DEF ActiveIn, ChangeSubvolumes, MoveIn, Rename
  <2>2. Pair'
    BY <1>13, SMTT(20) DEF ActiveIn, ChangeSubvolumes, MoveIn, Rename
  <2>3. (/\ TypeOK /\ Control /\ FrozenControl /\ JournalOfStep /\ QuietClean
         /\ ResetControl /\ Placed /\ BaselinePristine /\ PendingOwned
         /\ FrozenHasBaseline /\ SwitchRootIsFresh /\ FrozenQuiescent
         /\ RemoteOnlyForThawed)'
    BY <1>13, SMTT(20) DEF ActiveIn, ChangeSubvolumes, MoveIn, Rename
  <2> QED BY <2>1, <2>2, <2>3
<1>14. CASE ActiveCommitted
  BY <1>14, SMTT(20) DEF ActiveCommitted, WritePhase
<1>15. CASE ScheduleFrozen
  BY <1>15, SMTT(20) DEF ScheduleFrozen, SetBootMode
<1>16. CASE BootCommitted
  BY <1>16, SMTT(20) DEF BootCommitted, WritePhase
<1>17. CASE Finish
  BY <1>17, SMTT(20) DEF Finish
<1> HIDE DEF IInv
<1> QED BY <1>1, <1>2, <1>3, <1>4, <1>5, <1>6, <1>7, <1>8, <1>9, <1>10, <1>11, <1>12,
   <1>13, <1>14, <1>15, <1>16, <1>17 DEF Freeze

\* So does the initramfs reset, its failures and the switch to its root.
LEMMA ResetKeepsIInv ==
  ASSUME IInv, ResetStep \/ ResetAgain \/ ResetFails \/ ResetAborts
  PROVE  IInv'
<1>1. CASE ProbeAgain
  BY <1>1, SMTT(20) DEF ProbeAgain, AtReset, ResetGoTo
<1>2. CASE ProbeFirst
  BY <1>2, SMTT(20) DEF ProbeFirst, AtReset, ResetGoTo
<1>3. CASE Reconcile
  BY <1>3, SMTT(20) DEF Reconcile, AtReset, ResetGoTo, ReconcileStep, RestorePredecessor,
     Put, Delete, Rename, DeleteFirst
<1>4. CASE ReconcileDone
  BY <1>4, SMTT(20) DEF ReconcileDone, AtReset, ResetGoTo
<1>5. CASE Validate
  BY <1>5, SMTT(20) DEF Validate, AtReset, ResetGoTo
<1>6. CASE Clear
  BY <1>6, SMTT(20) DEF Clear, AtReset, ResetGoTo
<1>7. CASE Derive
  BY <1>7, SMTT(20) DEF Derive, AtReset, ResetGoTo, Put, Snapshot, Writable
<1>8. CASE Drop
  BY <1>8, SMTT(20) DEF Drop, AtReset, ResetGoTo, Put, Delete
<1>9. CASE Swap
  <2>1. ResetControl'
    BY <1>9, SMTT(20) DEF Swap, AtReset, ResetGoTo, Rename
  <2>2. (/\ TypeOK /\ Control /\ FrozenControl /\ JournalOfStep /\ QuietClean
         /\ Candidate /\ Placed /\ Pair /\ BaselinePristine /\ PendingOwned
         /\ FrozenHasBaseline /\ SwitchRootIsFresh /\ FrozenQuiescent
         /\ RemoteOnlyForThawed)'
    BY <1>9, SMTT(20) DEF Swap, AtReset, ResetGoTo, Rename
  <2> QED BY <2>1, <2>2
<1>10. CASE Prove
  BY <1>10, SMTT(20) DEF Prove, AtReset, ResetGoTo
<1>11. CASE MountSysroot
  BY <1>11, SMTT(20) DEF MountSysroot, AtReset, ResetGoTo
<1>12. CASE SwitchRoot
  <2>1. TypeOK'
    <3>1. sysroot' \in BOOLEAN
      BY <1>12, Zenon DEF SwitchRoot
    <3> QED BY <1>12, <3>1, SMTT(20) DEF SwitchRoot, AtReset, Put
  <2>2. FrozenQuiescent'
    <3>1. subvol'[Active] = [base |-> subvol[Active].base, whole |-> subvol[Active].whole,
                             used |-> TRUE, ro |-> subvol[Active].ro]
      BY <1>12, SMTT(20) DEF SwitchRoot, Put
    <3>2. \A n \in Names \ {Active} : subvol'[n] = subvol[n]
      BY <1>12, SMTT(20) DEF SwitchRoot, Put
    <3>3. subvol[Active] \in Subvolume /\ subvol[Active] = Writable(subvol[Golden])
      BY <1>12, SMTT(20) DEF SwitchRoot, AtReset
    <3>4. subvol'[Active].base = subvol[Golden].base
      BY <3>1, <3>3, SMTT(20) DEF Writable
    <3>5. subvol[Active].ro \in BOOLEAN
      BY <3>3, Zenon DEF Subvolume
    <3>6. Present(Active)'
      BY <3>1, <3>3, <3>5, RewrittenPresent, Zenon
    <3> QED BY <1>12, <3>2, <3>4, <3>6, SMTT(20) DEF SwitchRoot, AtReset
  <2>3. (/\ Control /\ FrozenControl /\ JournalOfStep /\ QuietClean /\ Candidate
         /\ ResetControl /\ Placed /\ Pair /\ BaselinePristine /\ PendingOwned
         /\ FrozenHasBaseline /\ SwitchRootIsFresh /\ RemoteOnlyForThawed)'
    BY <1>12, SMTT(20) DEF SwitchRoot, AtReset, ResetGoTo, Put
  <2> QED BY <2>1, <2>2, <2>3
<1>13. CASE ResetAgain
  BY <1>13, SMTT(20) DEF ResetAgain, AtReset, ResetGoTo
<1>14. CASE ResetFails
  BY <1>14, SMTT(20) DEF ResetFails, SetBootMode, FailingSteps
<1>15. CASE ResetAborts
  BY <1>15, SMTT(20) DEF ResetAborts, FailingSteps, AbortingSteps
<1> HIDE DEF IInv
<1> QED BY <1>1, <1>2, <1>3, <1>4, <1>5, <1>6, <1>7, <1>8, <1>9, <1>10, <1>11, <1>12,
   <1>13, <1>14, <1>15 DEF ResetStep

HIDE DEF IInv

\* Every step of the machine keeps the invariant.
LEMMA StepKeepsIInv ==
  ASSUME IInv, [Next]_vars
  PROVE  IInv'
<1>1. CASE Next
  BY <1>1, BootKeepsIInv, RecoveryKeepsIInv, CommandKeepsIInv, FreezeKeepsIInv,
     ResetKeepsIInv DEF Next, EngineStep
<1>2. CASE UNCHANGED vars
  BY <1>2, SMTT(20) DEF IInv, vars
<1> QED BY <1>1, <1>2

HIDE DEF TypeOK, Control, FrozenControl, JournalOfStep, QuietClean, Quiet,
         Candidate, ResetControl, Placed, Pair, BaselinePristine, PendingOwned,
         FrozenHasBaseline, SwitchRootIsFresh, FrozenQuiescent, RemoteOnlyForThawed

-----------------------------------------------------------------------------
(***************************************************************************)
(* Every reachable state of the machine satisfies the invariant.           *)
(***************************************************************************)
THEOREM Invariant == Spec => []IInv
<1>1. Init => IInv
  BY InitIInv
<1>2. IInv /\ [Next]_vars => IInv'
  BY StepKeepsIInv
<1> QED BY <1>1, <1>2, PTL DEF Spec

(***************************************************************************)
(* The whole state stays within its types.                                 *)
(***************************************************************************)
THEOREM TypeCorrect == Spec => []TypeOK
<1>1. IInv => TypeOK
  BY DEF IInv
<1> QED BY <1>1, Invariant, PTL

(***************************************************************************)
(* Whatever crashes, fails or is rolled back, @golden and its pending      *)
(* predecessor are sealed, complete captures that no session wrote to      *)
(* (freeze, _rollback_pair and recover_baseline_transaction).              *)
(***************************************************************************)
THEOREM BaselineStaysPristine == Spec => []BaselinePristine
<1>1. IInv => BaselinePristine
  BY DEF IInv
<1> QED BY <1>1, Invariant, PTL

(***************************************************************************)
(* The candidate, the predecessors and the capture parent never outlive    *)
(* transaction.json: neither the engine's journal.finish nor the           *)
(* initramfs's mv closes a journal that still owns one.                    *)
(***************************************************************************)
THEOREM PendingAlwaysOwned == Spec => []PendingOwned
<1>1. IInv => PendingOwned
  BY DEF IInv
<1> QED BY <1>1, Invariant, PTL

(***************************************************************************)
(* While cachy_mode is frozen, @golden or its predecessor exists, at every *)
(* instant of a freeze and of its rollback.                                *)
(***************************************************************************)
THEOREM BaselineNeverLost == Spec => []FrozenHasBaseline
<1>1. IInv => FrozenHasBaseline
  BY DEF IInv
<1> QED BY <1>1, Invariant, PTL

\* GRUB that found no kernel changes nothing: it found FROZEN scheduled and no @golden.
KernelMissing == power = "no-kernel" => grubenv.mode = "frozen" /\ ~Present(Golden)

\* A command works on a system that is up, and leaves it up.
LEMMA CommandsRun ==
  ASSUME (\E c \in Commands : Start(c)) \/ CommandFails \/ EngineStep
  PROVE  power' = power /\ (Running \/ pc # "idle")
<1>1. CASE (\E c \in Commands : Start(c)) \/ CommandFails \/ Status \/ Thaw
  BY <1>1 DEF Start, CommandFails, Status, Thaw
<1>2. CASE Recovery
  BY <1>2 DEF Recovery, RecoverNothing, RecoverRefuses, RecoverRollsBack,
     RecoverRollsForward, RecoverRefusesPair, Rollback, RollbackDone, RestoreMode, Cleanup,
     CleanupDone, Close
<1>3. CASE BootSuccess
  BY <1>3 DEF BootSuccess, VerifyFrozenBoot, VerifyThawedBoot, DiscardRuntime,
     RuntimeDiscarded, ForgetProof, RevokeRemote
<1>4. CASE Freeze
  BY <1>4 DEF Freeze, Begin, SnapshotCandidate, CaptureSources, Flatten, DropCapture, Seal,
     DeriveActive, Prepared, GoldenOut, GoldenIn, GoldenCommitted, ActiveOut, ActiveIn,
     ActiveCommitted, ScheduleFrozen, BootCommitted, Finish, WritePhase, ChangeSubvolumes
<1> QED BY <1>1, <1>2, <1>3, <1>4 DEF EngineStep

LEMMA KernelStaysMissing ==
  ASSUME IInv, KernelMissing, [Next]_vars
  PROVE  KernelMissing'
<1>1. CASE Boot \/ PowerOff \/ Edit
  BY <1>1, SMTT(20) DEF Boot, BootThawed, BootFrozen, BootFindsNoKernel, PowerOff, Edit,
     KernelMissing
<1>2. CASE (\E c \in Commands : Start(c)) \/ CommandFails \/ EngineStep
  <2>1. power' = power /\ power # "no-kernel"
    BY <1>2, CommandsRun, SMTT(20) DEF IInv, Control
  <2> QED BY <2>1 DEF KernelMissing
<1>3. CASE ResetStep \/ ResetAgain \/ ResetFails \/ ResetAborts
  <2>1. power' # "no-kernel"
    BY <1>3 DEF ResetStep, ResetAgain, ResetFails, ResetAborts, AtReset,
       ResetGoTo, ProbeAgain, ProbeFirst, Reconcile, ReconcileDone, Validate, Clear, Derive,
       Drop, Swap, Prove, MountSysroot, SwitchRoot
  <2> QED BY <2>1 DEF KernelMissing
<1>4. CASE UNCHANGED vars
  BY <1>4 DEF vars, KernelMissing
<1> QED BY <1>1, <1>2, <1>3, <1>4 DEF Next

(***************************************************************************)
(* What the claim FrozenBootFindsKernel gets wrong is no more than this:   *)
(* where GRUB finds no kernel in @golden, a freeze or its rollback was cut *)
(* short between two names, its journal is open and the sealed predecessor *)
(* waits under @golden.pending for the recovery that puts it back.         *)
(***************************************************************************)
THEOREM KernelWaitsInPredecessor ==
  Spec => [](power = "no-kernel" =>
               /\ journal # "none" /\ ~Present(Golden)
               /\ Present(GoldenPending) /\ ValidGolden(GoldenPending)
               /\ subvol[GoldenPending].whole /\ ~subvol[GoldenPending].used)
<1> DEFINE Waits == power = "no-kernel" =>
             /\ journal # "none" /\ ~Present(Golden)
             /\ Present(GoldenPending) /\ ValidGolden(GoldenPending)
             /\ subvol[GoldenPending].whole /\ ~subvol[GoldenPending].used
<1>1. Init => KernelMissing
  BY DEF Init, KernelMissing
<1>2. IInv /\ KernelMissing /\ [Next]_vars => KernelMissing'
  BY KernelStaysMissing
<1>3. IInv /\ KernelMissing => Waits
  <2> SUFFICES ASSUME IInv, KernelMissing, power = "no-kernel" PROVE Waits
    OBVIOUS
  <2>1. ~Present(Golden) /\ grubenv.mode = "frozen"
    BY DEF KernelMissing
  <2>2. Present(GoldenPending)
    BY <2>1, SMTT(20) DEF IInv, FrozenHasBaseline
  <2> QED BY <2>1, <2>2, SMTT(20) DEF IInv, PendingOwned, BaselinePristine, Pristine
<1> HIDE DEF Waits
<1>4. Spec => []Waits
  BY <1>1, <1>2, <1>3, Invariant, PTL DEF Spec
<1> QED BY <1>4 DEF Waits

(***************************************************************************)
(* The root that cachy-freeze-reset leaves for sysroot.mount is a fresh    *)
(* writable copy of @golden, proven by the marker of this boot.            *)
(***************************************************************************)
THEOREM FreshRootHandedOver == Spec => []SwitchRootIsFresh
<1>1. IInv => SwitchRootIsFresh
  BY DEF IInv
<1> QED BY <1>1, Invariant, PTL

(***************************************************************************)
(* A FROZEN session starts and stays on a disk without journal or          *)
(* transaction-scoped subvolume, so no command run in it rolls a baseline  *)
(* back.                                                                   *)
(***************************************************************************)
THEOREM FrozenSessionQuiescent == Spec => []FrozenQuiescent
<1>1. IInv => FrozenQuiescent
  BY DEF IInv
<1> QED BY <1>1, Invariant, PTL

(***************************************************************************)
(* cachy_remote_auth is set only together with a scheduled THAWED boot     *)
(* (_set_boot_mode_locked, schedule_protected_thawed).                     *)
(***************************************************************************)
THEOREM RemoteFlagBounded == Spec => []RemoteOnlyForThawed
<1>1. IInv => RemoteOnlyForThawed
  BY DEF IInv
<1> QED BY <1>1, Invariant, PTL

\* While THAWED boots ask for no password, nothing lies about that no journal owns,
\* and no committed freeze waits for its cleanup.
AuthorizedClean ==
  grubenv.remote =>
    /\ journal # "boot-committed"
    /\ journal = "none" => NonePresent(Transients)

LEMMA StaysAuthorizedClean ==
  ASSUME IInv, AuthorizedClean, [Next]_vars
  PROVE  AuthorizedClean'
<1> USE DEF IInv, TypeOK, RemoteOnlyForThawed, AuthorizedClean
<1>1. CASE Boot \/ PowerOff \/ Edit
  BY <1>1, SMTT(20) DEF Boot, BootThawed, BootFrozen, BootFindsNoKernel, PowerOff, Edit
<1>2. CASE (\E c \in Commands : Start(c)) \/ CommandFails \/ Status
  BY <1>2, SMTT(20) DEF Start, CommandFails, Status
<1>3. CASE Thaw
  BY <1>3, SMTT(20) DEF Thaw, SetBootMode, Control, FrozenQuiescent
<1>4. CASE Recovery
  <2>1. CASE RecoverNothing \/ RecoverRefuses \/ RecoverRollsBack \/ RecoverRollsForward
             \/ RecoverRefusesPair \/ RollbackDone \/ CleanupDone
    BY <2>1, SMTT(20) DEF RecoverNothing, RecoverRefuses, RecoverRollsBack, RecoverRollsForward,
       RecoverRefusesPair, RollbackDone, CleanupDone
  <2>2. CASE Rollback \/ Cleanup
    <3>1. journal # "none" /\ journal' = journal /\ grubenv' = grubenv
      BY <2>2 DEF Rollback, Cleanup, JournalOfStep
    <3> QED BY <3>1
  <2>3. CASE RestoreMode
    BY <2>3 DEF RestoreMode, SetBootMode
  <2>4. CASE Close
    BY <2>4, SMTT(20) DEF Close, QuietClean, Quiet
  <2> QED BY <1>4, <2>1, <2>2, <2>3, <2>4 DEF Recovery
<1>5. CASE BootSuccess
  <2>1. CASE VerifyFrozenBoot \/ VerifyThawedBoot \/ RuntimeDiscarded \/ ForgetProof
    BY <2>1, SMTT(20) DEF VerifyFrozenBoot, VerifyThawedBoot, RuntimeDiscarded, ForgetProof
  <2>2. CASE DiscardRuntime
    BY <2>2, SMTT(20) DEF DiscardRuntime, Runtimes, DeleteFirst, Put, Delete
  <2>3. CASE RevokeRemote
    BY <2>3 DEF RevokeRemote, SetBootMode
  <2> QED BY <1>5, <2>1, <2>2, <2>3 DEF BootSuccess
<1>6. CASE Freeze
  <2>1. CASE ScheduleFrozen
    BY <2>1 DEF ScheduleFrozen, SetBootMode
  <2>2. CASE Finish
    BY <2>2, SMTT(20) DEF Finish, QuietClean, Quiet
  <2>3. CASE BootCommitted
    BY <2>3 DEF BootCommitted, WritePhase, Pair
  <2>4. CASE ~ScheduleFrozen /\ ~Finish /\ ~BootCommitted
    <3>1. journal' \notin {"none", "boot-committed"}
      BY <1>6, <2>4 DEF Freeze, Begin, SnapshotCandidate, CaptureSources, Flatten, DropCapture,
         Seal, DeriveActive, Prepared, GoldenOut, GoldenIn, GoldenCommitted, ActiveOut, ActiveIn,
         ActiveCommitted, WritePhase, ChangeSubvolumes, JournalOfStep
    <3> QED BY <3>1
  <2> QED BY <2>1, <2>2, <2>3, <2>4
<1>7. CASE ResetStep \/ ResetAgain \/ ResetFails \/ ResetAborts
  <2>1. grubenv.mode = "frozen"
    BY <1>7 DEF ResetStep, ResetAgain, ResetFails, ResetAborts, AtReset, ProbeAgain, ProbeFirst,
       Reconcile, ReconcileDone, Validate, Clear, Derive, Drop, Swap, Prove, MountSysroot,
       SwitchRoot, Control
  <2>2. ~grubenv'.remote
    BY <1>7, <2>1, SMTT(20) DEF ResetStep, ResetAgain, ResetFails, ResetAborts, AtReset,
       ResetGoTo, ProbeAgain, ProbeFirst, Reconcile, ReconcileDone, Validate, Clear, Derive,
       Drop, Swap, Prove, MountSysroot, SwitchRoot, SetBootMode
  <2> QED BY <2>2
<1>8. CASE UNCHANGED vars
  BY <1>8 DEF vars
<1> QED BY <1>1, <1>2, <1>3, <1>4, <1>5, <1>6, <1>7, <1>8 DEF Next, EngineStep

(***************************************************************************)
(* _recover_transaction_locked does not keep boot-success from consuming   *)
(* cachy_remote_auth: while a passwordless boot is authorized, no command  *)
(* is refused for unowned transaction subvolumes or for an invalid pair,   *)
(* whatever failed or crashed before.                                      *)
(***************************************************************************)
THEOREM AuthorizedNeverRefused ==
  Spec => [][grubenv.remote => ~(RecoverRefuses \/ RecoverRefusesPair)]_vars
<1>1. Init => AuthorizedClean
  BY DEF Init, AuthorizedClean
<1>2. IInv /\ AuthorizedClean /\ [Next]_vars => AuthorizedClean'
  BY StaysAuthorizedClean
<1>3. AuthorizedClean => (grubenv.remote => ~(RecoverRefuses \/ RecoverRefusesPair))
  BY DEF AuthorizedClean, RecoverRefuses, RecoverRefusesPair
<1> QED BY <1>1, <1>2, <1>3, Invariant, PTL DEF Spec

(***************************************************************************)
(* When freeze reaches journal.finish and reports success, the new pair    *)
(* stands alone on the disk and FROZEN is scheduled.                       *)
(***************************************************************************)
THEOREM FreezeReportsTruth == Spec => []FreezeSucceeds
<1>1. ASSUME IInv, At("finish")
      PROVE  /\ NonePresent(Transients)
             /\ ValidGolden(Golden) /\ Present(Active) /\ grubenv.mode = "frozen"
             /\ subvol[Active] = Writable(subvol[Golden])
  BY <1>1, SMTT(20) DEF IInv, QuietClean, Quiet, Placed, Pair
<1>2. ASSUME IInv, At("finish")
      PROVE  ValidActive(Active) /\ subvol[Active].base = subvol[Golden].base
  BY <1>1, <1>2, SMTT(20) DEF Writable
<1>3. IInv => FreezeSucceeds
  BY <1>1, <1>2, SMTT(20) DEF FreezeSucceeds, IInv, Pair
<1> QED BY <1>3, Invariant, PTL

-----------------------------------------------------------------------------
\* While a FROZEN root is live or mounted, only switch-root touches a subvolume.
LEMMA LiveRootStep ==
  ASSUME IInv, Next, power = "frozen" \/ sysroot
  PROVE  UNCHANGED subvol \/ SwitchRoot
<1>a. pc \in {"idle", "recover", "body"}
  BY SMTT(20) DEF IInv, Control, FrozenControl
<1>b. power = "initrd" => rpc \in {"probe", "ready"} /\ marker = "current"
  BY SMTT(20) DEF IInv, Control, ResetControl
<1>1. CASE Boot \/ PowerOff \/ Edit
  BY <1>1 DEF Boot, BootThawed, BootFrozen, BootFindsNoKernel, PowerOff, Edit
<1>2. CASE (\E c \in Commands : Start(c)) \/ CommandFails \/ Status \/ Thaw
  BY <1>2 DEF Start, CommandFails, Status, Thaw
<1>3. CASE Recovery
  BY <1>a, <1>3 DEF Recovery, RecoverNothing, RecoverRefuses, RecoverRollsBack,
     RecoverRollsForward, RecoverRefusesPair, Rollback, RollbackDone, RestoreMode,
     Cleanup, CleanupDone, Close
<1>4. CASE BootSuccess
  BY <1>a, <1>4 DEF BootSuccess, VerifyFrozenBoot, VerifyThawedBoot, DiscardRuntime,
     RuntimeDiscarded, ForgetProof, RevokeRemote
<1>5. CASE Freeze
  BY <1>a, <1>5 DEF Freeze, Begin, SnapshotCandidate, CaptureSources, Flatten,
     DropCapture, Seal, DeriveActive, Prepared, GoldenOut, GoldenIn, GoldenCommitted,
     ActiveOut, ActiveIn, ActiveCommitted, ScheduleFrozen, BootCommitted, Finish,
     WritePhase
<1>6. CASE ResetStep \/ ResetAgain \/ ResetFails \/ ResetAborts
  BY <1>b, <1>6 DEF ResetStep, ResetAgain, ResetFails, ResetAborts, AtReset,
     ProbeAgain, ProbeFirst, Reconcile, ReconcileDone, Validate, Clear, Derive, Drop,
     Swap, Prove, MountSysroot
<1> QED BY <1>1, <1>2, <1>3, <1>4, <1>5, <1>6 DEF Next, EngineStep

\* That switch-root keeps the version of the root.
LEMMA LiveRootStays ==
  ASSUME IInv, Next, power = "frozen" \/ sysroot
  PROVE  Present(Active)' /\ (subvol[Active].base)' = subvol[Active].base
<1>1. Present(Active)
  BY SMTT(20) DEF IInv, FrozenQuiescent, ResetControl
<1>2. CASE UNCHANGED subvol
  BY <1>1, <1>2
<1>3. CASE SwitchRoot
  <2>1. subvol'[Active].base = subvol[Active].base
    BY <1>3, SMTT(20) DEF SwitchRoot, Put, IInv, TypeOK
  <2>2. IInv' /\ power' = "frozen"
    BY <1>3, StepKeepsIInv DEF SwitchRoot
  <2>3. Present(Active)'
    BY <2>2, SMTT(20) DEF IInv, FrozenQuiescent
  <2> QED BY <2>1, <2>3
<1> QED BY <1>2, <1>3, LiveRootStep

(***************************************************************************)
(* No step of any program takes the root of a running FROZEN session, or   *)
(* the one mounted for switch-root, away.                                  *)
(***************************************************************************)
THEOREM LiveRootNeverTaken == Spec => LiveRootKept
<1>1. IInv /\ [Next]_vars =>
        [power = "frozen" \/ sysroot =>
           Present(Active)' /\ (subvol[Active].base)' = subvol[Active].base]_vars
  BY LiveRootStays
<1> QED BY <1>1, Invariant, PTL DEF Spec, LiveRootKept

-----------------------------------------------------------------------------
USE DEF Contract!abstractVars, Contract!schedule, Contract!power

\* A step that touches nothing of what was promised stutters.
LEMMA Stutter ==
  ASSUME IInv, Next, UNCHANGED <<maintenance, Captured, Baseline, grubenv, power>>
  PROVE  UNCHANGED Contract!abstractVars
<1>1. CASE power = "frozen"
  BY <1>1, LiveRootStays
<1>2. CASE power # "frozen"
  BY <1>2
<1> QED BY <1>1, <1>2

\* GRUB, a power failure and an edit of @ are steps of TwoModes or stutter.
LEMMA BootImplements ==
  ASSUME IInv, Next, Boot \/ PowerOff \/ Edit
  PROVE  [Contract!Next]_(Contract!abstractVars)
<1>0. UNCHANGED <<Captured, Baseline>>
  BY SMTT(20) DEF Boot, BootThawed, BootFrozen, BootFindsNoKernel, PowerOff, Edit, Captured
<1>1. CASE BootThawed
  BY <1>0, <1>1, SMTT(20) DEF BootThawed, Contract!Next, Contract!BootThawed
<1>2. CASE BootFrozen \/ BootFindsNoKernel
  BY <1>0, <1>2, SMTT(20) DEF BootFrozen, BootFindsNoKernel
<1>3. CASE PowerOff
  BY <1>0, <1>3, SMTT(20) DEF PowerOff, Contract!Next, Contract!Stop
<1>4. CASE Edit
  BY <1>0, <1>4, SMTT(20) DEF Edit, Contract!Next, Contract!Edit
<1> QED BY <1>1, <1>2, <1>3, <1>4 DEF Boot

\* There is a baseline while either name holds one, and what was captured is a version.
LEMMA NextBaseline ==
  ASSUME IInv, Next
  PROVE  /\ Present(Golden)' \/ Present(GoldenPending)' <=> Baseline' # Absent
         /\ Baseline' # Absent => Baseline' \in Versions
<1>1. ASSUME NEW s \in Subvolume PROVE s.base \in Versions
  BY Zenon DEF Subvolume
<1>2. \A n \in Names : Present(n)' => subvol'[n].base \in Versions
  BY <1>1, StepKeepsIInv DEF IInv, TypeOK
<1> QED BY <1>2 DEF Baseline

\* A candidate has been captured from some version, whatever its name.
LEMMA CapturedVersion ==
  ASSUME IInv, NEW n \in Names, Present(n)
  PROVE  subvol[n].base # Absent
<1>1. ASSUME NEW s \in Subvolume PROVE s.base \in Versions
  BY Zenon DEF Subvolume
<1> QED BY <1>1 DEF IInv, TypeOK

\* Outside FROZEN, a step that only gives up what was captured is an abandoned publication.
LEMMA Abandoned ==
  ASSUME IInv, Next, power # "frozen", UNCHANGED <<maintenance, Baseline, grubenv, power>>,
         UNCHANGED Captured \/ Captured' = Absent
  PROVE  [Contract!Next]_(Contract!abstractVars)
<1>1. CASE UNCHANGED Captured
  BY <1>1, Stutter
<1>2. CASE Captured' = Absent
  BY <1>2, SMTT(20) DEF Contract!Next, Contract!Abandon
<1> QED BY <1>1, <1>2

\* In THAWED, a step that makes the baseline of what was captured publishes it.
LEMMA Publication ==
  ASSUME IInv, Next, power = "thawed", UNCHANGED <<maintenance, grubenv, power>>,
         Captured # Absent, Baseline' = Captured, Captured' = Absent
  PROVE  [Contract!Next]_(Contract!abstractVars)
BY SMTT(20) DEF Contract!Next, Contract!Publish

(***************************************************************************)
(* Recovery never changes the baseline while it rolls back; when it rolls  *)
(* a committed freeze forward, the cleanup that deletes the predecessor is *)
(* the publication of what the freeze captured.                            *)
(***************************************************************************)
LEMMA RecoveryImplements ==
  ASSUME IInv, Next, Recovery
  PROVE  [Contract!Next]_(Contract!abstractVars)
<1>1. CASE \/ RecoverNothing \/ RecoverRefuses \/ RecoverRollsBack \/ RecoverRollsForward
           \/ RecoverRefusesPair \/ RollbackDone \/ CleanupDone \/ Close
  BY <1>1, Stutter DEF RecoverNothing, RecoverRefuses, RecoverRollsBack,
     RecoverRollsForward, RecoverRefusesPair, RollbackDone, CleanupDone, Close, Captured
<1>2. CASE Rollback
  <2>1. UNCHANGED Baseline
    BY <1>2, SMTT(20) DEF Rollback, RollbackStep, RestorePredecessor, Put, Delete, Rename,
       DeleteFirst, IInv, TypeOK
  <2>2. UNCHANGED Captured \/ Captured' = Absent
    BY <1>2, SMTT(20) DEF Rollback, RollbackStep, RestorePredecessor, Put, Delete, Rename,
       DeleteFirst, IInv, TypeOK, Placed, Captured
  <2>3. power # "frozen"
    BY <1>2, SMTT(20) DEF Rollback, IInv, FrozenControl
  <2> QED BY <1>2, <2>1, <2>2, <2>3, Abandoned DEF Rollback
<1>3. CASE RestoreMode
  <2>1. power = "thawed" /\ power' = power
    BY <1>3, SMTT(20) DEF RestoreMode, IInv, FrozenControl
  <2>2. UNCHANGED <<Baseline, Captured, maintenance>>
    BY <1>3 DEF RestoreMode, Captured
  <2> QED BY <1>3, <2>1, <2>2, SMTT(20) DEF RestoreMode, SetBootMode, Contract!Next,
         Contract!ScheduleThawed
<1>4. CASE Cleanup
  <2>1. power = "thawed"
    BY <1>4, SMTT(20) DEF Cleanup, IInv, FrozenControl
  <2>2. Present(Golden) /\ subvol'[Golden] = subvol[Golden]
    BY <1>4, SMTT(20) DEF Cleanup, CleanupOrder, DeleteFirst, Put, Delete, IInv, TypeOK,
       Placed
  <2>3. CASE Present(GoldenPending) /\ ~Present(GoldenPending)'
    <3>1. ~Present(GoldenNext) /\ ~Present(GoldenNext)'
      BY <1>4, <2>2, <2>3, SMTT(20) DEF Cleanup, CleanupOrder, DeleteFirst, Put, Delete,
         IInv, TypeOK, Placed
    <3>2. Captured = subvol[Golden].base /\ Captured' = Absent
      BY <2>2, <2>3, <3>1 DEF Captured
    <3>3. Baseline' = Captured
      BY <2>2, <2>3, <3>2
    <3>4. Captured # Absent
      BY <2>2, <3>2, CapturedVersion
    <3> QED BY <1>4, <2>1, <3>2, <3>3, <3>4, Publication DEF Cleanup
  <2>4. CASE Present(GoldenPending) <=> Present(GoldenPending)'
    <3>1. UNCHANGED Baseline /\ (UNCHANGED Captured \/ Captured' = Absent)
      BY <1>4, <2>2, <2>4, SMTT(20) DEF Cleanup, CleanupOrder, DeleteFirst, Put, Delete,
         IInv, TypeOK, Captured
    <3> QED BY <1>4, <2>1, <3>1, Abandoned DEF Cleanup
  <2>5. Present(GoldenPending)' => Present(GoldenPending)
    BY <1>4, SMTT(20) DEF Cleanup, CleanupOrder, DeleteFirst, Put, Delete, IInv, TypeOK
  <2> QED BY <2>3, <2>4, <2>5
<1> QED BY <1>1, <1>2, <1>3, <1>4 DEF Recovery

\* thaw schedules THAWED, with or without a password; boot-success takes the authorization
\* back in the THAWED boot only; status changes nothing that was promised.
LEMMA CommandImplements ==
  ASSUME IInv, Next,
         (\E c \in Commands : Start(c)) \/ CommandFails \/ Status \/ Thaw \/ BootSuccess
  PROVE  [Contract!Next]_(Contract!abstractVars)
<1>1. CASE \/ \E c \in Commands : Start(c)
           \/ CommandFails \/ Status \/ VerifyFrozenBoot \/ VerifyThawedBoot
           \/ RuntimeDiscarded \/ ForgetProof
  BY <1>1, Stutter DEF Start, CommandFails, Status, VerifyFrozenBoot, VerifyThawedBoot,
     RuntimeDiscarded, ForgetProof, Captured
<1>2. CASE Thaw
  <2>1. UNCHANGED <<maintenance, Captured, Baseline, Contract!power>>
    BY <1>2 DEF Thaw, Captured
  <2>2. power = "frozen"
    BY <1>2, SMTT(20) DEF Thaw, IInv, Control
  <2>a. grubenv' = [mode |-> "thawed", remote |-> cmd = "thaw-authorized"]
    BY <1>2, Zenon DEF Thaw, SetBootMode
  <2>b. grubenv'.mode = "thawed" /\ grubenv'.remote = (cmd = "thaw-authorized")
    BY <2>a
  <2>3. CASE cmd = "thaw"
    <3>1. grubenv'.remote = FALSE
      BY <2>b, <2>3
    <3> QED BY <2>1, <2>2, <2>b, <3>1, SMTT(20) DEF Contract!Next, Contract!ScheduleThawed
  <2>4. CASE cmd = "thaw-authorized"
    <3>1. grubenv'.remote = TRUE
      BY <2>b, <2>4
    <3> QED BY <2>1, <2>2, <2>b, <3>1, SMTT(20) DEF Contract!Next, Contract!Authorize
  <2> QED BY <1>2, <2>3, <2>4 DEF Thaw
<1>3. CASE DiscardRuntime
  <2>1. UNCHANGED <<Baseline, Captured>>
    BY <1>3, SMTT(20) DEF DiscardRuntime, Runtimes, DeleteFirst, Put, Delete, IInv, TypeOK,
       Captured
  <2> QED BY <1>3, <2>1, Stutter DEF DiscardRuntime
<1>4. CASE RevokeRemote
  <2>1. power = "thawed"
    BY <1>4, SMTT(20) DEF RevokeRemote, IInv, Control
  <2>2. UNCHANGED <<Baseline, Captured>>
    BY <1>4 DEF RevokeRemote, Captured
  <2> QED BY <1>4, <2>1, <2>2, SMTT(20) DEF RevokeRemote, SetBootMode, Contract!Next,
         Contract!Consume
<1> QED BY <1>1, <1>2, <1>3, <1>4 DEF BootSuccess

(***************************************************************************)
(* A freeze captures @ when it takes the snapshot.  It publishes that when *)
(* the candidate takes the name of a first golden, or when its cleanup     *)
(* deletes the predecessor; it schedules FROZEN once there is a baseline.  *)
(* All else stutters.                                                      *)
(***************************************************************************)
LEMMA FreezeImplements ==
  ASSUME IInv, Next, Freeze
  PROVE  [Contract!Next]_(Contract!abstractVars)
<1>0. power = "thawed"
  <2>1. pc \in FreezeSteps \/ cmd = "freeze"
    BY DEF Freeze, Begin, SnapshotCandidate, CaptureSources, Flatten, DropCapture, Seal,
       DeriveActive, Prepared, GoldenOut, GoldenIn, GoldenCommitted, ActiveOut, ActiveIn,
       ActiveCommitted, ScheduleFrozen, BootCommitted, Finish
  <2> QED BY <2>1, SMTT(20) DEF IInv, Control
<1>1. CASE \/ Begin \/ Prepared \/ GoldenCommitted \/ ActiveCommitted \/ BootCommitted
           \/ Finish
  BY <1>1, Stutter DEF Begin, Prepared, GoldenCommitted, ActiveCommitted, BootCommitted,
     Finish, WritePhase, Captured
<1>2. CASE SnapshotCandidate
  <2>1. UNCHANGED Baseline /\ ~Present(GoldenPending)'
    BY <1>2, SMTT(20) DEF SnapshotCandidate, Put, IInv, TypeOK, QuietClean, Quiet
  <2>2. subvol'[GoldenNext].base = maintenance
    <3>1. PICK whole \in BOOLEAN :
            subvol'[GoldenNext] = [base |-> maintenance, whole |-> whole, used |-> FALSE,
                                   ro |-> FALSE]
      <4>1. PICK hasSources \in BOOLEAN :
              Put(GoldenNext, [base |-> maintenance, whole |-> ~hasSources,
                               used |-> FALSE, ro |-> FALSE])
        BY <1>2, Zenon DEF SnapshotCandidate
      <4>2. subvol'[GoldenNext] = [base |-> maintenance, whole |-> ~hasSources,
                                   used |-> FALSE, ro |-> FALSE]
        BY <4>1 DEF Put, IInv, TypeOK
      <4> QED BY <4>2, Zenon
    <3> QED BY <3>1
  <2>3. Present(GoldenNext)'
    <3>1. IInv' /\ pc' \in BuildSteps
      BY <1>2, StepKeepsIInv DEF SnapshotCandidate, ChangeSubvolumes
    <3> QED BY <3>1, SMTT(20) DEF IInv, Candidate
  <2>4. Captured' = maintenance
    BY <2>1, <2>2, <2>3 DEF Captured
  <2> QED BY <1>0, <1>2, <2>1, <2>4, SMTT(20) DEF SnapshotCandidate, ChangeSubvolumes,
         Contract!Next, Contract!Capture
<1>3. CASE Flatten \/ Seal
  <2>1. UNCHANGED Baseline /\ Present(GoldenNext)
    BY <1>3, SMTT(20) DEF Flatten, Seal, Put, IInv, TypeOK, Candidate
  <2>2. /\ subvol'[Golden] = subvol[Golden] /\ subvol'[GoldenPending] = subvol[GoldenPending]
        /\ subvol'[GoldenNext].base = subvol[GoldenNext].base
    BY <1>3, SMTT(20) DEF Flatten, Seal, Put, IInv, TypeOK
  <2>3. Present(GoldenNext)'
    <3>1. IInv' /\ pc' \in BuildSteps \cup SealedSteps
      BY <1>3, StepKeepsIInv DEF Flatten, Seal, ChangeSubvolumes
    <3> QED BY <3>1, SMTT(20) DEF IInv, Candidate
  <2>4. UNCHANGED Captured
    BY <2>1, <2>2, <2>3 DEF Captured
  <2> QED BY <1>3, <2>1, <2>4, Stutter DEF Flatten, Seal, ChangeSubvolumes
<1>4. CASE CaptureSources \/ DropCapture \/ DeriveActive \/ ActiveOut \/ ActiveIn
  <2>1. UNCHANGED <<Baseline, Captured>>
    BY <1>4, SMTT(20) DEF CaptureSources, DropCapture, DeriveActive, ActiveOut, ActiveIn,
       MoveOut, MoveIn, Rename, Snapshot, Put, Delete, IInv, TypeOK, Captured
  <2> QED BY <1>4, <2>1, Stutter DEF CaptureSources, DropCapture, DeriveActive, ActiveOut,
         ActiveIn, ChangeSubvolumes
<1>5. CASE GoldenOut
  <2>1. UNCHANGED <<Baseline, Captured>>
    BY <1>5, SMTT(20) DEF GoldenOut, MoveOut, Rename, IInv, TypeOK, Captured
  <2> QED BY <1>5, <2>1, Stutter DEF GoldenOut, ChangeSubvolumes
<1>6. CASE GoldenIn
  <2>1. /\ Present(GoldenNext) /\ ~Present(GoldenNext)' /\ Present(Golden)'
        /\ subvol'[Golden] = subvol[GoldenNext]
        /\ subvol'[GoldenPending] = subvol[GoldenPending]
    BY <1>6, SMTT(20) DEF GoldenIn, MoveIn, Rename, IInv, TypeOK
  <2>2. Captured = subvol[GoldenNext].base /\ Captured # Absent
    BY <2>1, CapturedVersion DEF Captured, IInv, Placed
  <2>3. CASE Present(GoldenPending)
    <3>1. UNCHANGED <<Baseline, Captured>>
      BY <2>1, <2>2, <2>3 DEF Captured
    <3> QED BY <1>6, <3>1, Stutter DEF GoldenIn, ChangeSubvolumes
  <2>4. CASE ~Present(GoldenPending)
    <3>1. Baseline' = Captured /\ Captured' = Absent
      BY <2>1, <2>2, <2>4 DEF Captured
    <3> QED BY <1>0, <1>6, <2>2, <3>1, Publication DEF GoldenIn, ChangeSubvolumes
  <2> QED BY <2>3, <2>4
<1>7. CASE ScheduleFrozen
  <2>1. Present(Golden)' /\ UNCHANGED <<Baseline, Captured>>
    BY <1>7, SMTT(20) DEF ScheduleFrozen, IInv, Placed, Captured
  <2>2. Baseline # Absent
    BY <2>1, NextBaseline
  <2>3. UNCHANGED <<maintenance, power, subvol>>
    BY <1>7 DEF ScheduleFrozen
  <2>4. grubenv' = [mode |-> "frozen", remote |-> FALSE]
    BY <1>7, Zenon DEF ScheduleFrozen, SetBootMode
  <2>5. grubenv'.mode = "frozen" /\ grubenv'.remote = FALSE
    BY <2>4
  <2> QED BY <1>0, <2>1, <2>2, <2>3, <2>5, SMTT(20) DEF Contract!Next,
         Contract!ScheduleFrozen
<1> QED BY <1>1, <1>2, <1>3, <1>4, <1>5, <1>6, <1>7 DEF Freeze

(***************************************************************************)
(* The initramfs keeps the baseline, whatever it deletes and renames, and  *)
(* at most gives up what a freeze had captured; the session that           *)
(* switch-root starts is the abstract FROZEN boot.                         *)
(***************************************************************************)
LEMMA ResetImplements ==
  ASSUME IInv, Next, ResetStep \/ ResetAgain \/ ResetFails \/ ResetAborts
  PROVE  [Contract!Next]_(Contract!abstractVars)
<1>1. CASE \/ ProbeAgain \/ ProbeFirst \/ ReconcileDone \/ Validate \/ Prove
           \/ MountSysroot \/ ResetAgain
  BY <1>1, Stutter DEF ProbeAgain, ProbeFirst, ReconcileDone, Validate, Prove,
     MountSysroot, ResetAgain, ResetGoTo, Captured
<1>2. CASE Reconcile
  <2>1. UNCHANGED Baseline
    BY <1>2, SMTT(20) DEF Reconcile, ReconcileStep, RestorePredecessor, Put, Delete, Rename,
       DeleteFirst, IInv, TypeOK
  <2>2. UNCHANGED Captured \/ Captured' = Absent
    BY <1>2, SMTT(20) DEF Reconcile, ReconcileStep, RestorePredecessor, Put, Delete, Rename,
       DeleteFirst, IInv, TypeOK, Placed, Captured
  <2> QED BY <1>2, <2>1, <2>2, Abandoned DEF Reconcile, AtReset
<1>3. CASE Clear \/ Derive \/ Drop \/ Swap
  <2>1. UNCHANGED <<Baseline, Captured>>
    BY <1>3, SMTT(20) DEF Clear, Derive, Drop, Swap, Snapshot, Put, Delete, Rename, IInv,
       TypeOK, Captured
  <2> QED BY <1>3, <2>1, Stutter DEF Clear, Derive, Drop, Swap, ResetGoTo
<1>4. CASE ResetFails
  <2>1. UNCHANGED <<Baseline, Captured>> /\ grubenv.mode = "frozen"
    BY <1>4, SMTT(20) DEF ResetFails, Captured, IInv, Control
  <2> QED BY <1>4, <2>1, SMTT(20) DEF ResetFails, SetBootMode, Contract!Next,
         Contract!ScheduleThawed
<1>5. CASE ResetAborts
  <2>1. UNCHANGED <<Baseline, Captured>>
    BY <1>5 DEF ResetAborts, Captured
  <2> QED BY <1>5, <2>1, SMTT(20) DEF ResetAborts
<1>6. CASE SwitchRoot
  <2>1. grubenv.mode = "frozen" /\ subvol'[Golden] = subvol[Golden] /\ UNCHANGED Baseline
    BY <1>6, SMTT(20) DEF SwitchRoot, AtReset, Put, IInv, TypeOK, Control
  <2>2. /\ Present(Golden)' /\ NonePresent(Transients)'
        /\ (subvol[Active].base)' = (subvol[Golden].base)'
    BY <1>6, StepKeepsIInv, SMTT(20) DEF SwitchRoot, IInv, FrozenQuiescent
  <2>3. Captured' = Absent
    BY <2>2, SMTT(20) DEF Captured
  <2>4. Baseline # Absent /\ (subvol[Active].base)' = Baseline
    <3>1. ~Present(GoldenPending)'
      BY <2>2, SMTT(20)
    <3> QED BY <2>1, <2>2, <3>1, NextBaseline
  <2> QED BY <1>6, <2>1, <2>3, <2>4, SMTT(20) DEF SwitchRoot, AtReset, Contract!Next,
         Contract!BootFrozen
<1> QED BY <1>1, <1>2, <1>3, <1>4, <1>5, <1>6 DEF ResetStep

\* Every step of the machine is one of TwoModes or a stutter.
LEMMA StepImplements == IInv /\ [Next]_vars => [Contract!Next]_(Contract!abstractVars)
<1>1. ASSUME IInv, Next PROVE [Contract!Next]_(Contract!abstractVars)
  BY <1>1, BootImplements, RecoveryImplements, CommandImplements, FreezeImplements,
     ResetImplements DEF Next, EngineStep
<1>2. ASSUME UNCHANGED vars PROVE UNCHANGED Contract!abstractVars
  BY <1>2 DEF vars, Captured
<1> QED BY <1>1, <1>2

(***************************************************************************)
(* The engine, the initramfs reset and GRUB together implement TwoModes,   *)
(* wherever they crash or fail: a baseline is the version of @ that its    *)
(* freeze captured, and it takes the place of its predecessor at once.     *)
(***************************************************************************)
THEOREM MachineImplementsContract == Spec => ContractKept
<1>1. Init => Contract!Init
  BY SMTT(20) DEF Init, Contract!Init, Captured
<1> QED BY <1>1, StepImplements, Invariant, PTL DEF Spec, ContractKept, Contract!Spec

(***************************************************************************)
(* What the administrator reads out of the contract.  Nothing that happens *)
(* while FROZEN changes @ or the baseline, a baseline is only replaced by  *)
(* what a freeze captured of @, and once there is one there always is one. *)
(***************************************************************************)
THEOREM FrozenChangesNothing ==
  Spec => /\ [][power = "frozen" => UNCHANGED <<maintenance, Baseline>>]_vars
          /\ [][Baseline' # Baseline => power = "thawed" /\ Baseline' = Captured]_vars
          /\ [][Baseline # Absent => Baseline' # Absent]_vars
<1> DEFINE Kept == /\ power = "frozen" => UNCHANGED <<maintenance, Baseline>>
                   /\ Baseline' # Baseline => power = "thawed" /\ Baseline' = Captured
                   /\ Baseline # Absent => Baseline' # Absent
<1>1. ASSUME [Contract!Next]_(Contract!abstractVars) PROVE Kept
  BY <1>1, SMTT(20) DEF Contract!Next, Contract!Edit, Contract!Capture, Contract!Publish, Contract!Abandon,
     Contract!ScheduleFrozen, Contract!ScheduleThawed, Contract!Authorize, Contract!Consume,
     Contract!BootThawed, Contract!BootFrozen, Contract!Stop
<1>2. IInv /\ [Next]_vars => Kept
  BY <1>1, StepImplements
<1>3. IInv /\ [Next]_vars =>
        /\ [power = "frozen" => UNCHANGED <<maintenance, Baseline>>]_vars
        /\ [Baseline' # Baseline => power = "thawed" /\ Baseline' = Captured]_vars
        /\ [Baseline # Absent => Baseline' # Absent]_vars
  BY <1>2
<1> QED BY <1>3, Invariant, PTL DEF Spec
=============================================================================
