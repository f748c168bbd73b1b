--------------------------- MODULE TopMountProofs ---------------------------
(***************************************************************************)
(* What the lock guarantees about the top-level mount, for any number of   *)
(* commands, as long as only commands that take it use the mount.          *)
(***************************************************************************)
EXTENDS TopMount, FiniteSetTheorems, TLAPS

\* A command that is under way holds the lock, alone.
LockHeld == \A p \in Processes : step[p] # "idle" => holders = {p}

\* What a command mounted is what it has to unmount.
MineInside == \A p \in mine : step[p] \in Bodies \cup {"leave"}

\* A command that passed its recovery has a journal; it closes it on a clean disk.
JournalInside ==
  \A p \in Processes :
    /\ step[p] \in {"publish", "cleanup", "finish"} => journal
    /\ step[p] = "finish" => ~pending

\* At most one mount exists: whoever is about to mount has found none.
SingleMount ==
  /\ mounts <= 1
  /\ \A p \in Processes : step[p] = "mount" => mounts = 0

\* What holds until a preflight comes in.
OnlyLockers ==
  /\ \A p \in Processes : step[p] # "idle" => p \in Lockers
  /\ \A p \in Lockers : step[p] \in Bodies => Mounted
  /\ pending => journal
  /\ LockHeld /\ MineInside /\ JournalInside /\ SingleMount

\* The inductive invariant.
LockInv == TypeOK /\ (~shared => OnlyLockers)

USE DEF TypeOK, LockHeld, MineInside, JournalInside, SingleMount, OnlyLockers,
        Processes, Bodies, Steps, Mounted, GoTo

\* It holds before the first command.
LEMMA InitLockInv == ASSUME Init PROVE LockInv
<1>1. /\ pending \in BOOLEAN /\ journal \in BOOLEAN
      /\ shared \in BOOLEAN
  BY Zenon DEF Init
<1> QED BY <1>1, SMTT(20) DEF Init, LockInv

\* Every step of a command under ProcessLock keeps it.
LEMMA StepLockInv ==
  ASSUME LockInv, [Next]_vars
  PROVE  LockInv'
<1> USE DEF LockInv
<1>1. ASSUME NEW p \in Processes, Lock(p) PROVE LockInv'
  BY <1>1, SMTT(20) DEF Lock
<1>2. ASSUME NEW p \in Processes, Preflight(p) PROVE LockInv'
  BY <1>2, SMTT(20) DEF Preflight
<1>3. ASSUME NEW p \in Processes, Probe(p) PROVE LockInv'
  BY <1>3, SMTT(20) DEF Probe, Body
<1>4. ASSUME NEW p \in Processes, Mount(p) PROVE LockInv'
  BY <1>4, SMTT(20) DEF Mount, Body
<1>5. ASSUME NEW p \in Processes, Leave(p) PROVE LockInv'
  <2>1. mounts' \in Nat /\ mounts' <= mounts
    BY <1>5 DEF Leave
  <2> QED BY <1>5, <2>1, SMTT(20) DEF Leave
<1>6. ASSUME NEW p \in Processes, Unlock(p) PROVE LockInv'
  BY <1>6, SMTT(20) DEF Unlock
<1>7. ASSUME NEW p \in Processes, Raise(p) \/ PreflightPasses(p) PROVE LockInv'
  BY <1>7, SMTT(20) DEF Raise, PreflightPasses
<1>8. ASSUME NEW p \in Processes, Recover(p) PROVE LockInv'
  <2>1. pending' \in BOOLEAN /\ journal' \in BOOLEAN
    BY <1>8, Zenon DEF Recover, LockInv
  <2> QED BY <1>8, <2>1, SMTT(20) DEF Recover
<1>9. ASSUME NEW p \in Processes, Publish(p) PROVE LockInv'
  BY <1>9, SMTT(20) DEF Publish
<1>10. ASSUME NEW p \in Processes, Cleanup(p) PROVE LockInv'
  <2>1. pending' \in BOOLEAN /\ journal' \in BOOLEAN
    BY <1>10, Zenon DEF Cleanup, LockInv
  <2>2. CASE shared
    BY <1>10, <2>1, <2>2, SMTT(20) DEF Cleanup
  <2>3. CASE ~shared
    <3>1. Mounted
      BY <1>10, <2>3 DEF Cleanup
    <3>2. ~pending' /\ step' = [step EXCEPT ![p] = "finish"]
      BY <1>10, <3>1, Zenon DEF Cleanup
    <3> QED BY <1>10, <2>1, <2>3, <3>2, SMTT(20) DEF Cleanup
  <2> QED BY <2>2, <2>3
<1>11. ASSUME NEW p \in Processes, Finish(p) PROVE LockInv'
  <2>1. pending' \in BOOLEAN /\ journal' \in BOOLEAN
    BY <1>11, Zenon DEF Finish, LockInv
  <2> QED BY <1>11, <2>1, SMTT(20) DEF Finish
<1>12. ASSUME NEW p \in Processes, Kill(p) PROVE LockInv'
  BY <1>12, SMTT(20) DEF Kill
<1>13. CASE UNCHANGED vars
  BY <1>13 DEF vars
<1> HIDE DEF LockInv
<1> QED BY <1>1, <1>2, <1>3, <1>4, <1>5, <1>6, <1>7, <1>8, <1>9, <1>10, <1>11, <1>12,
          <1>13 DEF Next

(***************************************************************************)
(* As long as no preflight comes in, no command ever works on an unmounted *)
(* TOP, however commands fail, return or are killed.                       *)
(***************************************************************************)
THEOREM LockKeepsTop == Spec => []BodyMounted
<1>1. Init => LockInv
  BY InitLockInv
<1>2. LockInv /\ [Next]_vars => LockInv'
  BY StepLockInv
<1>3. LockInv => BodyMounted
  BY DEF LockInv, BodyMounted
<1> QED BY <1>1, <1>2, <1>3, PTL DEF Spec

(***************************************************************************)
(* With no preflight about, transaction-scoped subvolumes never outlive    *)
(* the journal that owns them.                                             *)
(***************************************************************************)
THEOREM LockKeepsPendingOwned == Spec => []NothingUnowned
<1>1. Init => LockInv
  BY InitLockInv
<1>2. LockInv /\ [Next]_vars => LockInv'
  BY StepLockInv
<1>3. LockInv => NothingUnowned
  BY DEF LockInv, NothingUnowned
<1> QED BY <1>1, <1>2, <1>3, PTL DEF Spec

(***************************************************************************)
(* A TOP that a failed umount or a killed command left mounted is borrowed *)
(* by the commands that follow: with no preflight about, it is never       *)
(* mounted over.                                                           *)
(***************************************************************************)
THEOREM LockStacksNoMount == Spec => [](~shared => mounts <= 1)
<1>1. Init => LockInv
  BY InitLockInv
<1>2. LockInv /\ [Next]_vars => LockInv'
  BY StepLockInv
<1>3. LockInv => (~shared => mounts <= 1)
  BY DEF LockInv
<1> QED BY <1>1, <1>2, <1>3, PTL DEF Spec

(***************************************************************************)
(* The types, for any number of commands and preflights.                   *)
(***************************************************************************)
THEOREM TypeCorrect == Spec => []TypeOK
<1>1. Init => LockInv
  BY InitLockInv
<1>2. LockInv /\ [Next]_vars => LockInv'
  BY StepLockInv
<1>3. LockInv => TypeOK
  BY DEF LockInv
<1> QED BY <1>1, <1>2, <1>3, PTL DEF Spec

-----------------------------------------------------------------------------
(***************************************************************************)
(* Preflights included, TOP is mounted at least once for each process that *)
(* has to unmount it: a process unmounts only what it mounted itself.      *)
(***************************************************************************)
MountForEach ==
  /\ IsFiniteSet(mine) /\ mounts >= Cardinality(mine)
  /\ \A p \in mine : step[p] \in Bodies \cup {"leave"}

\* It is inductive beside the types.
LEMMA StepMountForEach ==
  ASSUME TypeOK, MountForEach, [Next]_vars
  PROVE  MountForEach'
<1> USE DEF MountForEach
<1>1. Cardinality(mine) \in Nat
  BY FS_CardinalityType
<1>2. ASSUME NEW p \in Processes, Lock(p) \/ Preflight(p) \/ Probe(p) \/ Unlock(p)
      PROVE  MountForEach'
  BY <1>2, SMTT(20) DEF Lock, Preflight, Probe, Unlock, Body
<1>3. ASSUME NEW p \in Processes, Mount(p) PROVE MountForEach'
  <2>1. p \notin mine /\ mine' = mine \cup {p} /\ mounts' = mounts + 1
    BY <1>3 DEF Mount
  <2>2. IsFiniteSet(mine') /\ Cardinality(mine') = Cardinality(mine) + 1
    BY <2>1, FS_AddElement
  <2>3. \A q \in mine' : step'[q] \in Bodies \cup {"leave"}
    BY <1>3, SMTT(20) DEF Mount, Body
  <2> QED BY <1>1, <2>1, <2>2, <2>3
<1>4. ASSUME NEW p \in Processes, Leave(p) PROVE MountForEach'
  <2>1. mine' = mine \ {p} /\ \A q \in mine' : step'[q] \in Bodies \cup {"leave"}
    BY <1>4, SMTT(20) DEF Leave
  <2>2. CASE p \in mine
    <3>1. IsFiniteSet(mine') /\ Cardinality(mine') = Cardinality(mine) - 1
      BY <2>1, <2>2, FS_RemoveElement
    <3>2. Cardinality(mine) # 0
      BY <2>2, FS_EmptySet
    <3>3. mounts' \in Nat /\ mounts' >= mounts - 1
      BY <1>1, <1>4, <2>2, <3>2 DEF Leave
    <3> QED BY <1>1, <2>1, <3>1, <3>3
  <2>3. CASE p \notin mine
    <3>1. mine' = mine /\ mounts' = mounts
      BY <1>4, <2>1, <2>3 DEF Leave
    <3> QED BY <2>1, <3>1
  <2> QED BY <2>2, <2>3
<1>5. ASSUME NEW p \in Processes,
             \/ Raise(p) \/ Recover(p) \/ Publish(p) \/ Cleanup(p) \/ Finish(p)
             \/ PreflightPasses(p)
      PROVE  MountForEach'
  BY <1>5, SMTT(20) DEF Raise, Recover, Publish, Cleanup, Finish, PreflightPasses
<1>6. ASSUME NEW p \in Processes, Kill(p) PROVE MountForEach'
  <2>1. mine' = mine \ {p} /\ mounts' = mounts
    BY <1>6 DEF Kill
  <2>2. IsFiniteSet(mine') /\ Cardinality(mine') <= Cardinality(mine)
    BY <2>1, FS_Subset
  <2>3. \A q \in mine' : step'[q] \in Bodies \cup {"leave"}
    BY <1>6, SMTT(20) DEF Kill
  <2>4. Cardinality(mine') \in Nat
    BY <2>2, FS_CardinalityType
  <2> QED BY <1>1, <2>1, <2>2, <2>3, <2>4
<1>7. CASE UNCHANGED vars
  BY <1>7 DEF vars
<1> HIDE DEF MountForEach
<1> QED BY <1>2, <1>3, <1>4, <1>5, <1>6, <1>7, Zenon DEF Next

(***************************************************************************)
(* With any number of preflights about, a process that mounted TOP finds   *)
(* it mounted until it leaves.                                             *)
(***************************************************************************)
THEOREM OwnMountKept == Spec => []OwnMountHolds
<1>1. Init => LockInv /\ MountForEach
  <2>1. Init => mine = {} /\ mounts = 0
    BY DEF Init
  <2>2. IsFiniteSet({}) /\ Cardinality({}) = 0
    BY FS_EmptySet
  <2> QED BY <2>1, <2>2, InitLockInv DEF MountForEach
<1>2. LockInv /\ MountForEach /\ [Next]_vars => (LockInv /\ MountForEach)'
  BY StepLockInv, StepMountForEach DEF LockInv
<1>3. LockInv /\ MountForEach => OwnMountHolds
  <2> SUFFICES ASSUME LockInv, MountForEach, NEW p \in mine PROVE Mounted
    BY DEF OwnMountHolds
  <2>1. IsFiniteSet(mine) /\ Cardinality(mine) \in Nat /\ Cardinality(mine) # 0
    BY FS_CardinalityType, FS_EmptySet DEF MountForEach
  <2> QED BY <2>1 DEF MountForEach, LockInv
<1> QED BY <1>1, <1>2, <1>3, PTL DEF Spec
=============================================================================
