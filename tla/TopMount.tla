------------------------------ MODULE TopMount ------------------------------
(***************************************************************************)
(* ProcessLock and mounted_top: the processes that share the top-level     *)
(* Btrfs mount.  Engine commands take the lock first, without waiting;     *)
(* preflight does not take it.  A process that finds the mount point free  *)
(* mounts it and unmounts it when it leaves; one that finds it mounted     *)
(* uses what is there and leaves it alone.                                 *)
(*                                                                         *)
(* Every locked command is taken to be a freeze, reduced to the journal    *)
(* and to whether any transaction-scoped subvolume exists: what it does to *)
(* them one by one is the subject of FreezeEngine.                         *)
(***************************************************************************)
EXTENDS Naturals

CONSTANTS
  Lockers,     \* the processes that run engine commands under the lock
  Preflights   \* the processes that run preflight

ASSUME ProcessAssumption == Lockers \cap Preflights = {}

Processes == Lockers \cup Preflights

VARIABLES
  step,     \* where each process is
  holders,  \* the processes that hold the lock
  mounts,   \* how many times TOP is mounted
  mine,     \* the processes that have to unmount what they mounted
  pending,  \* whether a transaction-scoped subvolume exists
  journal,  \* whether transaction.json exists
  shared    \* whether a preflight ever came in

vars == <<step, holders, mounts, mine, pending, journal, shared>>

Bodies == {"recover", "publish", "cleanup", "finish", "preflight"}
Steps == {"idle", "probe", "mount", "leave", "unlock"} \cup Bodies

Init ==
  /\ step = [p \in Processes |-> "idle"]
  /\ holders = {} /\ mounts = 0 /\ mine = {}
  /\ pending = FALSE /\ journal = FALSE /\ shared = FALSE

GoTo(p, s) == step' = [step EXCEPT ![p] = s]

Mounted == mounts > 0

-----------------------------------------------------------------------------
\* Bug: the lock is shared.
LockShared(p) ==
  /\ p \in Lockers /\ step[p] = "idle"
  /\ holders' = holders \cup {p}
  /\ GoTo(p, "probe")
  /\ UNCHANGED <<mounts, mine, pending, journal, shared>>

\* ProcessLock.__enter__: LOCK_NB, so a command that finds it taken has failed.
Lock(p) ==
  /\ p \in Lockers /\ step[p] = "idle" /\ holders = {}
  /\ holders' = {p}
  /\ GoTo(p, "probe")
  /\ UNCHANGED <<mounts, mine, pending, journal, shared>>

Preflight(p) ==
  /\ p \in Preflights /\ step[p] = "idle"
  /\ shared' = TRUE
  /\ GoTo(p, "probe")
  /\ UNCHANGED <<holders, mounts, mine, pending, journal>>

Body(p) == IF p \in Lockers THEN "recover" ELSE "preflight"

\* mountpoint -q, then, when it said no, a mount that does not look again.
Probe(p) ==
  /\ step[p] = "probe"
  /\ GoTo(p, IF Mounted THEN Body(p) ELSE "mount")
  /\ UNCHANGED <<holders, mounts, mine, pending, journal, shared>>

Mount(p) ==
  /\ step[p] = "mount"
  /\ mounts' = mounts + 1
  /\ mine' = mine \cup {p}
  /\ GoTo(p, Body(p))
  /\ UNCHANGED <<holders, pending, journal, shared>>

\* Bug: umount whether or not this command mounted.
LeaveAlways(p) ==
  /\ step[p] = "leave"
  /\ mounts' = mounts - 1
  /\ mine' = mine \ {p}
  /\ GoTo(p, "unlock")
  /\ UNCHANGED <<holders, pending, journal, shared>>

(***************************************************************************)
(* umount, check=False: whatever makes it fail, another command or anybody *)
(* else on the mount, the command goes on and leaves TOP mounted.          *)
(***************************************************************************)
Leave(p) ==
  /\ step[p] = "leave"
  /\ \/ p \in mine /\ mounts' \in {mounts, IF Mounted THEN mounts - 1 ELSE 0}
     \/ p \notin mine /\ UNCHANGED mounts
  /\ mine' = mine \ {p}
  /\ GoTo(p, "unlock")
  /\ UNCHANGED <<holders, pending, journal, shared>>

Unlock(p) ==
  /\ step[p] = "unlock"
  /\ holders' = holders \ {p}
  /\ GoTo(p, "idle")
  /\ UNCHANGED <<mounts, mine, pending, journal, shared>>

-----------------------------------------------------------------------------
(***************************************************************************)
(* The commands' bodies.  A command on a subvolume that is not there       *)
(* raises, but _subvolume_exists only says no: without the mount, cleanup  *)
(* finds nothing to delete.                                                *)
(***************************************************************************)
Raise(p) ==
  /\ step[p] \in Bodies
  /\ GoTo(p, "leave")
  /\ UNCHANGED <<holders, mounts, mine, pending, journal, shared>>

\* _recover_transaction_locked, then journal.begin: neither is silent about TOP.
Recover(p) ==
  /\ step[p] = "recover" /\ Mounted
  /\ \/ journal /\ pending' = FALSE
     \/ ~journal /\ ~pending /\ UNCHANGED pending
  /\ journal' = TRUE
  /\ GoTo(p, "publish")
  /\ UNCHANGED <<holders, mounts, mine, shared>>

Publish(p) ==
  /\ step[p] = "publish" /\ Mounted
  /\ pending' = TRUE
  /\ GoTo(p, "cleanup")
  /\ UNCHANGED <<holders, mounts, mine, journal, shared>>

\* Bug: the journal is closed although the cleanup raised.
CleanupAnyway(p) ==
  /\ step[p] = "cleanup"
  /\ GoTo(p, "finish")
  /\ UNCHANGED <<holders, mounts, mine, pending, journal, shared>>

Cleanup(p) ==
  /\ step[p] = "cleanup"
  /\ pending' = (pending /\ ~Mounted)
  /\ GoTo(p, "finish")
  /\ UNCHANGED <<holders, mounts, mine, journal, shared>>

\* The journal lives in STATE_DIR, which has a mount of its own.
Finish(p) ==
  /\ step[p] = "finish"
  /\ journal' = FALSE
  /\ GoTo(p, "leave")
  /\ UNCHANGED <<holders, mounts, mine, pending, shared>>

\* The maintenance root is there and its layout is supported.
PreflightPasses(p) ==
  /\ step[p] = "preflight" /\ Mounted
  /\ GoTo(p, "leave")
  /\ UNCHANGED <<holders, mounts, mine, pending, journal, shared>>

\* The kernel drops the lock of a process that dies, not its mount.
Kill(p) ==
  /\ step[p] # "idle"
  /\ holders' = holders \ {p}
  /\ mine' = mine \ {p}
  /\ GoTo(p, "idle")
  /\ UNCHANGED <<mounts, pending, journal, shared>>

Next ==
  \E p \in Processes :
    \/ Lock(p) \/ Preflight(p) \/ Probe(p) \/ Mount(p) \/ Leave(p) \/ Unlock(p)
    \/ Raise(p) \/ Recover(p) \/ Publish(p) \/ Cleanup(p) \/ Finish(p)
    \/ PreflightPasses(p) \/ Kill(p)

Spec == Init /\ [][Next]_vars

-----------------------------------------------------------------------------
(***************************************************************************)
(* Types: no umount without a mount.                                       *)
(***************************************************************************)
TypeOK ==
  /\ step \in [Processes -> Steps]
  /\ holders \subseteq Lockers
  /\ mounts \in Nat
  /\ mine \subseteq Processes
  /\ pending \in BOOLEAN /\ journal \in BOOLEAN
  /\ shared \in BOOLEAN

(***************************************************************************)
(* A process that mounted TOP finds it mounted until it leaves, whoever    *)
(* else mounts it over and unmounts it: only a process that borrowed       *)
(* another one's mount can lose it.                                        *)
(***************************************************************************)
OwnMountHolds == \A p \in mine : Mounted

(***************************************************************************)
(* The lock alone keeps the top-level mount: as long as no preflight comes *)
(* in, no command works on a mount point that another one has emptied.     *)
(***************************************************************************)
BodyMounted == ~shared => \A p \in Lockers : step[p] \in Bodies => Mounted

(***************************************************************************)
(* docs/architecture.md: the transaction-scoped names "must not remain     *)
(* after a successful operation".  Success closes the journal; as long as  *)
(* no preflight comes in, it never closes over what it should delete.      *)
(***************************************************************************)
NothingUnowned == ~shared => (pending => journal)
=============================================================================
