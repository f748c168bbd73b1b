---------------------------- MODULE FreezeState ----------------------------
(***************************************************************************)
(* The state that the privileged engine, the initramfs reset and GRUB      *)
(* share: the managed Btrfs subvolumes, the transaction journal, the GRUB  *)
(* environment block, the reset proof, and which program is running.       *)
(*                                                                         *)
(* Every durable operation is one atomic step and a crash may fall between *)
(* any two of them.  Btrfs commits in order and the code syncs or fsyncs   *)
(* before each phase change, so losing an unsynced suffix of operations is *)
(* the same as crashing earlier.                                           *)
(***************************************************************************)
EXTENDS Naturals

CONSTANTS
  Versions,   \* the contents @ can have, as far as anything tells them apart
  Absent      \* the value of a subvolume name that does not exist

VARIABLES
  subvol,       \* what each managed name holds, or Absent
  maintenance,  \* the version of @, the persistent THAWED root
  journal,      \* the phase in transaction.json, or "none" without the file
  grubenv,      \* cachy_mode and cachy_remote_auth in @/boot/grub/grubenv
  marker,       \* active-reset-boot-id, relative to the running boot
  power,        \* what the machine is doing
  cmd,          \* the engine command that holds the lock
  pc,           \* the next step of that command
  rpc,          \* the next step of the initramfs reset
  sysroot       \* whether the initramfs has @active mounted at /sysroot

disk == <<subvol, maintenance, journal, grubenv, marker>>
boot == <<power, rpc, sysroot>>
vars == <<subvol, maintenance, journal, grubenv, marker, power, cmd, pc, rpc, sysroot>>

Golden        == "@golden"
GoldenNext    == "@golden.next"
GoldenPending == "@golden.pending"
Active        == "@active"
ActiveNext    == "@active.next"
ActivePending == "@active.pending"
Capture       == "@cachy-capture"

Names == {Golden, GoldenNext, GoldenPending, Active, ActiveNext, ActivePending, Capture}

\* The transaction-scoped names, none of which may outlive its transaction.
Transients == {GoldenNext, ActiveNext, GoldenPending, ActivePending, Capture}

(***************************************************************************)
(* A subvolume holds the system as of one version of @.  whole is FALSE    *)
(* while the captured sources have not all been copied in; used says that  *)
(* a FROZEN session ran on it; ro is the Btrfs property.  The code sees    *)
(* only ro: the required boot files it validates are there from the first  *)
(* snapshot on, whatever whole and used say.                               *)
(***************************************************************************)
Subvolume == [base: Versions, whole: BOOLEAN, used: BOOLEAN, ro: BOOLEAN]

ASSUME AbsentAssumption == Absent \notin Subvolume /\ Absent \notin Versions

Phases ==
  {"preparing", "prepared", "golden-committed", "active-committed", "boot-committed"}
Modes == {"frozen", "thawed"}
Commands == {"status", "freeze", "thaw", "thaw-authorized", "boot-success"}
Powers == {"off", "no-kernel", "initrd", "emergency", "frozen", "thawed"}

\* The boot mode the running system verifies in /proc/cmdline and its root.
Running == power \in Modes

Present(n) == subvol[n] # Absent

\* What _validate_golden and the initramfs validate_golden look at.
ValidGolden(n) == Present(n) /\ subvol[n].ro

\* What _validate_active and the initramfs validate_active look at.
ValidActive(n) == Present(n) /\ ~subvol[n].ro

Put(n, content) == subvol' = [subvol EXCEPT ![n] = content]

Delete(n) == Put(n, Absent)

\* A btrfs snapshot without -r is writable whatever its source is.
Writable(s) == [base |-> s.base, whole |-> s.whole, used |-> s.used, ro |-> FALSE]

Snapshot(from, to) == Put(to, Writable(subvol[from]))

Rename(from, to) == subvol' = [subvol EXCEPT ![to] = subvol[from], ![from] = Absent]

\* Bug: an assignment list that leaves cachy_remote_auth out unless it is set.
SetBootModeOnly(mode, authorized) ==
  grubenv' = [mode |-> mode, remote |-> grubenv.remote \/ authorized]

SetBootMode(mode, authorized) == grubenv' = [mode |-> mode, remote |-> authorized]

(***************************************************************************)
(* One step of "if the pending predecessor exists, delete what replaced it *)
(* and rename the predecessor back".  The code's position in it is read    *)
(* off the disk: the predecessor exists until the rename.                  *)
(***************************************************************************)
RestorePredecessor(current, pending) ==
  /\ Present(pending)
  /\ \/ Present(current) /\ Delete(current)
     \/ ~Present(current) /\ Rename(pending, current)

\* The first of a sequence of names that exists is deleted next.
DeleteFirst(order) ==
  \E i \in DOMAIN order :
    /\ Present(order[i])
    /\ \A j \in DOMAIN order : j < i => ~Present(order[j])
    /\ Delete(order[i])

Elements(order) == {order[i] : i \in DOMAIN order}

NonePresent(names) == \A n \in names : ~Present(n)

(***************************************************************************)
(* The baseline a recovery would hold on to: the predecessor while it is   *)
(* pending, otherwise @golden.                                             *)
(***************************************************************************)
Baseline ==
  IF Present(GoldenPending) THEN subvol[GoldenPending].base
  ELSE IF Present(Golden) THEN subvol[Golden].base ELSE Absent

(***************************************************************************)
(* What a freeze captured and may still publish: the candidate, also when  *)
(* it has the name @golden already and the predecessor is not yet gone.    *)
(***************************************************************************)
Captured ==
  IF Present(GoldenPending) /\ Present(Golden) THEN subvol[Golden].base
  ELSE IF Present(GoldenNext) THEN subvol[GoldenNext].base ELSE Absent
=============================================================================
