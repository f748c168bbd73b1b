---------------------------- MODULE CachyMachine ----------------------------
(***************************************************************************)
(* The whole machine: GRUB reads the environment block and boots THAWED or *)
(* FROZEN, a FROZEN boot runs the initramfs reset, a running system runs   *)
(* engine commands and the administrator changes @ while THAWED.  Power    *)
(* can fail, or the machine reboot, between any two steps.                 *)
(***************************************************************************)
EXTENDS FreezeEngine, InitramfsReset

\* As the installer leaves it: THAWED, no baseline, nothing pending.
Init ==
  /\ subvol = [n \in Names |-> Absent]
  /\ maintenance \in Versions
  /\ journal = "none"
  /\ grubenv = [mode |-> "thawed", remote |-> FALSE]
  /\ marker = "none"
  /\ power = "thawed"
  /\ cmd = "none" /\ pc = "idle"
  /\ rpc = "idle" /\ sysroot = FALSE

-----------------------------------------------------------------------------
(***************************************************************************)
(* GRUB.  A THAWED entry loads the kernel of @ and asks for authentication *)
(* unless cachy_remote_auth is set, so it boots either way.  Any other     *)
(* mode is FROZEN: its kernel and initramfs come from @golden.             *)
(***************************************************************************)
BootThawed ==
  /\ power = "off" /\ grubenv.mode = "thawed"
  /\ power' = "thawed"
  /\ UNCHANGED <<disk, cmd, pc, rpc, sysroot>>

BootFrozen ==
  /\ power = "off" /\ grubenv.mode = "frozen" /\ Present(Golden)
  /\ power' = "initrd" /\ rpc' = "probe"
  /\ UNCHANGED <<disk, cmd, pc, sysroot>>

BootFindsNoKernel ==
  /\ power = "off" /\ grubenv.mode = "frozen" /\ ~Present(Golden)
  /\ power' = "no-kernel"
  /\ UNCHANGED <<disk, cmd, pc, rpc, sysroot>>

\* A crash, a power loss or a reboot: memory is gone and the next boot has a new id.
PowerOff ==
  /\ power # "off"
  /\ power' = "off"
  /\ cmd' = "none" /\ pc' = "idle" /\ rpc' = "idle" /\ sysroot' = FALSE
  /\ marker' = IF marker = "none" THEN "none" ELSE "stale"
  /\ UNCHANGED <<subvol, maintenance, journal, grubenv>>

\* The administrator installs, updates or configures something on @.
Edit ==
  /\ power = "thawed"
  /\ \E v \in Versions \ {maintenance} : maintenance' = v
  /\ UNCHANGED <<subvol, journal, grubenv, marker, power, cmd, pc, rpc, sysroot>>

Boot == BootThawed \/ BootFrozen \/ BootFindsNoKernel

Next ==
  \/ Boot
  \/ PowerOff
  \/ Edit
  \/ \E c \in Commands : Start(c)
  \/ CommandFails
  \/ EngineStep
  \/ ResetStep
  \/ ResetAgain
  \/ ResetFails
  \/ ResetAborts

Spec == Init /\ [][Next]_vars

-----------------------------------------------------------------------------
(***************************************************************************)
(* Properties.                                                             *)
(***************************************************************************)
TypeOK ==
  /\ subvol \in [Names -> Subvolume \cup {Absent}]
  /\ maintenance \in Versions
  /\ journal \in Phases \cup {"none"}
  /\ grubenv \in [mode: Modes, remote: BOOLEAN]
  /\ marker \in {"none", "stale", "current"}
  /\ power \in Powers
  /\ cmd \in Commands \cup {"none"}
  /\ pc \in EngineSteps \cup {"idle"}
  /\ rpc \in ResetSteps \cup {"idle"}
  /\ sysroot \in BOOLEAN

(***************************************************************************)
(* Whatever crashes or fails, @golden and its pending predecessor are      *)
(* read-only captures that were completed and on which no session ever     *)
(* ran: the validation sees only the ro property, so nothing else stops a  *)
(* half-flattened candidate from being booted.                             *)
(***************************************************************************)
Pristine(n) == Present(n) => subvol[n].ro /\ subvol[n].whole /\ ~subvol[n].used

BaselinePristine == Pristine(Golden) /\ Pristine(GoldenPending)

(***************************************************************************)
(* The predecessor, the candidate and the capture parent never outlive the *)
(* journal that owns them, so a recovery that can restore the predecessor  *)
(* always runs.                                                            *)
(***************************************************************************)
PendingOwned ==
  ~NonePresent({GoldenPending, GoldenNext, ActivePending, Capture}) => journal # "none"

(***************************************************************************)
(* A machine that is scheduled to boot FROZEN has a baseline to boot, or   *)
(* to recover, at every instant of a second freeze.                        *)
(***************************************************************************)
FrozenHasBaseline == grubenv.mode = "frozen" => Baseline # Absent

(***************************************************************************)
(* The root that the initramfs hands to switch-root is a fresh copy of the *)
(* golden baseline, with no trace of an earlier session, and proven to be  *)
(* of this boot.                                                           *)
(***************************************************************************)
FreshRoot ==
  /\ Present(Golden) /\ Present(Active)
  /\ subvol[Active] = Writable(subvol[Golden])
  /\ marker = "current"

SwitchRootIsFresh == power = "initrd" /\ rpc = "ready" => FreshRoot

(***************************************************************************)
(* A FROZEN session runs on a quiescent disk: no journal and no            *)
(* transaction-scoped subvolume, so that no engine command it starts rolls *)
(* anything back, and its root descends from the golden it sits beside.    *)
(***************************************************************************)
FrozenQuiescent ==
  power = "frozen" =>
    /\ journal = "none" /\ NonePresent(Transients)
    /\ Present(Golden) /\ Present(Active)
    /\ subvol[Active].base = subvol[Golden].base
    /\ marker = "current"

(***************************************************************************)
(* The passwordless THAWED boot is never authorized while FROZEN is        *)
(* scheduled: no FROZEN schedule, whichever program wrote it, carries the  *)
(* flag along.  Of a schedule that stays THAWED it says nothing.           *)
(***************************************************************************)
RemoteOnlyForThawed == grubenv.remote => grubenv.mode = "thawed"

(***************************************************************************)
(* A freeze that reports success leaves the new baseline alone on the disk *)
(* and FROZEN scheduled.                                                   *)
(***************************************************************************)
FreezeSucceeds ==
  At("finish") =>
    /\ NonePresent(Transients)
    /\ ValidGolden(Golden) /\ ValidActive(Active)
    /\ subvol[Active].base = subvol[Golden].base
    /\ grubenv = [mode |-> "frozen", remote |-> FALSE]

(***************************************************************************)
(* No step deletes, renames or replaces the root of a running FROZEN       *)
(* session, or the root already mounted for switch-root.                   *)
(***************************************************************************)
LiveRootKept ==
  [][power = "frozen" \/ sysroot =>
       Present(Active)' /\ (subvol[Active].base)' = subvol[Active].base]_vars

(***************************************************************************)
(* The machine keeps the promise of TwoModes.  The baseline it promises is *)
(* the pending predecessor while there is one: deleting that predecessor,  *)
(* and for a first freeze the rename of the candidate, is the instant of   *)
(* publication, wherever a crash falls and whoever recovers.  What is      *)
(* published is the version of @ that this freeze took its snapshot of.    *)
(***************************************************************************)
Contract == INSTANCE TwoModes WITH
  None <- Absent,
  work <- maintenance,
  captured <- Captured,
  baseline <- Baseline,
  scheduled <- grubenv.mode,
  authorized <- grubenv.remote,
  running <- IF Running THEN power ELSE "down",
  session <- IF power = "frozen" THEN subvol[Active].base ELSE Absent

ContractKept == Contract!Spec
=============================================================================
