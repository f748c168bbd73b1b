--------------------------- MODULE CrashRecovery ---------------------------
(***************************************************************************)
(* The machine when nothing fails but the power: does every interrupted    *)
(* transaction come to an end?  The boot-health service runs boot-success  *)
(* once in each boot; when another command holds the lock, it fails and is *)
(* not run again.                                                          *)
(***************************************************************************)
EXTENDS CachyMachine

CONSTANT MaxCrashes   \* how often the machine is powered off or rebooted

ASSUME MaxCrashesAssumption == MaxCrashes \in Nat

VARIABLES
  crashes,  \* power failures and reboots so far
  health    \* whether boot-health is due in this boot, was served, or neither

crashVars == <<vars, crashes, health>>

CrashInit == Init /\ crashes = 0 /\ health = "due"

BootAgain ==
  /\ Boot
  /\ health' = IF power' = "thawed" THEN "due" ELSE "none"
  /\ UNCHANGED crashes

ResetOnward ==
  /\ ResetStep
  /\ health' = IF power' = "frozen" THEN "due" ELSE "none"
  /\ UNCHANGED crashes

Crash ==
  /\ crashes < MaxCrashes
  /\ PowerOff
  /\ crashes' = crashes + 1 /\ health' = "none"

\* cachy-freeze-boot-health.service: a oneshot that finds the lock free or fails.
BootHealthStarts ==
  /\ health = "due" /\ Start("boot-success")
  /\ health' = "served"
  /\ UNCHANGED crashes

BootHealthFindsLock ==
  /\ health = "due" /\ Running /\ pc # "idle"
  /\ health' = "none"
  /\ UNCHANGED <<vars, crashes>>

BootHealth == BootHealthStarts \/ BootHealthFindsLock

Administrator ==
  /\ Edit \/ (\E c \in Commands : Start(c))
  /\ UNCHANGED <<crashes, health>>

EngineOnward == EngineStep /\ UNCHANGED <<crashes, health>>

CrashNext ==
  BootAgain \/ ResetOnward \/ Crash \/ BootHealth \/ Administrator \/ EngineOnward

(***************************************************************************)
(* systemd starts the reset unit and the boot-health service of every      *)
(* boot, the kernel keeps scheduling them and the engine, and somebody     *)
(* switches the machine back on.  RemainAfterExit runs the reset once.     *)
(***************************************************************************)
CrashSpec ==
  /\ CrashInit /\ [][CrashNext]_crashVars
  /\ WF_crashVars(BootAgain) /\ WF_crashVars(ResetOnward)
  /\ WF_crashVars(BootHealth) /\ WF_crashVars(EngineOnward)

(***************************************************************************)
(* However the crashes fall, a transaction that was begun is finished or   *)
(* rolled back and its journal closed, unless GRUB is left without the     *)
(* kernel of @golden.                                                      *)
(***************************************************************************)
TransactionEnds == journal # "none" ~> (journal = "none" \/ power = "no-kernel")

(***************************************************************************)
(* A machine that is switched on reaches THAWED or a FROZEN session, with  *)
(* the same exception.                                                     *)
(***************************************************************************)
MachineComesUp == power = "off" ~> (Running \/ power = "no-kernel")

(***************************************************************************)
(* Every crash alone leaves a disk the engine accepts: it never meets an   *)
(* unowned transaction object or an invalid committed pair.                *)
(***************************************************************************)
NeverRefused ==
  At("recover") =>
    /\ journal = "none" => NonePresent(Transients)
    /\ journal = "boot-committed" => ValidGolden(Golden) /\ ValidActive(Active)

(***************************************************************************)
(* The README of the repository: boot verification "immediately consumes   *)
(* the flag [...] so the exception is one-time only".  So it does in each  *)
(* THAWED boot whose boot-health service got the lock and whose            *)
(* boot-success came to its end, whatever crashed in the boots before.     *)
(* Nothing is said of the boots where it did not: power that fails before  *)
(* the last step, or a lock that is taken, leaves the authorization to the *)
(* next THAWED boot.                                                       *)
(***************************************************************************)
AuthorizationConsumed ==
  power = "thawed" /\ health = "served" /\ cmd # "boot-success" => ~grubenv.remote
=============================================================================
