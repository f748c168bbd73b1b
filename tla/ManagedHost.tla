---------------------------- MODULE ManagedHost ----------------------------
(***************************************************************************)
(* One host and everybody who runs commands on it: the manager in the      *)
(* session, the maintenance playbook from outside, and the boot-health     *)
(* service once in each boot.  Power can fail at any time.                 *)
(***************************************************************************)
EXTENDS Manager, FleetMaintenance

VARIABLES
  outdated,   \* whether the schedule changed since the status in the window was read
  overtaken,  \* the same of the status that is on its way to the window
  rebooted    \* whether the host went down between the play's check and its freeze

vars == <<hostVars, windowVars, play, outdated, overtaken, rebooted>>

service == "boot-health"
ASSUME ServiceIsClient == service \in Clients

Init ==
  /\ HostInit /\ ManagerInit /\ FleetInit
  /\ outdated = FALSE /\ overtaken = FALSE /\ rebooted = FALSE

\* cachy-freeze-boot-health.service: once in each boot, and its result is nobody's.
HealthStep ==
  \/ Invoke(service, "boot-success")
  \/ CommandStep(service)

-----------------------------------------------------------------------------
(***************************************************************************)
(* What the properties remember: whether the schedule changed since the    *)
(* status that the window shows was read, and since the one on its way to  *)
(* it was; and whether the host went down between the play's check that it *)
(* is THAWED and the report of its freeze.                                 *)
(***************************************************************************)
UnderUpdate == {"update", "updating", "checkMode", "freeze"}
AfterUpdate == {"rebootFrozen", "awaitFrozen", "verify", "verifyStatus", "done"}
Changed == scheduled' # scheduled

Observe(down) ==
  /\ overtaken' = (pending' = "status" /\ ~Status(me) /\ (overtaken \/ Changed))
  /\ outdated' = (verified' /\ ((IF StatusFinished THEN overtaken ELSE outdated) \/ Changed))
  /\ rebooted' = /\ play' \in UnderUpdate \cup AfterUpdate
                  /\ (rebooted \/ (down /\ play \in UnderUpdate \cup {"confirm"}))

ManagerActs ==
  /\ ManagerStep
  /\ UNCHANGED play
  /\ Observe(FALSE)

PlayActs ==
  /\ FleetStep
  /\ UNCHANGED windowVars
  /\ Observe(FALSE)

HealthActs ==
  /\ HealthStep
  /\ UNCHANGED <<windowVars, play>>
  /\ Observe(FALSE)

PlayReboots ==
  /\ RebootTask /\ WindowGone
  /\ Observe(TRUE)

\* A power failure, or the reboot that the user of the manager confirmed.
GoesDown ==
  /\ HostDown /\ WindowGone /\ ConnectionLost
  /\ Observe(TRUE)

Boots ==
  /\ HostBootsThawed \/ HostBootsFrozen
  /\ UNCHANGED <<windowVars, play>>
  /\ Observe(FALSE)

BootFails ==
  /\ HostBootFails
  /\ UNCHANGED <<windowVars, play>>
  /\ Observe(FALSE)

Next ==
  \/ ManagerActs \/ PlayActs \/ HealthActs
  \/ PlayReboots \/ GoesDown \/ Boots \/ BootFails

Spec == Init /\ [][Next]_vars

-----------------------------------------------------------------------------
TypeOK ==
  /\ HostTypeOK /\ WindowTypeOK /\ FleetTypeOK
  /\ outdated \in BOOLEAN /\ overtaken \in BOOLEAN
  /\ rebooted \in BOOLEAN

(***************************************************************************)
(* FREEZE can only be clicked while the machine runs THAWED, THAW while it *)
(* runs FROZEN: the cached status that the window starts with may be that  *)
(* of an earlier boot, or of a command that was overtaken.                 *)
(***************************************************************************)
ButtonsFitTheMode == \A a \in {"freeze", "thaw"} : open /\ Enabled(a) =>
  running = (IF a = "freeze" THEN "thawed" ELSE "frozen")

(***************************************************************************)
(* A verified window is right about the reboot that is due, or else the    *)
(* schedule changed behind it: another caller, or a command of its own     *)
(* that committed and was then reported as failed.                         *)
(***************************************************************************)
VerifiedShowsTruth == verified /\ ~outdated => (rebootDue <=> scheduled # running)

(***************************************************************************)
(* No play gets past thaw.yml while the passwordless boot is authorized.   *)
(***************************************************************************)
ConsumedBeforeUpdate == play \in Block \cup {"rescue", "rescued", "done"} => ~remote

(***************************************************************************)
(* Only a THAWED system, or a plain thaw, takes the authorization away:    *)
(* the FROZEN session that gave it and its boot-health service do not.     *)
(***************************************************************************)
AuthorizationLasts == [][remote /\ ~remote' => running = "thawed" \/ Thaw(me)]_vars

(***************************************************************************)
(* A play that ends well leaves a FROZEN baseline with the update in it,   *)
(* unless the host went down between its check and its freeze: the tasks   *)
(* before then ran in another boot than the one that was checked.          *)
(***************************************************************************)
EndsUpdated == play = "done" /\ ~rebooted => baseline = Updated

(***************************************************************************)
(* Whoever runs commands on it, what the host does is what TwoModes        *)
(* allows: what is published is what @ was when that freeze captured it,   *)
(* also when an update begins before the freeze has committed; FROZEN is   *)
(* only scheduled from THAWED, a passwordless boot authorized from FROZEN  *)
(* only, and a FROZEN session never sees its baseline change.              *)
(***************************************************************************)
Contract == INSTANCE TwoModes WITH
  captured <- candidate,
  authorized <- remote,
  running <- IF Up THEN running ELSE "down",
  session <- IF running = "frozen" THEN baseline ELSE None

StepsOfContract == [][Contract!Next]_(Contract!abstractVars)
=============================================================================
