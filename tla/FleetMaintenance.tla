-------------------------- MODULE FleetMaintenance --------------------------
(***************************************************************************)
(* The maintenance playbook on one host: thaw.yml outside of any rescue,   *)
(* then update, freeze.yml and verify.yml inside a block whose rescue      *)
(* writes the marker.  Tasks connect one by one, so nothing keeps the host *)
(* from changing in between; a host that cannot be reached ends the play   *)
(* without a rescue.                                                       *)
(***************************************************************************)
EXTENDS CommandLine

CONSTANTS
  Outdated,  \* @ before an update, in the middle of one, or after one that failed
  Updated    \* @ after an update that succeeded

controller == "playbook"
ASSUME PlaybookAssumption == controller \in Clients /\ {Outdated, Updated} \subseteq Versions

VARIABLE play   \* the task the play is at

\* The tasks that run a command, and the command.
CommandOf == [
  readMode     |-> "status",            \* thaw.yml: get_status
  thaw         |-> "thaw --authorized",
  consume      |-> "boot-success",      \* thaw.yml, after the reboot
  confirm      |-> "status",            \* thaw.yml: get_status again
  checkMode    |-> "status",            \* freeze.yml: get_status
  freeze       |-> "freeze",
  verify       |-> "boot-success",      \* verify.yml
  verifyStatus |-> "status"]
CommandTasks == DOMAIN CommandOf

\* The block that the rescue belongs to.
Block == {"update", "updating", "checkMode", "freeze", "rebootFrozen", "awaitFrozen",
          "verify", "verifyStatus"}
Ended == {"idle", "failed", "rescued", "done"}
Tasks == CommandTasks \cup Block \cup Ended \cup {"rebootThawed", "awaitThawed", "rescue"}

FleetInit == play = "idle"

Task(t) == play' = t
TaskFails == Task(IF play \in Block THEN "rescue" ELSE "failed")

StartPlay ==
  /\ play \in Ended
  /\ Task("readMode")
  /\ UNCHANGED hostVars

Ask ==
  /\ play \in CommandTasks /\ At(controller, "none")
  /\ Invoke(controller, CommandOf[play])
  /\ UNCHANGED play

-----------------------------------------------------------------------------
\* A command task that exits 0, and the asserts on its output.
Told == printed[controller]

\* Bug: thaw.yml does not look at the authorization again.
AfterConfirmUnchecked ==
  IF running = "thawed" THEN Task("update") ELSE TaskFails

AfterConfirm ==
  IF running = "thawed" /\ ~Told.remote THEN Task("update") ELSE TaskFails

\* Four tasks `when` the host was FROZEN.
AfterReadMode == Task(IF running = "frozen" THEN "thaw" ELSE "confirm")

AfterCheckMode == IF running = "thawed" THEN Task("freeze") ELSE TaskFails

AfterVerifyStatus ==
  IF running = "frozen" /\ Told.scheduled = "frozen" THEN Task("done") ELSE TaskFails

Answered ==
  /\ play \in CommandTasks /\ At(controller, "ok")
  /\ Reaped(controller)
  /\ \/ play = "readMode" /\ AfterReadMode
     \/ play = "thaw" /\ Task("rebootThawed")
     \/ play = "consume" /\ Task("confirm")
     \/ play = "confirm" /\ AfterConfirm
     \/ play = "checkMode" /\ AfterCheckMode
     \/ play = "freeze" /\ Task("rebootFrozen")
     \/ play = "verify" /\ Task("verifyStatus")
     \/ play = "verifyStatus" /\ AfterVerifyStatus

CommandTaskFails ==
  /\ play \in CommandTasks /\ At(controller, "failed")
  /\ Reaped(controller)
  /\ TaskFails

-----------------------------------------------------------------------------
\* pacman, the workstation payload and its check: in a FROZEN session @ is not what they change.
UpdateStarts ==
  /\ play = "update" /\ Up
  /\ work' = IF running = "thawed" THEN Outdated ELSE work
  /\ Task("updating")
  /\ UNCHANGED <<running, scheduled, remote, baseline, journal, candidate, calls, cache>>

\* Bug: a repair that fails is taken for one that is done.
UpdateEndsAnyhow ==
  /\ play = "updating" /\ Up
  /\ Task("checkMode")
  /\ UNCHANGED hostVars

UpdateEnds ==
  /\ play = "updating" /\ Up
  /\ work' = IF running = "thawed" THEN Updated ELSE work
  /\ Task("checkMode")
  /\ UNCHANGED <<running, scheduled, remote, baseline, journal, candidate, calls, cache>>

UpdateFails ==
  /\ play = "updating" /\ Up
  /\ TaskFails
  /\ UNCHANGED hostVars

\* ansible.builtin.reboot, then the wait for a host that is up again.
RebootTask ==
  /\ play \in {"rebootThawed", "rebootFrozen"}
  /\ Task(IF play = "rebootThawed" THEN "awaitThawed" ELSE "awaitFrozen")
  /\ HostDown

Reconnects ==
  /\ play \in {"awaitThawed", "awaitFrozen"} /\ Up
  /\ Task(IF play = "awaitThawed" THEN "consume" ELSE "verify")
  /\ UNCHANGED hostVars

RebootTimesOut ==
  /\ play \in {"rebootThawed", "awaitThawed", "rebootFrozen", "awaitFrozen"}
  /\ TaskFails
  /\ UNCHANGED hostVars

\* "Host was intentionally left THAWED for administrator review."
WriteMarker ==
  /\ play = "rescue" /\ Up
  /\ Task("rescued")
  /\ UNCHANGED hostVars

\* A task that finds the host down.
Unreachable ==
  /\ ~Up
  /\ play \in CommandTasks \cup {"update", "rebootThawed", "rebootFrozen", "rescue"}
  /\ Task("failed")
  /\ UNCHANGED hostVars

\* A command that runs while the host goes down takes its connection along.
ConnectionLost ==
  IF play = "updating" \/ (play \in CommandTasks /\ command[controller] # "none")
  THEN Task("failed") ELSE UNCHANGED play

FleetStep ==
  \/ StartPlay \/ Ask \/ Answered \/ CommandTaskFails
  \/ UpdateStarts \/ UpdateEnds \/ UpdateFails
  \/ Reconnects \/ RebootTimesOut \/ WriteMarker \/ Unreachable
  \/ CommandStep(controller) /\ UNCHANGED play

FleetTypeOK == play \in Tasks
=============================================================================
