------------------------------ MODULE Manager ------------------------------
(***************************************************************************)
(* The manager application: a window over what it was last told, and one   *)
(* helper at a time that runs a privileged command.  It shows the cached   *)
(* status, which an earlier boot may have written, until a status of its   *)
(* own has come back; the mode buttons follow the verified one only.  The  *)
(* window is modal while it asks and while it reports.                     *)
(***************************************************************************)
EXTENDS CommandLine

VARIABLES
  open,        \* whether the application runs
  verified,    \* MainWindow.verified
  shown,       \* MainWindow.running_mode
  rebootDue,   \* MainWindow.reboot_required
  rebootOffer, \* whether REBOOT NOW is visible
  pending      \* BackendClient.pending_action: the command of the helper, or "none"

windowVars == <<open, verified, shown, rebootDue, rebootOffer, pending>>

me == "manager"
ASSUME ManagerIsClient == me \in Clients

ManagerInit ==
  /\ open = FALSE /\ verified = FALSE /\ shown = "unknown"
  /\ rebootDue = FALSE /\ rebootOffer = FALSE
  /\ pending = "none"

busy == pending # "none"

\* _apply_mode_controls, and the visibility and state of the other two buttons.
Valid == verified /\ ~busy /\ ~rebootDue
Enabled(a) ==
  CASE a = "freeze" -> Valid /\ shown = "thawed"
    [] a = "thaw"   -> Valid /\ shown = "frozen"
    [] a = "status" -> ~busy
    [] a = "reboot" -> ~busy /\ rebootOffer
Buttons == {"freeze", "thaw", "status", "reboot"}

\* _status_changed
StatusChanged(v, mode, due) ==
  /\ verified' = v /\ shown' = mode /\ rebootDue' = due
  /\ rebootOffer' = (v /\ due)

\* Bug: the cached status counts as verified.
RefreshTrusting == StatusChanged(TRUE, cache.running, cache.scheduled # cache.running)

\* refresh_local: status.json has no "verified".
RefreshLocal == StatusChanged(FALSE, cache.running, cache.scheduled # cache.running)

\* BackendClient.run: pkexec is asked for one command.
Run(a) == pending' = a

-----------------------------------------------------------------------------
\* The constructor shows what is cached and asks for the status at once.
OpenWindow ==
  /\ Up /\ ~open
  /\ open' = TRUE
  /\ RefreshLocal
  /\ Run("status")
  /\ UNCHANGED hostVars

(***************************************************************************)
(* A click, and for all but VERIFY the question that _freeze, _thaw and    *)
(* _confirm_reboot ask: the window is modal while it does, so what enabled *)
(* the button still holds when the answer is yes.                          *)
(***************************************************************************)
Click(a) ==
  /\ open /\ Enabled(a)
  /\ Run(a)
  /\ UNCHANGED <<hostVars, open, verified, shown, rebootDue, rebootOffer>>

\* pkexec has the authorization: the helper replaces itself by the command.
Authorized ==
  /\ busy /\ command[me] = "none"
  /\ Invoke(me, pending)
  /\ UNCHANGED windowVars

-----------------------------------------------------------------------------
(***************************************************************************)
(* _finished and _process_error.  The process is forgotten before its      *)
(* result is looked at, so the buttons come back with the old status when  *)
(* there is no new one.                                                    *)
(***************************************************************************)
Forget == pending' = "none"

\* Exit code 126 or 127, or a process that could not be started.
NotAuthorized ==
  /\ busy /\ command[me] = "none"
  /\ Forget
  /\ UNCHANGED <<hostVars, open, verified, shown, rebootDue, rebootOffer>>

Failed ==
  /\ busy /\ At(me, "failed")
  /\ Forget /\ Reaped(me)
  /\ UNCHANGED <<cache, open, verified, shown, rebootDue, rebootOffer>>

\* Bug: the window shows what the command cached.
StatusFromCache ==
  /\ pending = "status" /\ At(me, "ok")
  /\ StatusChanged(TRUE, running, cache.scheduled # running)
  /\ Forget /\ Reaped(me)
  /\ UNCHANGED open

StatusFinished ==
  /\ pending = "status" /\ At(me, "ok")
  /\ StatusChanged(TRUE, running, printed[me].scheduled # running)
  /\ Forget /\ Reaped(me)
  /\ UNCHANGED open

\* freeze and thaw: refresh_local, then _operation_finished offers the reboot.
ModeFinished ==
  /\ pending \in {"freeze", "thaw"} /\ At(me, "ok")
  /\ verified' = FALSE
  /\ shown' = cache.running
  /\ rebootDue' = TRUE /\ rebootOffer' = TRUE
  /\ Forget /\ Reaped(me)
  /\ UNCHANGED open

RebootFinished ==
  /\ pending = "reboot" /\ At(me, "ok")
  /\ Forget /\ Reaped(me)
  /\ UNCHANGED <<open, verified, shown, rebootDue, rebootOffer>>

HelperEnds == NotAuthorized \/ Failed \/ StatusFinished \/ ModeFinished \/ RebootFinished

CloseWindow ==
  /\ open /\ ~busy
  /\ UNCHANGED hostVars
  /\ open' = FALSE /\ verified' = FALSE /\ shown' = "unknown"
  /\ rebootDue' = FALSE /\ rebootOffer' = FALSE
  /\ UNCHANGED pending

\* The session ends with the machine.
WindowGone ==
  /\ open' = FALSE /\ verified' = FALSE /\ shown' = "unknown"
  /\ rebootDue' = FALSE /\ rebootOffer' = FALSE
  /\ pending' = "none"

ManagerStep ==
  \/ OpenWindow \/ CloseWindow
  \/ \E a \in Buttons : Click(a)
  \/ Authorized \/ HelperEnds
  \/ CommandStep(me) /\ UNCHANGED windowVars

WindowTypeOK ==
  /\ open \in BOOLEAN /\ verified \in BOOLEAN /\ shown \in Modes \cup {"unknown"}
  /\ rebootDue \in BOOLEAN /\ rebootOffer \in BOOLEAN
  /\ pending \in Buttons \cup {"none"}
=============================================================================
