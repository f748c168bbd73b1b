------------------------------ MODULE TwoModes ------------------------------
(***************************************************************************)
(* What CachyFreeze promises its administrator, with no subvolume, journal *)
(* or crash in sight: a machine boots either the persistent THAWED system  *)
(* or a FROZEN session made from the published baseline.  A baseline is    *)
(* what the persistent system was when a freeze captured it, published     *)
(* from THAWED at one instant or not at all, and it is never lost; nothing *)
(* done while FROZEN changes it.  THAWED boots without a password are      *)
(* authorized from a FROZEN session only, until a THAWED system takes the  *)
(* authorization back or the schedule is written again.  That it is good   *)
(* for one boot is not promised here: Stop and BootThawed keep it.         *)
(***************************************************************************)
CONSTANTS
  Versions,   \* the contents the persistent system can have
  None        \* no capture, no baseline, no session: not a version

VARIABLES
  work,       \* the content of the persistent system
  captured,   \* what a freeze has captured and not yet published, or None
  baseline,   \* the published version, or None before the first freeze
  scheduled,  \* the mode of the next boot
  authorized, \* whether THAWED boots ask for no password
  running,    \* "thawed", "frozen" or "down"
  session     \* the version the running FROZEN session was made from, or None

schedule == <<scheduled, authorized>>
power == <<running, session>>
abstractVars == <<work, captured, baseline, schedule, power>>

Init ==
  /\ work \in Versions
  /\ captured = None /\ baseline = None
  /\ scheduled = "thawed" /\ authorized = FALSE
  /\ running = "thawed" /\ session = None

Edit ==
  /\ running = "thawed"
  /\ work' \in Versions
  /\ UNCHANGED <<captured, baseline, schedule, power>>

Capture ==
  /\ running = "thawed"
  /\ captured' = work
  /\ UNCHANGED <<work, baseline, schedule, power>>

Publish ==
  /\ running = "thawed" /\ captured # None
  /\ baseline' = captured /\ captured' = None
  /\ UNCHANGED <<work, schedule, power>>

\* A publication is rolled back.
Abandon ==
  /\ running # "frozen"
  /\ captured' = None
  /\ UNCHANGED <<work, baseline, schedule, power>>

ScheduleFrozen ==
  /\ running = "thawed" /\ baseline # None
  /\ scheduled' = "frozen" /\ authorized' = FALSE
  /\ UNCHANGED <<work, captured, baseline, power>>

\* A thaw, a publication rolled back, or a FROZEN boot that failed.
ScheduleThawed ==
  /\ running = "down" => scheduled = "frozen"
  /\ scheduled' = "thawed" /\ authorized' = FALSE
  /\ captured' \in {captured, None}
  /\ UNCHANGED <<work, baseline, power>>

\* A thaw of the fleet, which nobody sits in front of.
Authorize ==
  /\ running = "frozen"
  /\ scheduled' = "thawed" /\ authorized' = TRUE
  /\ UNCHANGED <<work, captured, baseline, power>>

\* A THAWED system that came up takes the authorization back; it need not get to it.
Consume ==
  /\ running = "thawed"
  /\ authorized' = FALSE
  /\ UNCHANGED <<work, captured, baseline, scheduled, power>>

BootThawed ==
  /\ running = "down" /\ scheduled = "thawed"
  /\ running' = "thawed"
  /\ UNCHANGED <<work, captured, baseline, schedule, session>>

\* What a freeze left half done is gone before the session starts.
BootFrozen ==
  /\ running = "down" /\ scheduled = "frozen" /\ baseline # None
  /\ running' = "frozen" /\ session' = baseline
  /\ captured' = None
  /\ UNCHANGED <<work, baseline, schedule>>

Stop ==
  /\ running # "down"
  /\ running' = "down" /\ session' = None
  /\ UNCHANGED <<work, captured, baseline, schedule>>

Next ==
  \/ Edit \/ Capture \/ Publish \/ Abandon
  \/ ScheduleFrozen \/ ScheduleThawed \/ Authorize \/ Consume
  \/ BootThawed \/ BootFrozen \/ Stop

Spec == Init /\ [][Next]_abstractVars
=============================================================================
