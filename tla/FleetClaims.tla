---------------------------- MODULE FleetClaims ----------------------------
(***************************************************************************)
(* What ansible/playbooks/maintenance.yml says of a play that fails.       *)
(***************************************************************************)
EXTENDS ManagedHost

(***************************************************************************)
(* "Host was intentionally left THAWED for administrator review": when the *)
(* rescue writes its marker, THAWED runs and is what the next boot will    *)
(* be.  The block also holds freeze.yml and verify.yml, whose commands     *)
(* fail after they have committed when the lock is taken by another caller *)
(* before the status they print.                                           *)
(***************************************************************************)
RescueLeavesThawed ==
  [][WriteMarker => running = "thawed" /\ scheduled = "thawed"]_vars
=============================================================================
