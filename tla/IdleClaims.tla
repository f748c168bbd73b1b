----------------------------- MODULE IdleClaims -----------------------------
(***************************************************************************)
(* What the documentation says of the second threshold.                    *)
(***************************************************************************)
EXTENDS IdlePolicy

(***************************************************************************)
(* "120 minutes total idle -> systemctl poweroff"                          *)
(* (docs/workstation-provisioning.md:148): a machine whose session has     *)
(* been idle for the second threshold does not stay on, undisturbed, until *)
(* a third would have passed.                                              *)
(***************************************************************************)
NeverOverdue == ~(Waiting /\ idle = Overdue)
=============================================================================
