-------------------------- MODULE MigrationClaims --------------------------
(***************************************************************************)
(* What the comments say of a migration that was interrupted, and what     *)
(* the code does once the parent of the history is gone.                   *)
(***************************************************************************)
EXTENDS LegacyMigration

(***************************************************************************)
(* "Missing owned children are therefore treated as completed work only    *)
(* when the durable migration record exists" (engine.py:957-959): with a   *)
(* matching record and no owned child left, the next run goes on, if       *)
(* nothing but migrate deleted them.                                       *)
(***************************************************************************)
MissingChildrenCompleted ==
  (/\ pc \in Resting /\ Listed = {} /\ record # None /\ touched = {}
   /\ catalog \notin {None, Broken} /\ record.owned = catalog)
  => Accepted
=============================================================================
