--------------------------- MODULE LegacyMigration ---------------------------
(***************************************************************************)
(* cachy-freeze migrate: the deletion of the snapshot history of earlier   *)
(* releases, of their leftover transients, and the schema version recorded *)
(* last.  It runs under the engine lock, so one run at a time; the         *)
(* rollback of a pending transaction it starts with is RecoverStep of      *)
(* FreezeEngine and touches none of the names here.                        *)
(*                                                                         *)
(* A run can stop after any durable step: killed, out of power, or with a  *)
(* failed command, all of which leave the same disk.  The installer is     *)
(* then run again.  An outsider, the administrator of the THAWED system,   *)
(* may create and delete children of the history at any time.              *)
(***************************************************************************)
EXTENDS Naturals, FiniteSets

CONSTANTS
  Children,    \* names a child of @cachy-snapshots can have, in sorting order
  Transients,  \* the @golden.previous ... @active.previous.pending of old releases
  None,        \* the value of a file that does not exist
  Broken       \* the value of a catalog that is malformed

VARIABLES
  child,      \* what each name in @cachy-snapshots is
  parent,     \* whether @cachy-snapshots exists
  catalog,    \* snapshots.json: the owned names
  record,     \* history-migration.json: the owned and the remaining names
  transients, \* the transients that exist
  schema,     \* the version in schema-version.json, 0 without the file
  obsolete,   \* whether an obsolete state file is left
  pc,         \* the next step of the run
  todo,       \* the children the run listed and has yet to delete
  touched     \* auxiliary: the names an outsider created or deleted

history == <<child, parent, catalog, record>>
disk == <<child, parent, catalog, record, transients, schema, obsolete>>
vars == <<child, parent, catalog, record, transients, schema, obsolete, pc, todo, touched>>

Target == 2  \* STATE_SCHEMA_VERSION

Kinds == {"absent", "subvolume", "directory"}
Steps == {"version", "check", "record", "delete", "mark", "parent", "catalog",
          "unrecord", "transients", "schema", "obsolete"}
Resting == {"idle", "stopped"}  \* no run: the last one ended by itself, or was stopped
Records == [owned: SUBSET Children, remaining: SUBSET Children]

ASSUME NamesAssumption == Children \subseteq Nat /\ Transients \subseteq Nat
\* A directory and the list of the old transients end.
ASSUME FiniteAssumption == IsFiniteSet(Children) /\ IsFiniteSet(Transients)
ASSUME NoneAssumption ==
  /\ Broken # None
  /\ \A owned \in SUBSET Children : owned # None /\ owned # Broken
  /\ \A r \in Records : r # None

Listed == {c \in Children : child[c] # "absent"}

Earliest(names) == {c \in names : \A d \in names : c <= d}

\* A machine with or without a history, whose evidence may be anything at all.
Init ==
  /\ parent \in BOOLEAN
  /\ child \in [Children -> IF parent THEN Kinds ELSE {"absent"}]
  /\ catalog \in {None, Broken} \cup SUBSET Children
  /\ record = None
  /\ transients \in SUBSET Transients
  /\ schema \in 0..(Target + 1)
  /\ schema = Target => ~parent /\ catalog = None
  /\ obsolete = TRUE
  /\ pc = "idle" /\ todo = {} /\ touched = {}

-----------------------------------------------------------------------------
(***************************************************************************)
(* One run.                                                                *)
(***************************************************************************)
Start ==
  /\ pc \in Resting /\ pc' = "version"
  /\ UNCHANGED <<disk, todo, touched>>

\* State of a newer release is refused before anything is looked at.
CheckVersion ==
  /\ pc = "version"
  /\ pc' = IF schema > Target THEN "idle" ELSE "check"
  /\ UNCHANGED <<disk, todo, touched>>

\* Bug: a leftover record is not looked for.
NothingToDeleteNoRecord == ~parent /\ catalog = None

NothingToDelete == ~parent /\ record = None /\ catalog = None

\* A record says which children this or an earlier run was entitled to delete.
RecordMatches == record.owned = catalog /\ record.remaining \subseteq catalog

ContentsMatch ==
  IF record = None THEN Listed = catalog ELSE Listed \subseteq record.remaining

Accepted ==
  /\ catalog # None /\ catalog # Broken
  /\ record # None => RecordMatches
  /\ IF parent THEN ContentsMatch ELSE record # None => record.remaining = {}

Check ==
  /\ pc = "check"
  /\ \/ NothingToDelete /\ pc' = "transients" /\ UNCHANGED todo
     \/ /\ ~NothingToDelete /\ Accepted
        /\ pc' = IF ~parent THEN "catalog" ELSE IF record = None THEN "record" ELSE "delete"
        /\ todo' = IF parent THEN Listed ELSE {}
     \/ ~NothingToDelete /\ ~Accepted /\ pc' = "idle" /\ UNCHANGED todo
  /\ UNCHANGED <<disk, touched>>

\* Bug: the record is written in place, so that a stop leaves half of it.
WriteRecordTorn ==
  /\ pc = "record"
  /\ record' \in {[owned |-> catalog, remaining |-> catalog], Broken}
  /\ pc' = "delete"
  /\ UNCHANGED <<child, parent, catalog, transients, schema, obsolete, todo, touched>>

\* Bug: the record is written as if the first deletion had already happened.
WriteRecordAhead ==
  /\ pc = "record"
  /\ record' = [owned |-> catalog, remaining |-> catalog \ Earliest(catalog)]
  /\ pc' = "delete"
  /\ UNCHANGED <<child, parent, catalog, transients, schema, obsolete, todo, touched>>

WriteRecord ==
  /\ pc = "record"
  /\ record' = [owned |-> catalog, remaining |-> catalog]
  /\ pc' = "delete"
  /\ UNCHANGED <<child, parent, catalog, transients, schema, obsolete, todo, touched>>

\* Bug: the loop reads the directory again instead of the list it checked.
DeleteChildUnlisted ==
  /\ pc = "delete"
  /\ \/ \E c \in Earliest(Listed) :
          /\ child[c] = "subvolume"
          /\ child' = [child EXCEPT ![c] = "absent"]
          /\ todo' = todo \ {c}
          /\ pc' = "mark"
     \/ todo = {} /\ pc' = "parent" /\ UNCHANGED <<child, todo>>
  /\ UNCHANGED <<parent, catalog, record, transients, schema, obsolete, touched>>

\* The listed children in sorting order.  One that is no subvolume any more is refused.
DeleteChild ==
  /\ pc = "delete"
  /\ \/ \E c \in Earliest(todo) :
          \/ /\ child[c] = "subvolume"
             /\ child' = [child EXCEPT ![c] = "absent"]
             /\ todo' = todo \ {c}
             /\ pc' = "mark"
          \/ child[c] # "subvolume" /\ pc' = "idle" /\ todo' = {} /\ UNCHANGED child
     \/ todo = {} /\ pc' = "parent" /\ UNCHANGED <<child, todo>>
  /\ UNCHANGED <<parent, catalog, record, transients, schema, obsolete, touched>>

MarkDeleted ==
  /\ pc = "mark"
  /\ record' = [owned |-> catalog, remaining |-> todo]
  /\ pc' = "delete"
  /\ UNCHANGED <<child, parent, catalog, transients, schema, obsolete, todo, touched>>

\* Btrfs deletes no subvolume that has another one in it; a directory goes with it.
DeleteParent ==
  /\ pc = "parent"
  /\ IF \A c \in Children : child[c] # "subvolume"
     THEN /\ parent' = FALSE
          /\ child' = [c \in Children |-> "absent"]
          /\ pc' = "catalog"
     ELSE pc' = "idle" /\ UNCHANGED <<parent, child>>
  /\ UNCHANGED <<catalog, record, transients, schema, obsolete, todo, touched>>

\* Bug: the catalog is forgotten.
UnlinkCatalogForgotten ==
  /\ pc = "catalog" /\ pc' = "unrecord"
  /\ UNCHANGED <<child, parent, catalog, record, transients, schema, obsolete, todo, touched>>

UnlinkCatalog ==
  /\ pc = "catalog"
  /\ catalog' = None /\ pc' = "unrecord"
  /\ UNCHANGED <<child, parent, record, transients, schema, obsolete, todo, touched>>

UnlinkRecord ==
  /\ pc = "unrecord"
  /\ record' = None /\ pc' = "transients"
  /\ UNCHANGED <<child, parent, catalog, transients, schema, obsolete, todo, touched>>

\* Only an installation that has a schema record is known to own the old transients.
DeleteTransients ==
  /\ pc = "transients"
  /\ IF schema > 0 /\ transients # {}
     THEN /\ \E t \in Earliest(transients) : transients' = transients \ {t}
          /\ UNCHANGED pc
     ELSE pc' = "schema" /\ UNCHANGED transients
  /\ UNCHANGED <<history, schema, obsolete, todo, touched>>

RecordSchema ==
  /\ pc = "schema"
  /\ schema' = Target /\ pc' = "obsolete"
  /\ UNCHANGED <<history, transients, obsolete, todo, touched>>

UnlinkObsolete ==
  /\ pc = "obsolete"
  /\ obsolete' = FALSE /\ pc' = "idle"
  /\ UNCHANGED <<history, transients, schema, todo, touched>>

Step ==
  \/ CheckVersion \/ Check \/ WriteRecord \/ DeleteChild \/ MarkDeleted \/ DeleteParent
  \/ UnlinkCatalog \/ UnlinkRecord \/ DeleteTransients \/ RecordSchema \/ UnlinkObsolete

-----------------------------------------------------------------------------
(***************************************************************************)
(* What can happen to a run.                                               *)
(***************************************************************************)
Stop ==
  /\ pc \notin Resting /\ pc' = "stopped" /\ todo' = {}
  /\ UNCHANGED <<disk, touched>>

Meddle(c, kind) ==
  /\ parent /\ child[c] # kind
  /\ child' = [child EXCEPT ![c] = kind]
  /\ touched' = touched \cup {c}
  /\ UNCHANGED <<parent, catalog, record, transients, schema, obsolete, pc, todo>>

Outsider == \E c \in Children, kind \in Kinds : Meddle(c, kind)

Next == Start \/ Step \/ Stop \/ Outsider

Spec == Init /\ [][Next]_vars

\* The code of a run never waits, and a run that stopped is retried.
FairSpec == Spec /\ WF_vars(Step) /\ WF_vars(Start)

-----------------------------------------------------------------------------
(***************************************************************************)
(* Properties.                                                             *)
(***************************************************************************)
TypeOK ==
  /\ child \in [Children -> Kinds]
  /\ parent \in BOOLEAN
  /\ catalog \in {None, Broken} \cup SUBSET Children
  /\ record \in {None} \cup Records
  /\ transients \in SUBSET Transients
  /\ schema \in 0..(Target + 1)
  /\ obsolete \in BOOLEAN
  /\ pc \in Steps \cup Resting
  /\ todo \in SUBSET Children
  /\ touched \in SUBSET Children

(***************************************************************************)
(* Whatever an outsider does during a run or between two, migrate deletes  *)
(* a snapshot only if the catalog owns it and a durable record of the same *)
(* ownership says that its deletion has begun.                             *)
(***************************************************************************)
DeletesOnlyOwned ==
  [][\A c \in Children :
       (child[c] = "subvolume" /\ child'[c] # "subvolume" /\ pc' # pc) =>
         c \in catalog /\ record # None /\ record.owned = catalog]_vars

(***************************************************************************)
(* Wherever a run stopped, as long as the history is there the next run    *)
(* accepts the record and goes on: the record is never ahead of the        *)
(* deletions it describes, nor left without the catalog it is checked      *)
(* against.  (What can happen once the history is gone is in               *)
(* MigrationClaims.)                                                       *)
(***************************************************************************)
RetryAccepted ==
  pc \in Resting /\ parent /\ record # None /\ touched = {} => Accepted

(***************************************************************************)
(* The version of the two-mode state is recorded last: a machine that says *)
(* it has been migrated has no history, no catalog and no record of an     *)
(* unfinished deletion.                                                    *)
(***************************************************************************)
SchemaLast == schema = Target => ~parent /\ catalog = None /\ record = None

(***************************************************************************)
(* Unless it is stopped or meddled with again and again, retrying comes to *)
(* an end: the machine is migrated for good, with nothing left to delete,  *)
(* or its evidence is refused for good.                                    *)
(***************************************************************************)
Migrated == schema = Target /\ NothingToDelete /\ ~obsolete

Refused ==
  \/ schema > Target
  \/ ~NothingToDelete /\ ~Accepted
  \/ \E c \in Children : child[c] = "directory"

RetriesConverge ==
  \/ []<><<Stop \/ Outsider>>_vars
  \/ <>[]Migrated
  \/ <>[]Refused

=============================================================================
