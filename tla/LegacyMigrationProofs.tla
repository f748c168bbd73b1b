------------------------ MODULE LegacyMigrationProofs ------------------------
(***************************************************************************)
(* Proofs about migrate, for any set of children and any evidence to start *)
(* from, with runs that stop anywhere and an outsider at any time.         *)
(*                                                                         *)
(* The inductive invariant ties the position in the run to the evidence on *)
(* the disk.  Its centre is Backed (a record beside a history always has   *)
(* its catalog) and NotAhead (what is left of the owned history is what    *)
(* the record, and the list of the run, still have to delete).             *)
(***************************************************************************)
EXTENDS LegacyMigration, FiniteSetTheorems, TLAPS

Valid == catalog # None /\ catalog # Broken

\* Once a run has accepted a history, the history and its catalog stay.
Accepting ==
  /\ pc \in {"record", "delete", "mark", "parent"} => parent /\ Valid
  /\ pc \in {"record", "delete", "mark"} => todo \subseteq catalog

\* The record is written before the first deletion.
Recorded ==
  /\ pc \in {"delete", "mark", "parent"} => record # None
  /\ pc = "record" => record = None

\* A record beside a history has its catalog, and was written by a run that matched it.
Backed == record # None /\ parent => Valid /\ RecordMatches

\* Neither the list of a run nor the record lacks a child that is still there.
NotAhead ==
  /\ pc \in {"record", "delete", "mark"} => Listed \ touched \subseteq todo
  /\ record # None /\ parent => Listed \ touched \subseteq record.remaining

\* The evidence is taken down in order: the history, the catalog, the record.
Unwound ==
  /\ ~parent => Listed = {}
  /\ pc = "catalog" => ~parent
  /\ pc = "unrecord" => ~parent /\ catalog = None
  /\ pc \in {"transients", "schema", "obsolete"} => NothingToDelete

\* A migrated machine has nothing for a run to accept.
Done == schema = Target => pc \notin {"record", "delete", "mark", "parent", "catalog", "unrecord"}

IInv ==
  TypeOK /\ Accepting /\ Recorded /\ Backed /\ NotAhead /\ Unwound /\ SchemaLast /\ Done

-----------------------------------------------------------------------------
\* The catalog of an accepted history is a set of names.
LEMMA ValidIsOwned == TypeOK /\ Valid => catalog \in SUBSET Children
  BY DEF TypeOK, Valid

\* A record that is written is not the absence of one.
LEMMA RecordIsSome ==
  ASSUME NEW owned \in SUBSET Children, NEW remaining \in SUBSET Children
  PROVE  /\ [owned |-> owned, remaining |-> remaining] \in Records
         /\ [owned |-> owned, remaining |-> remaining] # None
  <1>1. [owned |-> owned, remaining |-> remaining] \in Records
    BY DEF Records
  <1> QED
    BY <1>1, NoneAssumption

\* A machine as an earlier release left it satisfies the invariant, with any evidence.
LEMMA IInvInit == Init => IInv
  BY DEF Init, IInv, TypeOK, Accepting, Recorded, Backed, NotAhead, Unwound, SchemaLast, Done,
         Listed, Kinds, Steps, Resting, Target

\* No step of a run, no stop and no outsider breaks the invariant.
LEMMA IInvNext == IInv /\ [Next]_vars => IInv'
  <1> SUFFICES ASSUME IInv, [Next]_vars PROVE IInv'
    OBVIOUS
  <1> USE DEF IInv, Accepting, Recorded, Backed, NotAhead, Unwound, SchemaLast, Done, Target
  <1>1. CASE Start
    BY <1>1 DEF Start, TypeOK, Steps, Resting, Listed, RecordMatches, NothingToDelete, Valid, disk
  <1>2. CASE CheckVersion
    BY <1>2 DEF CheckVersion, TypeOK, Steps, Resting, Listed, RecordMatches, NothingToDelete, Valid, disk
  <1>3. CASE Check
    BY <1>3 DEF Check, TypeOK, Steps, Resting, Listed, RecordMatches, ContentsMatch, Accepted,
                NothingToDelete, Valid, disk
  <1>4. CASE WriteRecord
    <2>1. record' \in Records /\ record' # None
      BY <1>4, ValidIsOwned, RecordIsSome DEF WriteRecord
    <2> QED
      BY <1>4, <2>1 DEF WriteRecord, TypeOK, Steps, Resting, Listed, RecordMatches, NothingToDelete, Valid
  <1>5. CASE DeleteChild
    BY <1>5 DEF DeleteChild, TypeOK, Steps, Resting, Kinds, Listed, Earliest, RecordMatches,
                NothingToDelete, Valid
  <1>6. CASE MarkDeleted
    <2>1. record' \in Records /\ record' # None
      BY <1>6, ValidIsOwned, RecordIsSome DEF MarkDeleted, TypeOK
    <2> QED
      BY <1>6, <2>1 DEF MarkDeleted, TypeOK, Steps, Resting, Listed, RecordMatches, NothingToDelete, Valid
  <1>7. CASE DeleteParent
    BY <1>7 DEF DeleteParent, TypeOK, Steps, Resting, Kinds, Listed, RecordMatches, NothingToDelete, Valid
  <1>8. CASE UnlinkCatalog
    BY <1>8 DEF UnlinkCatalog, TypeOK, Steps, Resting, Listed, RecordMatches, NothingToDelete, Valid
  <1>9. CASE UnlinkRecord
    BY <1>9 DEF UnlinkRecord, TypeOK, Steps, Resting, Listed, RecordMatches, NothingToDelete, Valid
  <1>10. CASE DeleteTransients
    BY <1>10 DEF DeleteTransients, TypeOK, Steps, Resting, Earliest, Listed, RecordMatches,
                 NothingToDelete, Valid, history
  <1>11. CASE RecordSchema
    BY <1>11 DEF RecordSchema, TypeOK, Steps, Resting, Listed, RecordMatches, NothingToDelete, Valid, history
  <1>12. CASE UnlinkObsolete
    BY <1>12 DEF UnlinkObsolete, TypeOK, Steps, Resting, Listed, RecordMatches, NothingToDelete, Valid,
                 history
  <1>13. CASE Stop
    BY <1>13 DEF Stop, TypeOK, Steps, Resting, Listed, RecordMatches, NothingToDelete, Valid, disk
  <1>14. CASE Outsider
    <2>1. PICK c \in Children, kind \in Kinds : Meddle(c, kind)
      BY <1>14 DEF Outsider
    <2> QED
      BY <2>1 DEF Meddle, TypeOK, Kinds, Listed, RecordMatches, NothingToDelete, Valid
  <1>15. CASE UNCHANGED vars
    BY <1>15 DEF vars, TypeOK, Listed, RecordMatches, NothingToDelete, Valid
  <1> QED
    BY <1>1, <1>2, <1>3, <1>4, <1>5, <1>6, <1>7, <1>8, <1>9, <1>10, <1>11, <1>12, <1>13, <1>14,
       <1>15 DEF Next, Step

\* The invariant of migrate.
THEOREM MigrationInvariant == Spec => []IInv
  BY IInvInit, IInvNext, PTL DEF Spec

(***************************************************************************)
(* Type correctness.                                                       *)
(***************************************************************************)
THEOREM MigrationTypeCorrect == Spec => []TypeOK
  BY MigrationInvariant, PTL DEF IInv

(***************************************************************************)
(* The version is recorded last: no machine says that it was migrated      *)
(* while a history, a catalog or an unfinished record is left.             *)
(***************************************************************************)
THEOREM SchemaRecordedLast == Spec => []SchemaLast
  BY MigrationInvariant, PTL DEF IInv

(***************************************************************************)
(* A run that stopped beside the history can always be resumed, if nobody  *)
(* else touched it: Backed gives the catalog that the record matches, and  *)
(* NotAhead the listing that it covers.                                    *)
(***************************************************************************)
THEOREM MigrationResumes == Spec => []RetryAccepted
  <1>1. IInv => RetryAccepted
    BY DEF IInv, Backed, NotAhead, RetryAccepted, Accepted, ContentsMatch, Valid
  <1> QED
    BY <1>1, MigrationInvariant, PTL

(***************************************************************************)
(* migrate deletes no snapshot but those the catalog owns, under a durable *)
(* record: the list of the run is covered by the catalog, and only the     *)
(* deletion of the list's children and of the emptied parent change what a *)
(* child is.                                                               *)
(***************************************************************************)
THEOREM OnlyOwnedDeleted == Spec => DeletesOnlyOwned
  <1> DEFINE Owned(c) == (child[c] = "subvolume" /\ child'[c] # "subvolume" /\ pc' # pc) =>
                           c \in catalog /\ record # None /\ record.owned = catalog
  <1>1. IInv /\ [Next]_vars => [\A c \in Children : Owned(c)]_vars
    <2> SUFFICES ASSUME IInv, Next, NEW c \in Children, child[c] = "subvolume",
                        child'[c] # "subvolume", pc' # pc
                 PROVE  c \in catalog /\ record # None /\ record.owned = catalog
      OBVIOUS
    <2>1. CASE DeleteChild
      <3>1. PICK d \in Earliest(todo) : child' = [child EXCEPT ![d] = "absent"]
        BY <2>1 DEF DeleteChild
      <3>2. c = d
        BY <3>1 DEF IInv, TypeOK
      <3>3. c \in todo /\ pc = "delete"
        BY <2>1, <3>2 DEF DeleteChild, Earliest
      <3> QED
        BY <3>3 DEF IInv, Accepting, Recorded, Backed, RecordMatches
    <2>2. CASE DeleteParent
      BY <2>2 DEF DeleteParent
    <2>3. CASE Outsider
      BY <2>3 DEF Outsider, Meddle
    <2>4. CASE ~(DeleteChild \/ DeleteParent \/ Outsider)
      <3>1. child' = child
        BY <2>4 DEF Next, Step, Start, CheckVersion, Check, WriteRecord, MarkDeleted,
                    UnlinkCatalog, UnlinkRecord, DeleteTransients, RecordSchema,
                    UnlinkObsolete, Stop, Resting, disk, history
      <3> QED
        BY <3>1
    <2> QED
      BY <2>1, <2>2, <2>3, <2>4
  <1> QED
    BY <1>1, MigrationInvariant, PTL DEF Spec, DeletesOnlyOwned

-----------------------------------------------------------------------------
(***************************************************************************)
(* What RetriesConverge rests on beside fairness: a run is finite.  Its    *)
(* rank counts two steps for each child still listed, one for each old     *)
(* transient, and the steps that every run takes once.                     *)
(***************************************************************************)
Sources == Cardinality(Children)
Leftovers == Cardinality(Transients)

RankAt(step, left, old) ==
  CASE step = "version" -> 2 * Sources + Leftovers + 10
    [] step = "check" -> 2 * Sources + Leftovers + 9
    [] step \in {"record", "mark"} -> 2 * left + old + 8
    [] step = "delete" -> 2 * left + old + 7
    [] step = "parent" -> old + 6
    [] step = "catalog" -> old + 5
    [] step = "unrecord" -> old + 4
    [] step = "transients" -> old + 3
    [] step = "schema" -> 2
    [] step = "obsolete" -> 1
    [] OTHER -> 0

Left == Cardinality(todo)
Old == Cardinality(transients)
RunRank == RankAt(pc, Left, Old)

\* What precedes what in a run, for any counts that are left and old.
LEMMA RankFalls ==
  ASSUME Sources \in Nat, Leftovers \in Nat,
         NEW left \in 0..Sources, NEW old \in 0..Leftovers,
         NEW left2 \in 0..Sources, NEW old2 \in 0..Leftovers
  PROVE  /\ \A next \in {"check", "idle"} : RankAt(next, left2, old2) < RankAt("version", left, old)
         /\ \A next \in {"transients", "catalog", "record", "delete", "idle"} :
              RankAt(next, left2, old2) < RankAt("check", left, old)
         /\ \A step \in {"record", "mark"} :
              RankAt("delete", left, old) < RankAt(step, left, old)
         /\ left2 = left - 1 => RankAt("mark", left2, old) < RankAt("delete", left, old)
         /\ \A next \in {"idle", "parent"} : RankAt(next, left2, old) < RankAt("delete", left, old)
         /\ \A next \in {"catalog", "idle"} : RankAt(next, left2, old) < RankAt("parent", left, old)
         /\ RankAt("unrecord", left2, old) < RankAt("catalog", left, old)
         /\ RankAt("transients", left2, old) < RankAt("unrecord", left, old)
         /\ old2 = old - 1 => RankAt("transients", left2, old2) < RankAt("transients", left, old)
         /\ RankAt("schema", left2, old2) < RankAt("transients", left, old)
         /\ RankAt("obsolete", left2, old2) < RankAt("schema", left, old)
         /\ RankAt("idle", left2, old2) < RankAt("obsolete", left, old)
BY SMTT(30) DEF RankAt

\* What is left to delete is counted, and is no more than there can be.
LEMMA LeftIsFinite ==
  ASSUME TypeOK
  PROVE  /\ IsFiniteSet(todo) /\ IsFiniteSet(transients)
         /\ Sources \in Nat /\ Leftovers \in Nat
         /\ Left \in 0..Sources /\ Old \in 0..Leftovers
<1>1. todo \subseteq Children /\ transients \subseteq Transients
  BY DEF TypeOK
<1>2. /\ IsFiniteSet(todo) /\ Left <= Sources
      /\ IsFiniteSet(transients) /\ Old <= Leftovers
  BY <1>1, FiniteAssumption, FS_Subset DEF Left, Sources, Old, Leftovers
<1>3. Sources \in Nat /\ Leftovers \in Nat /\ Left \in Nat /\ Old \in Nat
  BY <1>2, FiniteAssumption, FS_CardinalityType DEF Left, Sources, Old, Leftovers
<1> QED BY <1>2, <1>3

LEMMA RunRankBounded == TypeOK => RunRank \in 0..(2 * Sources + Leftovers + 10)
BY LeftIsFinite DEF RunRank, RankAt

\* A deletion leaves one name less.
LEMMA OneLess ==
  ASSUME NEW S, IsFiniteSet(S), NEW c \in S
  PROVE  Cardinality(S \ {c}) = Cardinality(S) - 1 /\ Cardinality(S) \in Nat
BY FS_RemoveElement, FS_CardinalityType

LEMMA StepFalls ==
  ASSUME TypeOK, TypeOK', Step
  PROVE  RunRank' < RunRank
<1>1. RunRank' = RankAt(pc', Left', Old')
  BY DEF RunRank, RankAt, Sources, Leftovers
<1>2. /\ IsFiniteSet(todo) /\ IsFiniteSet(transients)
      /\ Sources \in Nat /\ Leftovers \in Nat
      /\ Left \in 0..Sources /\ Old \in 0..Leftovers
  BY LeftIsFinite
<1>3. Left' \in 0..Sources /\ Old' \in 0..Leftovers
  <2>1. todo' \subseteq Children /\ transients' \subseteq Transients
    BY DEF TypeOK
  <2>2. /\ IsFiniteSet(todo') /\ Left' <= Sources
        /\ IsFiniteSet(transients') /\ Old' <= Leftovers
    BY <2>1, FiniteAssumption, FS_Subset DEF Left, Sources, Old, Leftovers
  <2>3. Left' \in Nat /\ Old' \in Nat
    BY <2>2, FS_CardinalityType DEF Left, Old
  <2> QED BY <1>2, <2>2, <2>3
<1>4. CASE CheckVersion \/ Check
  <2>1. \/ pc = "version" /\ pc' \in {"check", "idle"}
        \/ pc = "check" /\ pc' \in {"transients", "catalog", "record", "delete", "idle"}
    BY <1>4 DEF CheckVersion, Check
  <2> QED BY <1>1, <1>2, <1>3, <2>1, RankFalls, Zenon DEF RunRank
<1>5. CASE WriteRecord \/ MarkDeleted
  <2>1. pc \in {"record", "mark"} /\ pc' = "delete" /\ Left' = Left /\ Old' = Old
    BY <1>5 DEF WriteRecord, MarkDeleted, Left, Old
  <2> QED BY <1>1, <1>2, <1>3, <2>1, RankFalls, Zenon DEF RunRank
<1>6. CASE DeleteChild
  <2>1. pc = "delete" /\ Old' = Old
    BY <1>6 DEF DeleteChild, Old
  <2>2. \/ pc' = "mark" /\ Left' = Left - 1
        \/ pc' \in {"idle", "parent"}
    BY <1>2, <1>6, OneLess DEF DeleteChild, Earliest, Left
  <2> QED BY <1>1, <1>2, <1>3, <2>1, <2>2, RankFalls, Zenon DEF RunRank
<1>7. CASE DeleteParent \/ UnlinkCatalog \/ UnlinkRecord
  <2>1. \/ pc = "parent" /\ pc' \in {"catalog", "idle"}
        \/ pc = "catalog" /\ pc' = "unrecord"
        \/ pc = "unrecord" /\ pc' = "transients"
    BY <1>7 DEF DeleteParent, UnlinkCatalog, UnlinkRecord
  <2>2. Old' = Old
    BY <1>7 DEF DeleteParent, UnlinkCatalog, UnlinkRecord, Old
  <2> QED BY <1>1, <1>2, <1>3, <2>1, <2>2, RankFalls, Zenon DEF RunRank
<1>8. CASE DeleteTransients
  <2>1. pc = "transients"
    BY <1>8 DEF DeleteTransients
  <2>2. pc' = "schema" \/ (pc' = "transients" /\ Old' = Old - 1)
    BY <1>2, <1>8, OneLess DEF DeleteTransients, Earliest, Old
  <2> QED BY <1>1, <1>2, <1>3, <2>1, <2>2, RankFalls, Zenon DEF RunRank
<1>9. CASE RecordSchema \/ UnlinkObsolete
  <2>1. \/ pc = "schema" /\ pc' = "obsolete"
        \/ pc = "obsolete" /\ pc' = "idle"
    BY <1>9 DEF RecordSchema, UnlinkObsolete
  <2> QED BY <1>1, <1>2, <1>3, <2>1, RankFalls, Zenon DEF RunRank
<1> QED BY <1>4, <1>5, <1>6, <1>7, <1>8, <1>9 DEF Step

(***************************************************************************)
(* migrate never loops: whatever it finds, and whatever an outsider does   *)
(* meanwhile, a run takes at most two steps for each name a child can      *)
(* have, one for each old transient and ten more.                          *)
(***************************************************************************)
THEOREM RunIsFinite ==
  Spec => /\ [](RunRank \in 0..(2 * Sources + Leftovers + 10))
          /\ [][Step => RunRank' < RunRank]_vars
          /\ [][Outsider => RunRank' = RunRank]_vars
<1>1. IInv /\ [Next]_vars => [Step => RunRank' < RunRank]_vars
  BY IInvNext, StepFalls DEF IInv
<1>2. [Outsider => RunRank' = RunRank]_vars
  BY DEF Outsider, Meddle, RunRank, Left, Old
<1>3. IInv => RunRank \in 0..(2 * Sources + Leftovers + 10)
  BY RunRankBounded DEF IInv
<1> QED BY <1>1, <1>2, <1>3, MigrationInvariant, PTL DEF Spec
=============================================================================
