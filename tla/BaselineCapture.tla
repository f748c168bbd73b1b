-------------------------- MODULE BaselineCapture --------------------------
(***************************************************************************)
(* How freeze makes the candidate of a baseline: it reads the layout,      *)
(* takes a snapshot of @ and of each auxiliary source, and copies these    *)
(* over the empty directories that the subvolumes leave in a snapshot of @.*)
(* The machine is in use all the while: the administrator may write        *)
(* anywhere, mount, unmount, create and delete subvolumes between any two  *)
(* commands of the engine.  FreezeEngine takes the candidate from there.   *)
(*                                                                         *)
(* A place is @ or a source.  Its data is in a subvolume of its own, then  *)
(* the directory in @ is empty, or in that directory.                      *)
(***************************************************************************)
EXTENDS Naturals, FiniteSets

CONSTANTS
  Mounts,    \* the sources that are mounted, as @home is at /home
  Nested,    \* the sources that are nested in @, as var/lib/machines
  Root,      \* @ itself
  NotThere,  \* instead of a version: no such subvolume,
  Empty,     \* the directory that a subvolume leaves in a snapshot,
  Partial,   \* some of a version
  MaxMoves,  \* bound: how often the administrator changes anything
  MaxStops   \* bound: how often freeze is stopped by something it did not check

ASSUME PlaceAssumption ==
  /\ Root \notin Mounts \cup Nested /\ Mounts \cap Nested = {}
  /\ IsFiniteSet(Mounts) /\ IsFiniteSet(Nested)
ASSUME BoundAssumption == MaxMoves \in Nat /\ MaxStops \in Nat

Kinds == {NotThere, Empty, Partial}
ASSUME KindAssumption ==
  /\ Kinds \cap Nat = {}
  /\ NotThere # Empty /\ NotThere # Partial

Sources == Mounts \cup Nested
Places == Sources \cup {Root}

VARIABLES
  content,    \* of each place: its version, the number of the move that last wrote it
  subvols,    \* the sources that are subvolumes of their own
  mounted,    \* the subvolumes that are mounted where they belong
  foreign,    \* the places that have an unsupported subvolume inside
  step,       \* the next step of freeze
  todo,       \* the sources that the step has still to look at
  layout,     \* _BaselineLayout.sources
  captured,   \* of each source: the version in @cachy-capture, or what is wrong with it
  parent,     \* whether @cachy-capture exists
  candidate,  \* of each place: the version in @golden.next, or what is wrong with it
  moves, stops,
  window,     \* of each place: its versions since the snapshot of @
  unseen      \* the places that changed their shape after the engine looked at it

data == <<content, subvols, mounted, foreign>>
history == <<window, unseen>>
vars == <<data, step, todo, layout, captured, parent, candidate, moves, stops, history>>

Versions == 0..MaxMoves

Nothing == [p \in Places |-> NotThere]
NoWindow == [p \in Places |-> {}]

LayoutSteps == {"mounts", "unmounted", "nested", "paths"}
CandidateSteps == {"parent", "look", "take", "clear", "copy", "uncapture", "seal", "sealed"}
Steps == {"idle", "recover", "snapshot"} \cup LayoutSteps \cup CandidateSteps

Init ==
  /\ content = [p \in Places |-> 0]
  /\ subvols \in SUBSET Sources
  /\ mounted \in SUBSET (subvols \cap Mounts)
  /\ foreign = {}
  /\ step = "idle" /\ todo = {} /\ layout = {}
  /\ captured = Nothing /\ parent = FALSE /\ candidate = Nothing
  /\ moves = 0 /\ stops = 0
  /\ window = NoWindow /\ unseen = {}

GoTo(s) == step' = s

\* The sources are sorted by their target: an order, whichever it is.
First(S) == CHOOSE s \in S : TRUE

\* What is in a snapshot of a place whose data is there.
Taken(p) == IF p \in foreign THEN Partial ELSE content[p]

-----------------------------------------------------------------------------
\* freeze: the lock, then the recovery of whatever an earlier one left.
Start ==
  /\ step = "idle"
  /\ GoTo("recover")
  /\ UNCHANGED <<data, todo, layout, captured, parent, candidate, moves, stops, history>>

\* Bug: the rollback forgets the parent of the captures.
RecoverKeepsCapture ==
  /\ step = "recover"
  /\ candidate' = Nothing
  /\ todo' = {} /\ layout' = {}
  /\ window' = NoWindow /\ unseen' = {}
  /\ GoTo("mounts")
  /\ UNCHANGED <<data, captured, parent, moves, stops>>

Recover ==
  /\ step = "recover"
  /\ candidate' = Nothing /\ captured' = Nothing /\ parent' = FALSE
  /\ todo' = {} /\ layout' = {}
  /\ window' = NoWindow /\ unseen' = {}
  /\ GoTo("mounts")
  /\ UNCHANGED <<data, moves, stops>>

\* _mounted_baseline_sources: findmnt.
ReadMounts ==
  /\ step = "mounts"
  /\ layout' = mounted
  /\ GoTo("unmounted")
  /\ UNCHANGED <<data, todo, captured, parent, candidate, moves, stops, history>>

\* The same: a standard subvolume that exists has to be mounted.
CheckUnmounted ==
  /\ step = "unmounted"
  /\ subvols \cap Mounts \subseteq layout
  /\ unseen' = unseen \ (Mounts \ layout)
  /\ GoTo("nested")
  /\ UNCHANGED <<data, todo, layout, captured, parent, candidate, moves, stops, window>>

\* _baseline_layout: the subvolumes in @; .snapshots is none of the candidate's business.
ListNested ==
  /\ step = "nested"
  /\ Root \notin foreign
  /\ layout' = layout \cup (subvols \cap Nested)
  /\ todo' = layout'
  /\ unseen' = unseen \ (Nested \cup {Root})
  /\ GoTo("paths")
  /\ UNCHANGED <<data, captured, parent, candidate, moves, stops, window>>

\* _baseline_source_path
SourcePath(s) == s \in subvols /\ s \notin foreign

\* _baseline_layout: the sources; the journal begins after the last one.
CheckPath ==
  /\ step = "paths"
  /\ \/ /\ todo # {} /\ SourcePath(First(todo))
        /\ todo' = todo \ {First(todo)}
        /\ unseen' = unseen \ {First(todo)}
        /\ UNCHANGED step
     \/ todo = {} /\ GoTo("snapshot") /\ UNCHANGED <<todo, unseen>>
  /\ UNCHANGED <<data, layout, captured, parent, candidate, moves, stops, window>>

-----------------------------------------------------------------------------
\* _prepare_golden_candidate: a subvolume in @ is an empty directory in the snapshot of @.
SnapshotRoot ==
  /\ step = "snapshot" /\ candidate = Nothing
  /\ candidate' = [p \in Places |-> IF p \in subvols THEN Empty ELSE Taken(p)]
  /\ window' = [p \in Places |-> {content[p]}]
  /\ GoTo(IF layout = {} THEN "seal" ELSE "parent")
  /\ UNCHANGED <<data, todo, layout, captured, parent, moves, stops, unseen>>

CreateCapture ==
  /\ step = "parent" /\ ~parent
  /\ parent' = TRUE
  /\ todo' = layout
  /\ GoTo("look")
  /\ UNCHANGED <<data, layout, captured, candidate, moves, stops, history>>

\* Bug: the path that _baseline_layout checked is taken for granted.
LookAgainAtNothing ==
  /\ step = "look"
  /\ unseen' = unseen \ {First(todo)}
  /\ GoTo("take")
  /\ UNCHANGED <<data, todo, layout, captured, parent, candidate, moves, stops, window>>

\* The path of the next source is checked again.
LookAgain ==
  /\ step = "look"
  /\ SourcePath(First(todo))
  /\ unseen' = unseen \ {First(todo)}
  /\ GoTo("take")
  /\ UNCHANGED <<data, todo, layout, captured, parent, candidate, moves, stops, window>>

\* A loop over the layout: the rest of it, or all of it again for the next loop.
Advance(loop, next) ==
  LET rest == todo \ {First(todo)} IN
  /\ todo' = IF rest = {} THEN layout ELSE rest
  /\ GoTo(IF rest = {} THEN next ELSE loop)

\* btrfs subvolume snapshot -r
TakeSource ==
  /\ step = "take" /\ First(todo) \in subvols
  /\ captured' = [captured EXCEPT ![First(todo)] = Taken(First(todo))]
  /\ Advance("look", "clear")
  /\ UNCHANGED <<data, layout, parent, candidate, moves, stops, history>>

\* _remove_candidate_directory and mkdir; nothing else empties what @ had there.
ClearDestination ==
  /\ step = "clear"
  /\ candidate' = [candidate EXCEPT ![First(todo)] = Empty]
  /\ GoTo("copy")
  /\ UNCHANGED <<data, todo, layout, captured, parent, moves, stops, history>>

CopySource ==
  /\ step = "copy"
  /\ candidate' = [candidate EXCEPT ![First(todo)] = captured[First(todo)]]
  /\ Advance("clear", "uncapture")
  /\ UNCHANGED <<data, layout, captured, parent, moves, stops, history>>

\* Bug: the parent of the captures goes, they stay.
DropParent ==
  /\ step = "uncapture"
  /\ parent' = FALSE
  /\ GoTo("seal")
  /\ UNCHANGED <<data, todo, layout, captured, candidate, moves, stops, history>>

DropCapture ==
  /\ step = "uncapture"
  /\ captured' = Nothing /\ parent' = FALSE
  /\ GoTo("seal")
  /\ UNCHANGED <<data, todo, layout, candidate, moves, stops, history>>

\* The excluded directories, which are empty, are made anew; then ro true.
Seal ==
  /\ step = "seal"
  /\ GoTo("sealed")
  /\ UNCHANGED <<data, todo, layout, captured, parent, candidate, moves, stops, history>>

\* The candidate becomes @golden: FreezeEngine, from DeriveActive on.
Publish ==
  /\ step = "sealed"
  /\ candidate' = Nothing
  /\ window' = NoWindow
  /\ GoTo("idle")
  /\ UNCHANGED <<data, todo, layout, captured, parent, moves, stops, unseen>>

Works ==
  \/ Start \/ Recover \/ ReadMounts \/ CheckUnmounted \/ ListNested \/ CheckPath
  \/ SnapshotRoot \/ CreateCapture \/ LookAgain \/ TakeSource
  \/ ClearDestination \/ CopySource \/ DropCapture \/ Seal \/ Publish

\* A check that says no, or a command that cannot do what it is asked.
Refuse ==
  /\ \/ step = "unmounted" /\ ~(subvols \cap Mounts \subseteq layout)
     \/ step = "nested" /\ Root \in foreign
     \/ step \in {"paths", "look"} /\ todo # {} /\ ~SourcePath(First(todo))
     \/ step = "take" /\ First(todo) \notin subvols
     \/ step = "snapshot" /\ candidate # Nothing
     \/ step = "parent" /\ parent
  /\ GoTo("idle")
  /\ UNCHANGED <<data, todo, layout, captured, parent, candidate, moves, stops, history>>

\* Anything else that ends freeze, a crash included: what it made stays.
Stop ==
  /\ step # "idle" /\ stops < MaxStops
  /\ stops' = stops + 1
  /\ candidate' = IF step = "copy" THEN [candidate EXCEPT ![First(todo)] = Partial]
                  ELSE candidate
  /\ GoTo("idle")
  /\ UNCHANGED <<data, todo, layout, captured, parent, moves, history>>

-----------------------------------------------------------------------------
\* The administrator; every move gives the place that it is about another version.
Move(p) ==
  /\ moves < MaxMoves /\ moves' = moves + 1
  /\ content' = [content EXCEPT ![p] = moves']
  /\ window' = IF step \in CandidateSteps THEN [window EXCEPT ![p] = @ \cup {moves'}]
               ELSE window
  /\ UNCHANGED <<step, todo, layout, captured, parent, candidate, stops>>

Write(p) ==
  /\ Move(p)
  /\ UNCHANGED <<subvols, mounted, foreign, unseen>>

\* Whether it does not matter any more what becomes of a place.
Settled(p) ==
  IF p \in layout
  THEN step \in {"seal", "sealed"} \/ (step \in CandidateSteps /\ captured[p] # NotThere)
  ELSE step \in CandidateSteps

Reshape(p) ==
  /\ Move(p)
  /\ unseen' = IF Settled(p) THEN unseen ELSE unseen \cup {p}

MakeSubvolume(s) ==
  /\ s \notin subvols
  /\ Reshape(s)
  /\ subvols' = subvols \cup {s}
  /\ mounted' \in {mounted, mounted \cup ({s} \cap Mounts)}
  /\ UNCHANGED foreign

DeleteSubvolume(s) ==
  /\ s \in subvols
  /\ Reshape(s)
  /\ subvols' = subvols \ {s} /\ mounted' = mounted \ {s} /\ foreign' = foreign \ {s}

\* A subvolume inside, as container runtimes make them.
MakeForeign(p) ==
  /\ p \in (subvols \cup {Root}) \ foreign
  /\ Reshape(p)
  /\ foreign' = foreign \cup {p}
  /\ UNCHANGED <<subvols, mounted>>

DeleteForeign(p) ==
  /\ p \in foreign
  /\ Reshape(p)
  /\ foreign' = foreign \ {p}
  /\ UNCHANGED <<subvols, mounted>>

MountOrUnmount(s) ==
  /\ s \in subvols \cap Mounts
  /\ Move(s)
  /\ mounted' = IF s \in mounted THEN mounted \ {s} ELSE mounted \cup {s}
  /\ UNCHANGED <<subvols, foreign, unseen>>

Administrator ==
  \/ \E p \in Places : Write(p) \/ MakeForeign(p) \/ DeleteForeign(p)
  \/ \E s \in Sources : MakeSubvolume(s) \/ DeleteSubvolume(s) \/ MountOrUnmount(s)

Next == Works \/ Refuse \/ Stop \/ Administrator

\* Freeze does not stop between two commands, and whoever wants it tries again.
Spec == Init /\ [][Next]_vars /\ WF_vars(Works \/ Refuse)

-----------------------------------------------------------------------------
TypeOK ==
  /\ content \in [Places -> Versions]
  /\ subvols \subseteq Sources /\ mounted \subseteq subvols \cap Mounts
  /\ foreign \subseteq subvols \cup {Root}
  /\ step \in Steps /\ layout \subseteq Sources /\ todo \subseteq layout
  /\ captured \in [Places -> Versions \cup Kinds] /\ parent \in BOOLEAN
  /\ candidate \in [Places -> Versions \cup Kinds]
  /\ \A p \in Places : captured[p] # NotThere => parent
  /\ moves \in Versions /\ stops \in 0..MaxStops
  /\ window \in [Places -> SUBSET Versions] /\ unseen \subseteq Places

(***************************************************************************)
(* What is sealed is whole: @ as it was at the snapshot, and each source   *)
(* of the layout as it was at some instant since, so that nothing in the   *)
(* baseline refers to a source as it had not been yet; whatever else the   *)
(* administrator does meanwhile.  A place whose shape changed between the  *)
(* engine's last look at it and its snapshot is not covered: the engine    *)
(* does not look at it again.                                              *)
(***************************************************************************)
SealedIsWhole == step = "sealed" => \A p \in Places \ unseen :
  /\ candidate[p] \in window[p]
  /\ p \notin layout => \A v \in window[p] : candidate[p] <= v

(***************************************************************************)
(* However a freeze was stopped and whatever it left, freezes get through  *)
(* again once the layout is and stays one that is supported.               *)
(***************************************************************************)
Supported == foreign = {} /\ subvols \cap Mounts \subseteq mounted
RetriesSeal == <>[]Supported => []<>(step = "sealed")
=============================================================================
