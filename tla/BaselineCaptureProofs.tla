----------------------- MODULE BaselineCaptureProofs -----------------------
(***************************************************************************)
(* What a sealed candidate is, for any places and any number of moves and  *)
(* stops.                                                                  *)
(***************************************************************************)
EXTENDS BaselineCapture, TLAPS

USE DEF GoTo, Places, Sources, Versions, Kinds

LEMMA FirstIn == \A S : S # {} => First(S) \in S
BY DEF First

\* The loops over the layout have something left to look at.
Capturing == {"look", "take"}
Copying == {"clear", "copy"}
LoopInv ==
  /\ step \in {"mounts", "unmounted", "nested"} => todo = {}
  /\ step \in Capturing \cup Copying => todo # {}
  /\ step = "parent" => layout # {}
  /\ step \in Capturing \cup Copying \cup {"uncapture"} => parent

-----------------------------------------------------------------------------
\* A move of the administrator is about one place.
LEMMA AdministratorMoves ==
  ASSUME TypeOK, Administrator
  PROVE  \E p \in Places :
           /\ Move(p)
           /\ unseen' \in {unseen, unseen \cup {p}}
           /\ \A q \in Places \ {p} :
                (q \in subvols' <=> q \in subvols) /\ (q \in foreign' <=> q \in foreign)
           /\ p \in unseen' \/ Settled(p) \/ UNCHANGED <<subvols, foreign>>
           /\ subvols' \subseteq Sources /\ mounted' \subseteq subvols' \cap Mounts
           /\ foreign' \subseteq subvols' \cup {Root}
<1> USE DEF TypeOK
<1>1. ASSUME NEW p \in Places, Write(p) \/ MakeForeign(p) \/ DeleteForeign(p)
      PROVE  /\ Move(p)
             /\ unseen' \in {unseen, unseen \cup {p}}
             /\ \A q \in Places \ {p} :
                  (q \in subvols' <=> q \in subvols) /\ (q \in foreign' <=> q \in foreign)
             /\ p \in unseen' \/ Settled(p) \/ UNCHANGED <<subvols, foreign>>
             /\ subvols' \subseteq Sources /\ mounted' \subseteq subvols' \cap Mounts
             /\ foreign' \subseteq subvols' \cup {Root}
  BY <1>1 DEF Write, MakeForeign, DeleteForeign, Reshape
<1>2. ASSUME NEW p \in Sources, MakeSubvolume(p) \/ DeleteSubvolume(p) \/ MountOrUnmount(p)
      PROVE  /\ Move(p)
             /\ unseen' \in {unseen, unseen \cup {p}}
             /\ \A q \in Places \ {p} :
                  (q \in subvols' <=> q \in subvols) /\ (q \in foreign' <=> q \in foreign)
             /\ p \in unseen' \/ Settled(p) \/ UNCHANGED <<subvols, foreign>>
             /\ subvols' \subseteq Sources /\ mounted' \subseteq subvols' \cap Mounts
             /\ foreign' \subseteq subvols' \cup {Root}
  BY <1>2 DEF MakeSubvolume, DeleteSubvolume, MountOrUnmount, Reshape
<1> QED BY <1>1, <1>2, Zenon DEF Administrator

LEMMA StepTyped == ASSUME TypeOK, LoopInv, [Next]_vars PROVE TypeOK' /\ LoopInv'
<1> USE DEF TypeOK, LoopInv, Capturing, Copying, Steps, LayoutSteps, CandidateSteps
<1> USE BoundAssumption
<1>0. todo # {} => First(todo) \in todo
  BY FirstIn
<1>1. CASE Start \/ Recover
  BY <1>1 DEF Start, Recover, data, history, Nothing, NoWindow
<1>2. CASE ReadMounts \/ CheckUnmounted \/ ListNested
  BY <1>2 DEF ReadMounts, CheckUnmounted, ListNested, data, history
<1>3. CASE CheckPath
  BY <1>0, <1>3 DEF CheckPath, data
<1>4. CASE SnapshotRoot
  <2>1. \A p \in Places : Taken(p) \in Versions \cup Kinds
    BY DEF Taken
  <2>2. candidate' \in [Places -> Versions \cup Kinds]
    BY <1>4, <2>1 DEF SnapshotRoot
  <2>3. window' \in [Places -> SUBSET Versions]
    BY <1>4 DEF SnapshotRoot
  <2> QED BY <1>4, <2>2, <2>3 DEF SnapshotRoot, data
<1>5. CASE CreateCapture \/ LookAgain
  BY <1>5 DEF CreateCapture, LookAgain, data, history
<1>6. CASE TakeSource
  <2>1. Taken(First(todo)) \in Versions \cup Kinds
    BY <1>0, <1>6 DEF TakeSource, Taken
  <2>2. captured' \in [Places -> Versions \cup Kinds]
    BY <1>6, <2>1 DEF TakeSource
  <2> QED BY <1>0, <1>6, <2>2 DEF TakeSource, Advance, data, history
<1>7. CASE ClearDestination \/ CopySource
  <2>1. candidate' \in [Places -> Versions \cup Kinds]
    BY <1>0, <1>7 DEF ClearDestination, CopySource
  <2> QED BY <1>0, <1>7, <2>1 DEF ClearDestination, CopySource, Advance, data, history
<1>8. CASE DropCapture \/ Seal \/ Publish
  BY <1>8 DEF DropCapture, Seal, Publish, data, history, Nothing, NoWindow
<1>9. CASE Refuse \/ UNCHANGED vars
  BY <1>9 DEF Refuse, vars, data, history
<1>10. CASE Stop
  <2>1. candidate' \in [Places -> Versions \cup Kinds]
    BY <1>0, <1>10 DEF Stop
  <2> QED BY <1>10, <2>1 DEF Stop, data, history
<1>11. CASE Administrator
  <2>1. PICK p \in Places :
           /\ Move(p)
           /\ unseen' \in {unseen, unseen \cup {p}}
           /\ subvols' \subseteq Sources /\ mounted' \subseteq subvols' \cap Mounts
           /\ foreign' \subseteq subvols' \cup {Root}
    BY <1>11, AdministratorMoves
  <2>2. moves' \in Versions
    BY <2>1 DEF Move
  <2>3. content' \in [Places -> Versions] /\ window' \in [Places -> SUBSET Versions]
    BY <2>1, <2>2 DEF Move
  <2> QED BY <2>1, <2>2, <2>3 DEF Move
<1> QED BY <1>1, <1>2, <1>3, <1>4, <1>5, <1>6, <1>7, <1>8, <1>9, <1>10, <1>11 DEF Next, Works

-----------------------------------------------------------------------------
(***************************************************************************)
(* What the engine has learnt of the layout, of every place that did not   *)
(* change its shape since.                                                 *)
(***************************************************************************)
LayoutInv ==
  /\ step \in {"nested", "paths", "snapshot"} =>
       \A s \in Mounts \ layout : s \in unseen \/ s \notin subvols
  /\ step \in {"paths", "snapshot"} =>
       \A p \in (Nested \ layout) \cup {Root} : p \in unseen \/ p \notin subvols \cup foreign
  /\ step \in LayoutSteps \cup {"snapshot", "parent"} => captured = Nothing
  /\ step \in Capturing => \A s \in todo : captured[s] = NotThere
  /\ step = "take" => First(todo) \in unseen \/ First(todo) \notin foreign

LEMMA StepLayout ==
  ASSUME TypeOK, LoopInv, LayoutInv, [Next]_vars
  PROVE  LayoutInv'
<1> USE DEF TypeOK, LayoutInv, LoopInv, Capturing, Copying, LayoutSteps
<1>0. todo # {} => First(todo) \in todo
  BY FirstIn
<1>1. CASE Start \/ Recover
  BY <1>1 DEF Start, Recover
<1>2. CASE ReadMounts
  BY <1>2 DEF ReadMounts
<1>3. CASE CheckUnmounted
  BY <1>3 DEF CheckUnmounted, data
<1>4. CASE ListNested
  BY <1>4, PlaceAssumption DEF ListNested, data
<1>5. CASE CheckPath
  BY <1>0, <1>5, PlaceAssumption DEF CheckPath, data
<1>6. CASE SnapshotRoot
  BY <1>6 DEF SnapshotRoot
<1>7. CASE CreateCapture
  BY <1>7 DEF CreateCapture, Nothing
<1>8. CASE LookAgain
  BY <1>8 DEF LookAgain, SourcePath, data
<1>9. CASE TakeSource
  <2>1. \A s \in todo \ {First(todo)} : captured'[s] = captured[s]
    BY <1>9 DEF TakeSource
  <2>2. step' = "clear" \/ (step' = "look" /\ todo' = todo \ {First(todo)})
    BY <1>9 DEF TakeSource, Advance
  <2> QED BY <1>9, <2>1, <2>2 DEF TakeSource
<1>10. CASE \/ ClearDestination \/ CopySource \/ DropCapture \/ Seal \/ Publish
            \/ Refuse \/ Stop
  <2>1. step' \in {"copy", "clear", "uncapture", "seal", "sealed", "idle"}
    BY <1>10 DEF ClearDestination, CopySource, Advance, DropCapture, Seal, Publish, Refuse, Stop
  <2> QED BY <2>1
<1>11. CASE Administrator
  <2>1. PICK p \in Places :
           /\ Move(p)
           /\ unseen' \in {unseen, unseen \cup {p}}
           /\ \A q \in Places \ {p} :
                (q \in subvols' <=> q \in subvols) /\ (q \in foreign' <=> q \in foreign)
           /\ p \in unseen' \/ Settled(p) \/ UNCHANGED <<subvols, foreign>>
    BY <1>11, AdministratorMoves
  <2>2. UNCHANGED <<step, todo, layout, captured>>
    BY <2>1 DEF Move
  <2>3. CASE step \notin {"nested", "paths", "snapshot"} \cup Capturing
    BY <2>2, <2>3
  <2>4. CASE step \in {"nested", "paths", "snapshot"}
    <3>1. ~Settled(p)
      BY <2>4 DEF Settled, CandidateSteps
    <3> QED BY <2>1, <2>2, <2>4, <3>1
  <2>5. CASE step \in Capturing
    <3>1. ASSUME p \in todo PROVE ~Settled(p)
      BY <2>5, <3>1 DEF Settled
    <3> QED BY <1>0, <2>1, <2>2, <2>5, <3>1
  <2> QED BY <2>3, <2>4, <2>5
<1>12. CASE UNCHANGED vars
  BY <1>12 DEF vars, data, history
<1> QED BY <1>1, <1>2, <1>3, <1>4, <1>5, <1>6, <1>7, <1>8, <1>9, <1>10, <1>11, <1>12
  DEF Next, Works

-----------------------------------------------------------------------------
(***************************************************************************)
(* What is in the candidate and in the captures, against what was there.   *)
(***************************************************************************)
Numbered == \A p \in Places : content[p] <= moves
WindowInv == \A p \in Places :
  content[p] \in window[p] /\ \A v \in window[p] : v <= moves
FromRoot == \A p \in Places \ layout : p \in unseen \/
  (candidate[p] \in window[p] /\ \A v \in window[p] : candidate[p] <= v)
Whole(s, copy) == s \in unseen \/ copy[s] \in window[s]

CandidateInv ==
  /\ Numbered
  /\ step \in CandidateSteps => WindowInv /\ FromRoot
  /\ step \in Capturing => \A s \in layout \ todo : Whole(s, captured)
  /\ step \in Copying \cup {"uncapture"} => \A s \in layout : Whole(s, captured)
  /\ step \in Copying => \A s \in layout \ todo : candidate[s] = captured[s]
  /\ step = "uncapture" => \A s \in layout : candidate[s] = captured[s]
  /\ step \in {"seal", "sealed"} => \A s \in layout : Whole(s, candidate)

LEMMA StepCandidate ==
  ASSUME TypeOK, LoopInv, LayoutInv, CandidateInv, [Next]_vars
  PROVE  CandidateInv'
<1> USE DEF TypeOK, LoopInv, Capturing, Copying, CandidateSteps
<1>0. todo # {} => First(todo) \in todo
  BY FirstIn
<1>1. CASE \/ Start \/ Recover \/ ReadMounts \/ CheckUnmounted \/ ListNested \/ CheckPath
           \/ Publish \/ Refuse \/ Stop
  <2>1. step' \in {"recover", "mounts", "unmounted", "nested", "paths", "snapshot", "idle"}
    BY <1>1 DEF Start, Recover, ReadMounts, CheckUnmounted, ListNested, CheckPath, Publish,
       Refuse, Stop
  <2>2. UNCHANGED <<content, moves>>
    BY <1>1 DEF Start, Recover, ReadMounts, CheckUnmounted, ListNested, CheckPath, Publish,
       Refuse, Stop, data
  <2> QED BY <2>1, <2>2 DEF CandidateInv, Numbered
<1>2. CASE SnapshotRoot
  <2>1. /\ step' \in {"seal", "parent"} /\ step = "snapshot" /\ UNCHANGED <<layout, unseen, moves>>
        /\ step' = "seal" => layout = {}
        /\ UNCHANGED data
    BY <1>2 DEF SnapshotRoot
  <2>2. \A p \in Places : window'[p] = {content[p]}
    BY <1>2 DEF SnapshotRoot
  <2>3. WindowInv' /\ Numbered'
    BY <2>1, <2>2 DEF WindowInv, CandidateInv, Numbered, data
  <2>4. FromRoot'
    <3>1. ASSUME NEW p \in Places \ layout, p \notin unseen
          PROVE  candidate'[p] = content[p]
      <4>1. p \notin subvols
        BY <2>1, <3>1 DEF LayoutInv
      <4>2. p \notin foreign
        BY <2>1, <3>1, <4>1 DEF LayoutInv
      <4> QED BY <1>2, <4>1, <4>2 DEF SnapshotRoot, Taken
    <3> QED BY <2>1, <2>2, <3>1 DEF FromRoot
  <2> QED BY <2>1, <2>3, <2>4 DEF CandidateInv
<1>3. CASE CreateCapture
  <2>1. /\ step' = "look" /\ step = "parent" /\ todo' = layout
        /\ UNCHANGED <<layout, unseen, moves, content, window, candidate>>
    BY <1>3 DEF CreateCapture, data, history
  <2> QED BY <2>1 DEF CandidateInv, WindowInv, FromRoot, Numbered
<1>4. CASE LookAgain
  <2>1. /\ step' = "take" /\ step = "look"
        /\ unseen' = unseen \ {First(todo)}
        /\ UNCHANGED <<todo, layout, moves, content, window, candidate, captured>>
    BY <1>4 DEF LookAgain, data
  <2>2. First(todo) \in layout /\ First(todo) \in todo
    BY <1>0, <2>1
  <2> QED BY <2>1, <2>2 DEF CandidateInv, WindowInv, FromRoot, Whole, Numbered
<1>5. CASE TakeSource
  <2>1. /\ step = "take" /\ First(todo) \in todo
        /\ UNCHANGED <<layout, moves, content, window, candidate, unseen>>
    BY <1>0, <1>5 DEF TakeSource, data, history
  <2>2. \A s \in layout : captured'[s] = IF s = First(todo) THEN Taken(s) ELSE captured[s]
    BY <1>5 DEF TakeSource
  <2>3. \A s \in layout \ (todo \ {First(todo)}) : Whole(s, captured)'
    BY <2>1, <2>2 DEF CandidateInv, WindowInv, Whole, LayoutInv, Taken
  <2>4. \/ step' = "clear" /\ todo' = layout /\ todo \ {First(todo)} = {}
        \/ step' = "look" /\ todo' = todo \ {First(todo)}
    BY <1>5 DEF TakeSource, Advance
  <2> QED BY <2>1, <2>3, <2>4 DEF CandidateInv, WindowInv, FromRoot, Numbered
<1>6. CASE ClearDestination
  <2>1. /\ step = "clear" /\ step' = "copy" /\ First(todo) \in todo
        /\ UNCHANGED <<todo, layout, moves, content, window, captured, unseen>>
    BY <1>0, <1>6 DEF ClearDestination, data, history
  <2>2. \A p \in Places \ {First(todo)} : candidate'[p] = candidate[p]
    BY <1>6 DEF ClearDestination
  <2> QED BY <2>1, <2>2 DEF CandidateInv, WindowInv, FromRoot, Whole, Numbered
<1>7. CASE CopySource
  <2>1. /\ step = "copy" /\ First(todo) \in todo
        /\ UNCHANGED <<layout, moves, content, window, captured, unseen>>
    BY <1>0, <1>7 DEF CopySource, data, history
  <2>2. \A p \in Places : candidate'[p] = IF p = First(todo) THEN captured[p] ELSE candidate[p]
    BY <1>7 DEF CopySource
  <2>3. \/ step' = "uncapture" /\ todo \ {First(todo)} = {}
        \/ step' = "clear" /\ todo' = todo \ {First(todo)}
    BY <1>7 DEF CopySource, Advance
  <2> QED BY <2>1, <2>2, <2>3 DEF CandidateInv, WindowInv, FromRoot, Whole, Numbered
<1>8. CASE DropCapture
  <2>1. /\ step = "uncapture" /\ step' = "seal"
        /\ UNCHANGED <<layout, moves, content, window, candidate, unseen>>
    BY <1>8 DEF DropCapture, data, history
  <2> QED BY <2>1 DEF CandidateInv, WindowInv, FromRoot, Whole, Numbered
<1>9. CASE Seal \/ UNCHANGED vars
  BY <1>9 DEF Seal, vars, data, history, CandidateInv, WindowInv, FromRoot, Whole, Numbered
<1>10. CASE Administrator
  <2>1. PICK p \in Places :
           /\ Move(p)
           /\ unseen' \in {unseen, unseen \cup {p}}
    BY <1>10, AdministratorMoves
  <2>2. /\ UNCHANGED <<step, todo, layout, captured, candidate>>
        /\ moves' = moves + 1
        /\ \A q \in Places : content'[q] = IF q = p THEN moves' ELSE content[q]
    BY <2>1 DEF Move
  <2>3. Numbered'
    BY <2>2 DEF CandidateInv, Numbered
  <2>4. CASE step \notin CandidateSteps
    BY <2>2, <2>3, <2>4 DEF CandidateInv
  <2>5. CASE step \in CandidateSteps
    <3>1. \A q \in Places : window'[q] = IF q = p THEN window[q] \cup {moves'} ELSE window[q]
      BY <2>1, <2>5 DEF Move
    <3>2. WindowInv /\ FromRoot
      BY <2>5 DEF CandidateInv
    <3>0. moves \in Nat /\ \A q \in Places : content[q] \in Nat /\ window[q] \subseteq Nat
      OBVIOUS
    <3>3. WindowInv'
      <4>1. ASSUME NEW q \in Places
            PROVE  content'[q] \in window'[q] /\ \A v \in window'[q] : v <= moves'
        <5>1. content[q] \in window[q] /\ \A v \in window[q] : v \in Nat /\ v <= moves
          BY <3>0, <3>2 DEF WindowInv
        <5>2. moves' = moves + 1 /\ moves \in Nat
          BY <2>2, <3>0
        <5>3. \A v \in window[q] : v <= moves'
          BY ONLY <5>1, <5>2
        <5>4. moves' <= moves'
          BY <5>2
        <5>5. /\ content'[q] = IF q = p THEN moves' ELSE content[q]
              /\ window'[q] = IF q = p THEN window[q] \cup {moves'} ELSE window[q]
          BY <2>2, <3>1
        <5>6. content[q] \in window[q]
          BY <5>1
        <5> QED BY ONLY <5>3, <5>4, <5>5, <5>6
      <4> QED BY <4>1 DEF WindowInv
    <3>4. FromRoot'
      <4>1. ASSUME NEW q \in Places \ layout, q \notin unseen'
            PROVE  candidate[q] \in window'[q] /\ \A v \in window'[q] : candidate[q] <= v
        <5>1. candidate[q] \in window[q] /\ \A v \in window[q] : candidate[q] <= v
          BY <2>1, <3>2, <4>1 DEF FromRoot
        <5>2. candidate[q] \in Nat /\ candidate[q] <= moves
          BY <3>0, <3>2, <5>1 DEF WindowInv
        <5>3. candidate[q] <= moves'
          BY ONLY <2>2, <3>0, <5>2
        <5> QED BY <3>1, <5>1, <5>3, ZenonT(40)
      <4> QED BY <2>2, <4>1 DEF FromRoot
    <3>5. \A s \in layout : /\ Whole(s, captured) => Whole(s, captured)'
                            /\ Whole(s, candidate) => Whole(s, candidate)'
      BY <2>1, <2>2, <3>1 DEF Whole
    <3> QED BY <2>2, <2>3, <3>3, <3>4, <3>5 DEF CandidateInv
  <2> QED BY <2>4, <2>5
<1> QED BY <1>1, <1>2, <1>3, <1>4, <1>5, <1>6, <1>7, <1>8, <1>9, <1>10 DEF Next, Works

-----------------------------------------------------------------------------
(***************************************************************************)
(* The theorems.                                                           *)
(***************************************************************************)
IInv == TypeOK /\ LoopInv /\ LayoutInv /\ CandidateInv

LEMMA InitInv == Init => IInv
<1> USE DEF Init
<1>1. Init => TypeOK
  <2> SUFFICES ASSUME Init PROVE TypeOK
    OBVIOUS
  <2>1. content \in [Places -> Versions] /\ moves \in Versions /\ stops \in 0..MaxStops
    BY BoundAssumption
  <2>2. /\ captured \in [Places -> Versions \cup Kinds]
        /\ candidate \in [Places -> Versions \cup Kinds]
        /\ \A p \in Places : captured[p] = NotThere
    BY DEF Nothing
  <2>3. window \in [Places -> SUBSET Versions]
    BY DEF NoWindow
  <2>4. /\ subvols \subseteq Sources /\ mounted \subseteq subvols \cap Mounts
        /\ foreign = {} /\ todo = {} /\ layout = {} /\ unseen = {} /\ parent \in BOOLEAN
    OBVIOUS
  <2>5. step \in Steps
    BY DEF Steps
  <2> QED BY <2>1, <2>2, <2>3, <2>4, <2>5 DEF TypeOK
<1>2. Init => LoopInv /\ LayoutInv /\ CandidateInv
  BY DEF LoopInv, LayoutInv, CandidateInv, Numbered, Capturing, Copying, LayoutSteps,
     CandidateSteps
<1> QED BY <1>1, <1>2 DEF IInv

\* The inductive invariant: what the engine has learnt of the layout, and what it has made.
THEOREM InvariantHolds == Spec => []IInv
<1>1. IInv /\ [Next]_vars => IInv'
  BY StepTyped, StepLayout, StepCandidate DEF IInv
<1> QED BY <1>1, InitInv, PTL DEF Spec

\* Every variable of the capture stays in its type; no capture is without its parent.
THEOREM TypeCorrect == Spec => []TypeOK
<1>1. IInv => TypeOK
  BY DEF IInv
<1> QED BY <1>1, InvariantHolds, PTL

\* What is sealed is @ at the snapshot, and each source at some instant since.
THEOREM SealedComplete == Spec => []SealedIsWhole
<1>1. IInv => SealedIsWhole
  <2> SUFFICES ASSUME IInv, step = "sealed", NEW p \in Places \ unseen
               PROVE  /\ candidate[p] \in window[p]
                      /\ p \notin layout => \A v \in window[p] : candidate[p] <= v
    BY DEF SealedIsWhole
  <2> QED BY DEF IInv, CandidateInv, CandidateSteps, FromRoot, Whole
<1> QED BY <1>1, InvariantHolds, PTL
=============================================================================
