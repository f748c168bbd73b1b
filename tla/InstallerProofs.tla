-------------------------- MODULE InstallerProofs --------------------------
(***************************************************************************)
(* What the installer promises for any set of trees and any number of      *)
(* failures and kills.                                                     *)
(***************************************************************************)
EXTENDS Installer, TLAPS

USE DEF Releases, Contents, GoTo

LEMMA FirstIn == \A S : S # {} => First(S) \in S
BY DEF First

\* The steps of the loop over the trees, and those that follow it.
Loop == {"stage", "retire", "out", "in"}
Built == {"files", "boot", "check"}

LEMMA StepSets ==
  /\ Trapped = {"tool"} \cup Loop \cup Built
  /\ Steps = {"idle"} \cup Trapped \cup Committed \cup Rollback
BY DEF Trapped, Loop, Built, Steps

-----------------------------------------------------------------------------
LEMMA PartlyTyped ==
  ASSUME TypeOK, Partly, step = "stage" \/ step = "retire" \/ step = "drop" => left # {}
  PROVE  /\ {tool', files', boot'} \subseteq Contents
         /\ {tree', previous', next'} \subseteq [Trees -> Contents]
         /\ legacy' \in {"none", "whole", "begun", "gone"}
<1> USE DEF TypeOK
<1> DEFINE t == First(left)
<1>1. tool' \in Contents /\ files' \in Contents /\ boot' \in Contents
  BY DEF Partly, Some
<1>2. legacy' \in {"none", "whole", "begun", "gone"}
  BY DEF Partly
<1>3. \A f \in [Trees -> Contents] : [f EXCEPT ![t] = "mixed"] \in [Trees -> Contents]
  OBVIOUS
<1>4. tree' \in {tree, [tree EXCEPT ![t] = "mixed"]}
      /\ next' \in {next, [next EXCEPT ![t] = "mixed"]}
  BY DEF Partly, SomeOf
<1>5. previous' \in {previous, [previous EXCEPT ![t] = "mixed"]} \cup [Trees -> {"none", "mixed"}]
  BY DEF Partly, SomeOf
<1>6. [Trees -> {"none", "mixed"}] \subseteq [Trees -> Contents]
  OBVIOUS
<1> QED BY <1>1, <1>2, <1>3, <1>4, <1>5, <1>6

\* The run knows the .previous of every tree that it moves.
StagedFirst == step \in {"retire", "out", "in"} => First(left) \in staged

LEMMA StepTyped == ASSUME TypeOK, StagedFirst, [Next]_vars PROVE TypeOK' /\ StagedFirst'
<1> USE DEF TypeOK, StagedFirst, Steps, Trapped, Committed, Rollback, Outcomes
<1>0. /\ left # {} => First(left) \in left /\ First(left) \in Trees
      /\ Trees # {}
  BY FirstIn, TreeAssumption
<1>1. CASE Begin
  BY <1>1 DEF Begin, Found, payload
<1>2. CASE InstallTool
  BY <1>0, <1>2 DEF InstallTool, history
<1>3. CASE Stage
  BY <1>0, <1>3 DEF Stage, history
<1>4. CASE Retire
  BY <1>0, <1>4 DEF Retire, history
<1>5. CASE MoveOut
  BY <1>0, <1>5 DEF MoveOut, Moved, history
<1>6. CASE MoveIn
  BY <1>0, <1>6 DEF MoveIn, history
<1>7. CASE InstallFiles \/ BuildBoot \/ Check \/ Migrate \/ RetireUnits
  BY <1>7 DEF InstallFiles, BuildBoot, Check, Migrate, RetireUnits, history, payload
<1>8. CASE Clean
  BY <1>8 DEF Clean, history
<1>9. CASE Restore
  BY <1>0, <1>9 DEF Restore, history
<1>10. CASE Drop
  BY <1>0, <1>10 DEF Drop, history
<1>11. CASE Back
  BY <1>0, <1>11 DEF Back, Onward, Moved, history
<1>12. CASE Rebuild
  BY <1>12 DEF Rebuild, history
<1>13. CASE Fails \/ FailsCommitted \/ FailsInRollback \/ Killed
  <2>1. Partly /\ failures' \in 0..MaxFailures
    BY <1>13, FailureAssumption DEF Fails, FailsCommitted, FailsInRollback, Killed, Count
  <2>2. /\ {tool', files', boot'} \subseteq Contents
        /\ {tree', previous', next'} \subseteq [Trees -> Contents]
        /\ legacy' \in {"none", "whole", "begun", "gone"}
    BY <2>1, PartlyTyped
  <2>3. start' = start /\ swapped' = swapped
    BY <1>13 DEF Fails, FailsCommitted, FailsInRollback, Killed
  <2>4. CASE Fails
    BY <1>0, <2>1, <2>2, <2>3, <2>4 DEF Fails
  <2>5. CASE FailsCommitted
    BY <2>1, <2>2, <2>3, <2>5 DEF FailsCommitted
  <2>6. CASE FailsInRollback
    BY <1>0, <2>1, <2>2, <2>3, <2>6 DEF FailsInRollback, Onward
  <2>7. CASE Killed
    BY <2>1, <2>2, <2>3, <2>7 DEF Killed
  <2> QED BY <1>13, <2>4, <2>5, <2>6, <2>7
<1>14. CASE UNCHANGED vars
  BY <1>14 DEF vars, payload, run, history
<1> QED BY <1>1, <1>2, <1>3, <1>4, <1>5, <1>6, <1>7, <1>8, <1>9, <1>10, <1>11, <1>12, <1>13,
           <1>14 DEF Next

-----------------------------------------------------------------------------
(***************************************************************************)
(* Where each tree is in a run, between what the run found and what it     *)
(* installs.                                                               *)
(***************************************************************************)
InPlace(t) ==
  /\ tree[t] = start.tree[t]
  /\ previous[t] # "none" => start.previous[t] # "none"
MovedOut(t) == tree[t] = "none" /\ previous[t] = start.tree[t]
MovedIn(t) == tree[t] = "new" /\ previous[t] = start.tree[t] /\ next[t] = "none"

TreeRun(t) ==
  IF t \in swapped THEN MovedIn(t)
  ELSE InPlace(t) \/ (step = "in" /\ t = First(left) /\ MovedOut(t))

RunInv ==
  /\ step \in Loop \cup Built \cup Committed => tool = "new"
  /\ step \in {"boot", "check"} \cup Committed => files = "new"
  /\ step \in {"check"} \cup Committed => boot = "new"
  /\ step \in Committed => \A t \in Trees : tree[t] = "new" /\ next[t] = "none"
  /\ step \in {"units", "clean"} => legacy \in {"none", "gone"}
  /\ step \in Trapped => \A t \in Trees : TreeRun(t)
  /\ step = "tool" => staged = {} /\ swapped = {}
  /\ step \in Loop => swapped = Trees \ left
  /\ step \in Built => swapped = Trees
  /\ step \in {"retire", "out", "in"} => next[First(left)] = "new"
  /\ step = "out" => previous[First(left)] = "none"
  /\ step = "in" => MovedOut(First(left))

\* What a command that is cut short changes of a tree.
LEMMA PartlyTrees ==
  ASSUME TypeOK, Partly, NEW t \in Trees
  PROVE  /\ step # "drop" => tree'[t] = tree[t]
         /\ tree'[t] \in {tree[t], "mixed"}
         /\ step # "stage" => next'[t] = next[t]
         /\ next'[t] \in {next[t], "mixed"}
         /\ step \notin {"retire", "clean"} => previous'[t] = previous[t]
         /\ previous'[t] \in {previous[t], "mixed", "none"}
         /\ step = "retire" =>
              previous'[t] = previous[t] \/ (previous[t] # "none" /\ t = First(left))
         /\ step \notin {"tool", "restore"} => tool' = tool
         /\ step \notin {"files", "restore"} => files' = files
         /\ tool' \in {tool, "mixed"}
         /\ legacy' # legacy => legacy' = "begun" /\ step = "migrate"
<1> DEFINE u == First(left)
<1>1. tree' = tree \/ (step = "drop" /\ tree' = [tree EXCEPT ![u] = "mixed"])
  BY DEF Partly, SomeOf
<1>2. next' = next \/ (step = "stage" /\ next' = [next EXCEPT ![u] = "mixed"])
  BY DEF Partly, SomeOf
<1>3. \/ previous' = previous
      \/ step = "retire" /\ previous[u] # "none" /\ previous' = [previous EXCEPT ![u] = "mixed"]
      \/ step = "clean" /\ previous' \in [Trees -> {"none", "mixed"}]
  BY DEF Partly, SomeOf
<1>4. /\ step \notin {"tool", "restore"} => tool' = tool
      /\ step \notin {"files", "restore"} => files' = files
      /\ tool' \in {tool, "mixed"}
      /\ legacy' # legacy => legacy' = "begun" /\ step = "migrate"
  BY DEF Partly, Some
<1>5. tree \in [Trees -> Contents] /\ next \in [Trees -> Contents] /\ previous \in [Trees -> Contents]
  BY DEF TypeOK
<1>6. /\ step # "drop" => tree'[t] = tree[t]
      /\ tree'[t] \in {tree[t], "mixed"}
  BY <1>1, <1>5
<1>7. /\ step # "stage" => next'[t] = next[t]
      /\ next'[t] \in {next[t], "mixed"}
  BY <1>2, <1>5
<1>8. /\ step \notin {"retire", "clean"} => previous'[t] = previous[t]
      /\ previous'[t] \in {previous[t], "mixed", "none"}
      /\ step = "retire" => previous'[t] = previous[t] \/ (previous[t] # "none" /\ t = First(left))
  BY <1>3, <1>5
<1> QED BY <1>4, <1>6, <1>7, <1>8

LEMMA StepRun == ASSUME TypeOK, StagedFirst, RunInv, [Next]_vars PROVE RunInv'
<1> USE DEF TypeOK, StagedFirst, Trapped, Loop, Built, Committed
<1> USE DEF InPlace, MovedOut, MovedIn
<1>0. left # {} => First(left) \in left /\ First(left) \in Trees
  BY FirstIn
<1>1. CASE Begin
  BY <1>1 DEF Begin, Found, payload, RunInv, TreeRun
<1>2. CASE InstallTool
  BY <1>2 DEF InstallTool, history, RunInv, TreeRun
<1>3. CASE Stage
  <2>1. \A t \in Trees : TreeRun(t) => TreeRun(t)'
    <3>1. \A t \in Trees : t \in swapped => t \notin left
      BY <1>3 DEF Stage, RunInv
    <3>2. \A t \in Trees : t \in swapped => next'[t] = next[t]
      BY <1>0, <1>3, <3>1 DEF Stage
    <3> QED BY <1>3, <3>2 DEF Stage, TreeRun
  <2>2. next'[First(left)] = "new"
    BY <1>0, <1>3 DEF Stage
  <2>3. left' = left /\ swapped' = swapped /\ tool' = tool /\ step' = "retire" /\ step = "stage"
    BY <1>3 DEF Stage
  <2> QED BY <2>1, <2>2, <2>3 DEF RunInv
<1>4. CASE Retire
  <2>1. \A t \in Trees : TreeRun(t) => TreeRun(t)'
    <3>1. \A t \in Trees : t \in swapped => t \notin left
      BY <1>4 DEF Retire, RunInv
    <3>2. \A t \in Trees : previous'[t] = IF t = First(left) THEN "none" ELSE previous[t]
      BY <1>4 DEF Retire
    <3> QED BY <1>0, <1>4, <3>1, <3>2 DEF Retire, TreeRun
  <2>2. previous'[First(left)] = "none"
    BY <1>0, <1>4 DEF Retire
  <2>3. /\ left' = left /\ swapped' = swapped /\ tool' = tool /\ next' = next
        /\ step' = "out" /\ step = "retire"
    BY <1>4 DEF Retire
  <2> QED BY <2>1, <2>2, <2>3 DEF RunInv
<1>5. CASE MoveOut
  <2>0. step = "out" /\ previous[First(left)] = "none"
    BY <1>5 DEF MoveOut, RunInv
  <2>1. /\ \A t \in Trees : tree'[t] = IF t = First(left) THEN "none" ELSE tree[t]
        /\ \A t \in Trees : previous'[t] = IF t = First(left) THEN tree[t] ELSE previous[t]
    BY <1>5, <2>0 DEF MoveOut, Moved
  <2>2. /\ left' = left /\ swapped' = swapped /\ tool' = tool /\ next' = next /\ start' = start
        /\ step' = "in"
    BY <1>5 DEF MoveOut
  <2>3. \A t \in Trees : t \in swapped => t # First(left)
    BY <1>0, <2>0 DEF RunInv
  <2>4. \A t \in Trees : TreeRun(t) => TreeRun(t)'
    BY <2>0, <2>1, <2>2, <2>3 DEF TreeRun
  <2>5. First(left) \in Trees /\ tree[First(left)] = start.tree[First(left)]
    <3>1. First(left) \in Trees /\ First(left) \notin swapped /\ \A t \in Trees : TreeRun(t)
      BY <1>0, <2>0, <2>3 DEF RunInv
    <3>2. TreeRun(First(left))
      BY <3>1, Zenon
    <3> QED BY <2>0, <3>1, <3>2 DEF TreeRun
  <2>6. MovedOut(First(left))'
    BY <2>1, <2>2, <2>5
  <2> QED BY <1>0, <2>0, <2>1, <2>2, <2>4, <2>6 DEF RunInv
<1>6. CASE MoveIn
  <2>0. step = "in" /\ next[First(left)] = "new" /\ First(left) \in left /\ First(left) \in Trees
    BY <1>0, <1>6 DEF MoveIn, RunInv
  <2>1. /\ \A t \in Trees : tree'[t] = IF t = First(left) THEN "new" ELSE tree[t]
        /\ \A t \in Trees : next'[t] = IF t = First(left) THEN "none" ELSE next[t]
    BY <1>6, <2>0 DEF MoveIn
  <2>2. /\ left' = left \ {First(left)} /\ swapped' = swapped \cup {First(left)} /\ tool' = tool
        /\ previous' = previous /\ start' = start
        /\ step' = IF left = {First(left)} THEN "files" ELSE "stage"
    BY <1>6 DEF MoveIn
  <2>3. MovedOut(First(left)) /\ First(left) \notin swapped /\ swapped = Trees \ left
    BY <2>0 DEF RunInv
  <2>6. \A t \in Trees : TreeRun(t) => TreeRun(t)'
    BY <2>0, <2>1, <2>2, <2>3 DEF TreeRun
  <2>7. swapped' = Trees \ left' /\ (step' = "files" => swapped' = Trees)
    BY <2>0, <2>2, <2>3
  <2> QED BY <2>0, <2>2, <2>6, <2>7 DEF RunInv
<1>7. CASE InstallFiles \/ BuildBoot
  <2>1. \A t \in Trees : TreeRun(t) => TreeRun(t)'
    BY <1>7 DEF InstallFiles, BuildBoot, TreeRun
  <2> QED BY <1>7, <2>1 DEF InstallFiles, BuildBoot, RunInv
<1>8. CASE Check
  BY <1>8 DEF Check, history, payload, RunInv, TreeRun
<1>9. CASE Migrate \/ RetireUnits
  BY <1>9 DEF Migrate, RetireUnits, payload, RunInv
<1>10. CASE Clean \/ Restore \/ Drop \/ Back \/ Rebuild
  <2>1. step' \in {"idle", "drop", "back", "rebuild"}
    BY <1>10 DEF Clean, Restore, Drop, Back, Onward, Rebuild
  <2> QED BY <2>1 DEF RunInv
<1>11. CASE Fails \/ FailsCommitted \/ FailsInRollback \/ Killed
  <2>1. step' \in {"restore", "idle", "drop", "back", "rebuild"}
    BY <1>11 DEF Fails, FailsCommitted, FailsInRollback, Killed, Onward
  <2> QED BY <2>1 DEF RunInv
<1>12. CASE UNCHANGED vars
  BY <1>12 DEF vars, payload, run, history, RunInv, TreeRun
<1> QED BY <1>1, <1>2, <1>3, <1>4, <1>5, <1>6, <1>7, <1>8, <1>9, <1>10, <1>11, <1>12 DEF Next

-----------------------------------------------------------------------------
(***************************************************************************)
(* The way back: what the trap can still find of each tree, and what it    *)
(* has put back.                                                           *)
(***************************************************************************)
Recoverable(t) ==
  IF t \in swapped THEN previous[t] = start.tree[t]
  ELSE InPlace(t) \/ (t \in staged /\ MovedOut(t))
Restored(t) == InPlace(t) \/ (start.tree[t] = "none" /\ start.previous[t] # "none")

IsRestored == step = "idle" /\ outcome = "restored"

RollbackInv == ~botched =>
  /\ step = "restore" => \A t \in Trees : Recoverable(t)
  /\ step \in {"drop", "back"} =>
       \A t \in Trees : IF t \in left THEN Recoverable(t) ELSE Restored(t)
  /\ step = "back" /\ First(left) \in swapped => tree[First(left)] = "none"
  /\ step = "rebuild" \/ IsRestored => \A t \in Trees : Restored(t)
  /\ step \in {"drop", "back", "rebuild"} \/ IsRestored =>
       tool = start.tool /\ files = start.files
  /\ IsRestored => boot = start.boot

LEMMA StepRollback ==
  ASSUME TypeOK, StagedFirst, RunInv, RollbackInv, [Next]_vars
  PROVE  RollbackInv'
<1> USE DEF TypeOK, InPlace, MovedOut, MovedIn
<1>0. left # {} => First(left) \in left /\ First(left) \in Trees
  BY FirstIn
<1>1. CASE \/ Begin \/ InstallTool \/ Stage \/ Retire \/ MoveOut \/ MoveIn \/ InstallFiles
           \/ BuildBoot \/ Check \/ Migrate \/ RetireUnits \/ Clean \/ FailsCommitted \/ Killed
  <2>1. step' \notin Rollback /\ ~IsRestored'
    BY <1>1 DEF Begin, InstallTool, Stage, Retire, MoveOut, MoveIn, InstallFiles, BuildBoot,
       Check, Migrate, RetireUnits, Clean, FailsCommitted, Killed, Rollback, IsRestored
  <2> QED BY <2>1 DEF RollbackInv, Rollback
<1>2. CASE Restore
  <2>1. \A t \in Trees : Recoverable(t) => Recoverable(t)'
    BY <1>2 DEF Restore, Recoverable
  <2>2. /\ step = "restore" /\ step' = "drop" /\ left' = Trees /\ botched' = botched
        /\ start' = start /\ tool' = start.tool /\ files' = start.files
    BY <1>2 DEF Restore, history
  <2> QED BY <2>1, <2>2 DEF RollbackInv, IsRestored
<1>3. CASE Drop
  <2>1. /\ step = "drop" /\ step' = "back" /\ left' = left /\ botched' = botched
        /\ UNCHANGED <<swapped, staged, start, tool, files, previous>>
    BY <1>3 DEF Drop, history
  <2>2. \A t \in Trees : tree'[t] =
          IF t = First(left) /\ t \in swapped THEN "none" ELSE tree[t]
    BY <1>3 DEF Drop
  <2>3. \A t \in Trees : Recoverable(t) => Recoverable(t)'
    BY <2>1, <2>2 DEF Recoverable
  <2>4. \A t \in Trees : t \notin left /\ Restored(t) => Restored(t)'
    BY <1>0, <2>1, <2>2 DEF Restored
  <2> QED BY <1>0, <2>1, <2>2, <2>3, <2>4 DEF RollbackInv, IsRestored
<1>4. CASE Back
  <2>0. step = "back" /\ First(left) \in left /\ First(left) \in Trees
    BY <1>0, <1>4 DEF Back
  <2>1. /\ UNCHANGED <<swapped, staged, start, tool, files>>
        /\ left' = left \ {First(left)} /\ botched' = botched
        /\ step' = IF left = {First(left)} THEN "rebuild" ELSE "drop"
    BY <1>4 DEF Back, Onward, history
  <2>2. \A t \in Trees \ {First(left)} : tree'[t] = tree[t] /\ previous'[t] = previous[t]
    BY <1>4 DEF Back
  <2>3. \A t \in Trees \ {First(left)} :
          /\ Recoverable(t) => Recoverable(t)'
          /\ Restored(t) => Restored(t)'
    BY <2>1, <2>2 DEF Recoverable, Restored
  <2>4. ASSUME ~botched, NEW u \in Trees, u = First(left)
        PROVE  Restored(u)'
    <3>1. Recoverable(u)
      <4>1. \A t \in Trees : t \in left => Recoverable(t)
        BY <2>0, <2>4 DEF RollbackInv
      <4> QED BY <2>0, <2>4, <4>1, Zenon
    <3>2. u \in swapped => tree[u] = "none"
      BY <2>0, <2>4 DEF RollbackInv
    <3>3. CASE u \in staged
      <4>1. tree'[u] = (IF previous[u] # "none" /\ tree[u] = "none" THEN previous[u] ELSE tree[u])
            /\ previous'[u] = "none"
        BY <1>4, <2>0, <2>4, <3>3 DEF Back, Moved
      <4> QED BY <2>1, <3>1, <3>2, <4>1 DEF Recoverable, Restored
    <3>4. CASE u \notin staged
      <4>1. UNCHANGED <<tree, previous>> /\ u \notin swapped
        BY <1>4, <2>4, <3>4 DEF Back
      <4> QED BY <2>1, <3>1, <3>4, <4>1 DEF Recoverable, Restored
    <3> QED BY <3>3, <3>4
  <2>5. ASSUME ~botched, NEW t \in Trees
        PROVE  IF t \in left' THEN Recoverable(t)' ELSE Restored(t)'
    <3>1. CASE t = First(left)
      BY <2>1, <2>4, <2>5, <3>1
    <3>2. CASE t # First(left)
      BY <2>0, <2>1, <2>3, <2>5, <3>2 DEF RollbackInv
    <3> QED BY <3>1, <3>2
  <2>6. left = {First(left)} => left' = {}
    BY <2>1
  <2> QED BY <2>0, <2>1, <2>5, <2>6 DEF RollbackInv, IsRestored
<1>5. CASE Rebuild
  <2>1. /\ step = "rebuild" /\ step' = "idle" /\ boot' = start.boot /\ botched' = botched
        /\ UNCHANGED <<tool, files, tree, previous, start>>
    BY <1>5 DEF Rebuild, history
  <2>2. \A t \in Trees : Restored(t) => Restored(t)'
    BY <2>1 DEF Restored
  <2> QED BY <2>1, <2>2 DEF RollbackInv, IsRestored
<1>6. CASE Fails
  <2>1. /\ step \in Trapped /\ step' = "restore" /\ Partly /\ botched' = botched
        /\ start' = start /\ swapped' = swapped /\ staged \subseteq staged'
    BY <1>6 DEF Fails
  <2>2. ASSUME NEW t \in Trees
        PROVE  Recoverable(t)'
    <3>1. TreeRun(t)
      BY <2>1 DEF RunInv
    <3>2. /\ tree'[t] = tree[t]
          /\ previous'[t] = previous[t] \/ (previous[t] # "none" /\ t = First(left) /\ step = "retire")
      BY <2>1, PartlyTrees DEF Trapped
    <3>3. step = "retire" /\ t = First(left) => t \notin swapped
      BY <1>0, <2>1 DEF RunInv, Loop
    <3>4. step = "in" /\ t = First(left) => t \in staged
      BY DEF StagedFirst
    <3> QED BY <2>1, <3>1, <3>2, <3>3, <3>4 DEF TreeRun, Recoverable
  <2> QED BY <2>1, <2>2 DEF RollbackInv, IsRestored
<1>7. CASE FailsInRollback
  BY <1>7 DEF FailsInRollback, RollbackInv
<1>8. CASE UNCHANGED vars
  BY <1>8 DEF vars, payload, run, history, RollbackInv, IsRestored, Recoverable, Restored
<1> QED BY <1>1, <1>2, <1>3, <1>4, <1>5, <1>6, <1>7, <1>8 DEF Next

-----------------------------------------------------------------------------
(***************************************************************************)
(* Unless a run was torn, an engine is there or there never was one.       *)
(***************************************************************************)
EngineInv ==
  /\ botched => torn
  /\ ~torn => \A t \in Trees :
       start.tree[t] \in Releases \/ (start.tree[t] = "none" /\ start.previous[t] = "none")
  /\ ~torn /\ step = "idle" => \A t \in Trees :
       tree[t] \in Releases \/ (tree[t] = "none" /\ previous[t] = "none" /\ start.tree[t] = "none")

LEMMA StepEngine ==
  ASSUME TypeOK, StagedFirst, RunInv, RollbackInv, EngineInv, [Next]_vars
  PROVE  EngineInv'
<1> USE DEF TypeOK
<1>1. CASE Begin
  BY <1>1 DEF Begin, Found, payload, EngineInv
<1>2. CASE \/ InstallTool \/ Stage \/ Retire \/ MoveOut \/ MoveIn \/ InstallFiles
           \/ BuildBoot \/ Check \/ Migrate \/ RetireUnits \/ Restore \/ Drop \/ Back
  <2>1. step' # "idle"
    BY <1>2 DEF InstallTool, Stage, Retire, MoveOut, MoveIn, InstallFiles,
       BuildBoot, Check, Migrate, RetireUnits, Restore, Drop, Back, Onward
  <2>2. start' = start /\ botched' = botched /\ torn' = torn
    BY <1>2 DEF InstallTool, Stage, Retire, MoveOut, MoveIn, InstallFiles,
       BuildBoot, Check, Migrate, RetireUnits, Restore, Drop, Back, history
  <2> QED BY <2>1, <2>2 DEF EngineInv
<1>3. CASE Clean
  <2>1. \A t \in Trees : tree'[t] = "new"
    BY <1>3 DEF Clean, RunInv, Committed
  <2> QED BY <1>3, <2>1 DEF Clean, EngineInv, history
<1>4. CASE Rebuild
  <2>1. /\ step = "rebuild"
        /\ UNCHANGED <<tree, previous, start, botched, torn>>
    BY <1>4 DEF Rebuild, history
  <2>2. ASSUME ~torn, NEW t \in Trees
        PROVE  tree[t] \in Releases \/ (tree[t] = "none" /\ previous[t] = "none" /\ start.tree[t] = "none")
    <3>1. ~botched /\ (start.tree[t] \in Releases
                        \/ (start.tree[t] = "none" /\ start.previous[t] = "none"))
      BY <2>2 DEF EngineInv
    <3>2. Restored(t)
      BY <2>1, <2>2, <3>1 DEF RollbackInv
    <3> QED BY <3>1, <3>2 DEF Restored, InPlace
  <2> QED BY <2>1, <2>2 DEF EngineInv
<1>5. CASE Fails \/ FailsInRollback
  <2>1. start' = start /\ (torn' = FALSE => torn = FALSE /\ botched' = botched /\ step' # "idle")
    BY <1>5 DEF Fails, FailsInRollback
  <2>2. torn' \in BOOLEAN
    BY <1>5 DEF Fails, FailsInRollback
  <2> QED BY <2>1, <2>2 DEF EngineInv
<1>6. CASE FailsCommitted \/ Killed
  <2>1. /\ Partly /\ step # "idle" /\ start' = start /\ botched' = botched
        /\ step \in Steps
    BY <1>6 DEF FailsCommitted, Killed, Count
  <2>2. (torn' => torn \/ TRUE) /\ (~torn' => ~torn /\ step \notin Rollback /\ step # "in")
    BY <1>6 DEF FailsCommitted, Killed, Committed, Rollback
  <2>3. ASSUME ~torn', NEW t \in Trees
        PROVE  \/ tree'[t] \in Releases
               \/ tree'[t] = "none" /\ previous'[t] = "none" /\ start'.tree[t] = "none"
    <3>1. tree'[t] = tree[t]
      BY <2>1, <2>2, <2>3, PartlyTrees DEF Rollback
    <3>2. CASE step \in Committed
      BY <3>1, <3>2 DEF RunInv
    <3>3. CASE step \in Trapped
      <4>1. TreeRun(t) /\ step # "in" /\ step # "clean"
        BY <2>2, <2>3, <3>3 DEF RunInv, Trapped
      <4>2. start.tree[t] \in Releases \/ (start.tree[t] = "none" /\ start.previous[t] = "none")
        BY <2>2, <2>3 DEF EngineInv
      <4>3. previous[t] = "none" => previous'[t] = "none"
        BY <2>1, <4>1, PartlyTrees
      <4> QED BY <2>1, <3>1, <4>1, <4>2, <4>3 DEF TreeRun, InPlace, MovedIn
    <3> QED BY <2>1, <2>2, <2>3, <3>2, <3>3, StepSets
  <2>4. botched => torn'
    BY <1>6 DEF FailsCommitted, Killed, EngineInv
  <2> QED BY <2>1, <2>2, <2>3, <2>4 DEF EngineInv
<1>7. CASE UNCHANGED vars
  BY <1>7 DEF vars, payload, run, history, EngineInv
<1> QED BY <1>1, <1>2, <1>3, <1>4, <1>5, <1>6, <1>7 DEF Next

-----------------------------------------------------------------------------
(***************************************************************************)
(* Once the deletion of the legacy history has begun, no old engine is in  *)
(* place, and none is where a rollback would take it from: a .previous     *)
(* that is old is beside a tree in its place, and no later run has swapped *)
(* that tree.                                                              *)
(***************************************************************************)
LegacyInv ==
  /\ \A t \in Trees : next[t] # "old"
  /\ legacy \in {"begun", "gone"} =>
       /\ tool # "old"
       /\ \A t \in Trees : tree[t] # "old" /\ (previous[t] = "old" => tree[t] # "none")
       /\ step \notin Committed \cup {"idle"} =>
            start.tool # "old" /\ \A t \in swapped : previous[t] # "old"

LEMMA StepLegacy ==
  ASSUME TypeOK, StagedFirst, RunInv, LegacyInv, [Next]_vars
  PROVE  LegacyInv'
<1> USE DEF TypeOK
<1>0. left # {} => First(left) \in left /\ First(left) \in Trees
  BY FirstIn
<1>1. CASE Begin
  BY <1>1 DEF Begin, Found, payload, LegacyInv
<1>2. CASE InstallTool \/ InstallFiles \/ BuildBoot \/ Check
  <2>1. /\ UNCHANGED <<tree, previous, next, legacy, swapped, start>>
        /\ tool' \in {tool, "new"} /\ step \notin Committed \cup {"idle"}
    BY <1>2 DEF InstallTool, InstallFiles, BuildBoot, Check, payload, Committed
  <2> QED BY <2>1 DEF LegacyInv
<1>3. CASE Stage
  <2>1. /\ UNCHANGED <<tool, tree, previous, legacy, swapped, start>>
        /\ step \notin Committed \cup {"idle"}
        /\ \A t \in Trees : next'[t] \in {next[t], "new"}
    BY <1>3 DEF Stage, Committed
  <2> QED BY <2>1 DEF LegacyInv
<1>4. CASE Retire
  <2>1. /\ UNCHANGED <<tool, tree, next, legacy, swapped, start>>
        /\ step \notin Committed \cup {"idle"}
        /\ \A t \in Trees : previous'[t] \in {previous[t], "none"}
    BY <1>4 DEF Retire, Committed
  <2> QED BY <2>1 DEF LegacyInv
<1>5. CASE MoveOut
  <2>1. /\ UNCHANGED <<tool, next, legacy, swapped, start>>
        /\ step \notin Committed \cup {"idle"} /\ previous[First(left)] = "none"
    BY <1>5 DEF MoveOut, Committed, RunInv
  <2>2. /\ \A t \in Trees : tree'[t] = IF t = First(left) THEN "none" ELSE tree[t]
        /\ \A t \in Trees : previous'[t] = IF t = First(left) THEN tree[t] ELSE previous[t]
    BY <1>5, <2>1 DEF MoveOut, Moved
  <2> QED BY <2>1, <2>2 DEF LegacyInv
<1>6. CASE MoveIn
  <2>1. /\ UNCHANGED <<tool, previous, legacy, start>>
        /\ step = "in" /\ swapped' = swapped \cup {First(left)}
        /\ next[First(left)] = "new" /\ MovedOut(First(left)) /\ First(left) \in Trees
    BY <1>0, <1>6 DEF MoveIn, RunInv
  <2>2. /\ \A t \in Trees : tree'[t] = IF t = First(left) THEN "new" ELSE tree[t]
        /\ \A t \in Trees : next'[t] = IF t = First(left) THEN "none" ELSE next[t]
    BY <1>6, <2>1 DEF MoveIn
  <2>3. step \notin Committed \cup {"idle"}
    BY <2>1 DEF Committed
  <2> QED BY <2>1, <2>2, <2>3 DEF LegacyInv, MovedOut
<1>7. CASE Migrate
  BY <1>7 DEF Migrate, payload, RunInv, LegacyInv, Committed
<1>8. CASE RetireUnits
  BY <1>8 DEF RetireUnits, payload, LegacyInv, Committed
<1>9. CASE Clean
  BY <1>9 DEF Clean, LegacyInv
<1>10. CASE Restore
  <2>1. /\ UNCHANGED <<tree, previous, next, legacy, swapped, start>>
        /\ tool' = start.tool /\ step \notin Committed \cup {"idle"}
    BY <1>10 DEF Restore, Committed
  <2> QED BY <2>1 DEF LegacyInv
<1>11. CASE Drop
  <2>1. /\ UNCHANGED <<tool, previous, next, legacy, swapped, start>>
        /\ step \notin Committed \cup {"idle"}
        /\ \A t \in Trees : tree'[t] =
             IF t = First(left) /\ t \in swapped THEN "none" ELSE tree[t]
    BY <1>11 DEF Drop, Committed
  <2> QED BY <2>1 DEF LegacyInv
<1>12. CASE Back
  <2>1. /\ UNCHANGED <<tool, next, legacy, swapped, start>>
        /\ step \notin Committed \cup {"idle"}
    BY <1>12 DEF Back, Committed
  <2>2. \A t \in Trees :
          \/ tree'[t] = tree[t] /\ previous'[t] = previous[t]
          \/ /\ tree'[t] = (IF previous[t] # "none" /\ tree[t] = "none" THEN previous[t] ELSE tree[t])
             /\ previous'[t] = "none"
    BY <1>12 DEF Back, Moved
  <2> QED BY <2>1, <2>2 DEF LegacyInv
<1>13. CASE Rebuild
  BY <1>13 DEF Rebuild, LegacyInv, Committed
<1>14. CASE Fails \/ FailsCommitted \/ FailsInRollback \/ Killed
  <2>1. Partly /\ start' = start /\ swapped' = swapped /\ step # "idle"
    BY <1>14 DEF Fails, FailsCommitted, FailsInRollback, Killed, Count
  <2>2. step \in Committed => step' = "idle"
    BY <1>14 DEF Fails, FailsCommitted, FailsInRollback, Killed, Trapped, Committed, Rollback
  <2>3. \A t \in Trees :
          /\ tree'[t] \in {tree[t], "mixed"} /\ next'[t] \in {next[t], "mixed"}
          /\ previous'[t] \in {previous[t], "mixed", "none"}
    BY <2>1, PartlyTrees
  <2>4. PICK t \in Trees : TRUE
    BY TreeAssumption
  <2>5. /\ tool' \in {tool, "mixed"}
        /\ legacy' # legacy => legacy' = "begun" /\ step = "migrate"
    BY <2>1, <2>4, PartlyTrees
  <2>6. CASE legacy' = legacy
    BY <2>1, <2>2, <2>3, <2>5, <2>6 DEF LegacyInv
  <2>7. CASE step = "migrate"
    <3>1. tool = "new" /\ (\A u \in Trees : tree[u] = "new") /\ step' = "idle"
      BY <2>2, <2>7 DEF RunInv, Committed
    <3> QED BY <2>3, <2>5, <3>1 DEF LegacyInv
  <2> QED BY <2>5, <2>6, <2>7
<1>15. CASE UNCHANGED vars
  BY <1>15 DEF vars, payload, run, LegacyInv
<1> QED BY <1>1, <1>2, <1>3, <1>4, <1>5, <1>6, <1>7, <1>8, <1>9, <1>10, <1>11, <1>12, <1>13,
           <1>14, <1>15 DEF Next

LEMMA StepSuccess == ASSUME TypeOK, RunInv, SuccessIsWhole, [Next]_vars PROVE SuccessIsWhole'
<1>1. CASE Clean
  BY <1>1 DEF Clean, TypeOK, RunInv, Committed, SuccessIsWhole
<1>2. CASE UNCHANGED vars
  BY <1>2 DEF vars, payload, run, SuccessIsWhole
<1>3. CASE Next /\ ~Clean
  <2>1. step' # "idle" \/ outcome' # "ok"
    BY <1>3 DEF Next, Begin, InstallTool, Stage, Retire, MoveOut, MoveIn, InstallFiles,
       BuildBoot, Check, Migrate, RetireUnits, Restore, Drop, Back, Onward, Rebuild, Fails,
       FailsCommitted, FailsInRollback, Killed
  <2> QED BY <2>1 DEF SuccessIsWhole
<1> QED BY <1>1, <1>2, <1>3

-----------------------------------------------------------------------------
(***************************************************************************)
(* The theorems.                                                           *)
(***************************************************************************)
IInv ==
  /\ TypeOK /\ StagedFirst /\ RunInv /\ RollbackInv
  /\ EngineInv /\ LegacyInv /\ SuccessIsWhole

LEMMA InitInv == Init => IInv
<1> SUFFICES ASSUME Init PROVE IInv
  OBVIOUS
<1> USE DEF Init
<1>1. PICK was \in {"old", "none"} :
        /\ tool = was /\ files = was /\ boot = was
        /\ tree = [t \in Trees |-> was]
        /\ legacy \in {"none"} \cup {h \in {"whole"} : was = "old"}
  OBVIOUS
<1>2. legacy \in {"none", "whole"}
  BY <1>1
<1>3. TypeOK
  <2>1. /\ {tool, files, boot} \subseteq Contents
        /\ {tree, previous, next} \subseteq [Trees -> Contents]
    BY <1>1
  <2>2. start \in [tool: Contents, files: Contents, boot: Contents,
                  tree: [Trees -> Contents], previous: [Trees -> Contents]]
    BY <2>1 DEF Found
  <2>3. step \in Steps /\ outcome \in Outcomes /\ failures \in 0..MaxFailures
    BY FailureAssumption DEF Steps, Outcomes
  <2>4. /\ left \subseteq Trees /\ swapped \subseteq staged /\ staged \subseteq Trees
        /\ step \notin {"stage", "retire", "out", "in", "drop", "back"}
        /\ botched \in BOOLEAN /\ torn \in BOOLEAN
    OBVIOUS
  <2> QED BY ONLY <1>2, <2>1, <2>2, <2>3, <2>4 DEF TypeOK
<1>4. StagedFirst /\ RunInv /\ RollbackInv /\ SuccessIsWhole
  BY DEF StagedFirst, RunInv, RollbackInv, SuccessIsWhole, Loop, Built, Committed, Trapped,
     IsRestored
<1>5. EngineInv
  BY <1>1 DEF EngineInv, Found
<1>6. LegacyInv
  BY <1>2 DEF LegacyInv
<1> QED BY <1>3, <1>4, <1>5, <1>6 DEF IInv

\* The inductive invariant: where each tree is in a run and in a rollback.
THEOREM InvariantHolds == Spec => []IInv
<1>1. IInv /\ [Next]_vars => IInv'
  BY StepTyped, StepRun, StepRollback, StepEngine, StepLegacy, StepSuccess DEF IInv
<1> QED BY <1>1, InitInv, PTL DEF Spec

\* Every variable of the installer stays in its type.
THEOREM TypeCorrect == Spec => []TypeOK
<1>1. IInv => TypeOK
  BY DEF IInv
<1> QED BY <1>1, InvariantHolds, PTL

\* A rollback whose own commands succeed puts back what the run found.
THEOREM RollbackComplete == Spec => []RollbackRestores
<1>1. IInv => RollbackRestores
  BY DEF IInv, RollbackInv, IsRestored, Restored, InPlace, RollbackRestores
<1> QED BY <1>1, InvariantHolds, PTL

\* Wherever runs fail and are killed, every tree keeps a whole release.
THEOREM EngineStays == Spec => []EngineKept
<1>1. IInv => EngineKept
  BY DEF IInv, EngineInv, EngineKept
<1> QED BY <1>1, InvariantHolds, PTL

\* No old engine comes back beside a legacy history whose deletion has begun.
THEOREM NoOldEngine == Spec => []NoOldEngineBeside
<1>1. IInv => NoOldEngineBeside
  BY DEF IInv, LegacyInv, NoOldEngineBeside
<1> QED BY <1>1, InvariantHolds, PTL

\* A run that reports success has left one whole release and nothing beside it.
THEOREM SuccessComplete == Spec => []SuccessIsWhole
<1>1. IInv => SuccessIsWhole
  BY DEF IInv
<1> QED BY <1>1, InvariantHolds, PTL

\* The legacy history is touched only behind the commit boundary.
THEOREM MigrationLast == Spec => MigratesComplete
<1>1. ASSUME IInv, Next, legacy' # legacy
      PROVE  {tool, files, boot} = {"new"} /\ \A t \in Trees : tree[t] = "new"
  <2>1. step = "migrate"
    <3>1. CASE Fails \/ FailsCommitted \/ FailsInRollback \/ Killed
      <4>1. PICK t \in Trees : TRUE
        BY TreeAssumption
      <4>2. Partly
        BY <3>1 DEF Fails, FailsCommitted, FailsInRollback, Killed
      <4> QED BY <1>1, <4>1, <4>2, PartlyTrees DEF IInv
    <3>2. CASE ~(Fails \/ FailsCommitted \/ FailsInRollback \/ Killed)
      BY <1>1, <3>2 DEF Next, Begin, InstallTool, Stage, Retire, MoveOut, MoveIn, InstallFiles,
         BuildBoot, Check, Migrate, RetireUnits, Clean, Restore, Drop, Back, Rebuild, payload
    <3> QED BY <3>1, <3>2
  <2> QED BY <1>1, <2>1 DEF IInv, RunInv, Committed
<1>2. IInv /\ [Next]_vars =>
        [legacy' # legacy =>
           {tool, files, boot} = {"new"} /\ \A t \in Trees : tree[t] = "new"]_vars
  BY <1>1
<1> QED BY <1>2, InvariantHolds, PTL DEF Spec, MigratesComplete
=============================================================================
