------------------------------ MODULE Installer ------------------------------
(***************************************************************************)
(* install-freeze-engine.sh on a THAWED host: files copied over the        *)
(* installed ones, two trees swapped by two renames each, boot images and  *)
(* GRUB configuration built and, once all of it is checked, the legacy     *)
(* history deleted.  Until then a command that fails runs the ERR trap,    *)
(* which puts back what the run found.  Nothing does when the script is    *)
(* killed or the machine goes down: the next run takes what is there.      *)
(***************************************************************************)
EXTENDS Naturals, FiniteSets

CONSTANTS
  Trees,       \* the trees below /usr/lib/cachy-freeze that are swapped
  MaxFailures  \* bound: how often a command fails or a run is killed

ASSUME TreeAssumption == Trees # {} /\ IsFiniteSet(Trees)
ASSUME FailureAssumption == MaxFailures \in Nat

VARIABLES
  tool,      \* the release of the command line and the VERSION file,
  files,     \* of the other owned files,
  boot,      \* and of the boot images, the GRUB configuration and its environment
  tree,      \* of each tree: the release in its place,
  previous,  \* beside it as .previous,
  next,      \* and beside it as .next
  legacy,    \* the history of an earlier release: "none", "whole", its deletion "begun", "gone"
  step,      \* the next step of the run
  left,      \* the trees that the step has still to come to
  staged,    \* the trees whose .previous the run knows: python_previous is set
  swapped,   \* the trees that it swapped: python_swapped=1
  outcome,   \* how the last run ended
  start,     \* what the run found; of the files and the boot part, it has a copy
  failures,
  botched,   \* whether a command of this run's rollback failed
  torn       \* whether a run was ever killed between two renames, or anything of a rollback failed

payload == <<tool, files, boot, tree, previous, next>>
run == <<step, left, staged, swapped, outcome, start>>
history == <<failures, botched, torn>>
vars == <<payload, legacy, run, history>>

\* "mixed" is whatever is not one release as a whole.
Releases == {"old", "new"}
Contents == Releases \cup {"mixed", "none"}
Outcomes == {"none", "ok", "refused", "restored", "critical", "stopped", "killed"}

Trapped == {"tool", "stage", "retire", "out", "in", "files", "boot", "check"}
Committed == {"migrate", "units", "clean"}
Rollback == {"restore", "drop", "back", "rebuild"}
Steps == {"idle"} \cup Trapped \cup Committed \cup Rollback

Found == [tool |-> tool, files |-> files, boot |-> boot, tree |-> tree, previous |-> previous]
GoTo(s) == step' = s
First(S) == CHOOSE t \in S : TRUE

\* A host with an earlier release, with or without its history, or with none.
Init ==
  /\ \E was \in {"old", "none"} :
       /\ tool = was /\ files = was /\ boot = was
       /\ tree = [t \in Trees |-> was]
       /\ legacy \in {"none"} \cup {h \in {"whole"} : was = "old"}
  /\ previous = [t \in Trees |-> "none"] /\ next = [t \in Trees |-> "none"]
  /\ step = "idle" /\ left = {} /\ staged = {} /\ swapped = {}
  /\ outcome = "none" /\ start = Found
  /\ failures = 0 /\ botched = FALSE /\ torn = FALSE

-----------------------------------------------------------------------------
\* The checks before the first change may refuse; the backup is complete before it.
Begin ==
  /\ step = "idle"
  /\ \/ GoTo("tool") /\ outcome' = "none"
     \/ outcome' = "refused" /\ UNCHANGED step
  /\ start' = Found
  /\ left' = {} /\ staged' = {} /\ swapped' = {} /\ botched' = FALSE
  /\ UNCHANGED <<payload, legacy, failures, torn>>

InstallTool ==
  /\ step = "tool"
  /\ tool' = "new"
  /\ left' = Trees /\ GoTo("stage")
  /\ UNCHANGED <<files, boot, tree, previous, next, legacy,
                 staged, swapped, outcome, start, history>>

\* Bug: the name of .previous is set when the tree is there to be moved.
StageUnnamed ==
  /\ step = "stage"
  /\ next' = [next EXCEPT ![First(left)] = "new"]
  /\ GoTo("retire")
  /\ UNCHANGED <<tool, files, boot, tree, previous, legacy,
                 left, staged, swapped, outcome, start, history>>

\* Bug: what an earlier run left in .next is copied over.
StageOver ==
  /\ step = "stage"
  /\ next' = [next EXCEPT ![First(left)] = IF @ = "none" THEN "new" ELSE "mixed"]
  /\ staged' = staged \cup {First(left)}
  /\ GoTo("retire")
  /\ UNCHANGED <<tool, files, boot, tree, previous, legacy,
                 left, swapped, outcome, start, history>>

Stage ==
  /\ step = "stage"
  /\ next' = [next EXCEPT ![First(left)] = "new"]
  /\ staged' = staged \cup {First(left)}
  /\ GoTo("retire")
  /\ UNCHANGED <<tool, files, boot, tree, previous, legacy,
                 left, swapped, outcome, start, history>>

\* Bug: a .previous that an earlier run left stays.
RetireNothing ==
  /\ step = "retire"
  /\ GoTo("out")
  /\ UNCHANGED <<payload, legacy, left, staged, swapped, outcome, start, history>>

Retire ==
  /\ step = "retire"
  /\ previous' = [previous EXCEPT ![First(left)] = "none"]
  /\ GoTo("out")
  /\ UNCHANGED <<tool, files, boot, tree, next, legacy,
                 left, staged, swapped, outcome, start, history>>

\* mv a tree to a name that is taken puts it inside, where nothing looks for it.
Moved(t, from, to) == IF from[t] # "none" /\ to[t] = "none" THEN from[t] ELSE to[t]

MoveOut ==
  /\ step = "out"
  /\ LET t == First(left) IN
       /\ previous' = [previous EXCEPT ![t] = Moved(t, tree, previous)]
       /\ tree' = [tree EXCEPT ![t] = "none"]
  /\ GoTo("in")
  /\ UNCHANGED <<tool, files, boot, next, legacy,
                 left, staged, swapped, outcome, start, history>>

MoveIn ==
  /\ step = "in"
  /\ LET t == First(left) IN
       /\ tree' = [tree EXCEPT ![t] = next[t]]
       /\ next' = [next EXCEPT ![t] = "none"]
       /\ swapped' = swapped \cup {t}
       /\ left' = left \ {t}
       /\ GoTo(IF left = {t} THEN "files" ELSE "stage")
  /\ UNCHANGED <<tool, files, boot, previous, legacy, staged, outcome, start, history>>

\* Bug: the legacy history goes before the boot part is built.
InstallFilesAndCommit ==
  /\ step = "files"
  /\ files' = "new"
  /\ GoTo("migrate")
  /\ UNCHANGED <<tool, boot, tree, previous, next, legacy,
                 left, staged, swapped, outcome, start, history>>

InstallFiles ==
  /\ step = "files"
  /\ files' = "new"
  /\ GoTo("boot")
  /\ UNCHANGED <<tool, boot, tree, previous, next, legacy,
                 left, staged, swapped, outcome, start, history>>

\* mkinitcpio -P, the GRUB configuration, and THAWED in its environment.
BuildBoot ==
  /\ step = "boot"
  /\ boot' = "new"
  /\ GoTo("check")
  /\ UNCHANGED <<tool, files, tree, previous, next, legacy,
                 left, staged, swapped, outcome, start, history>>

\* Everything that a bootable THAWED installation needs; then trap - ERR.
Check ==
  /\ step = "check"
  /\ GoTo("migrate")
  /\ UNCHANGED <<payload, legacy, left, staged, swapped, outcome, start, history>>

Migrate ==
  /\ step = "migrate"
  /\ legacy' = IF legacy = "none" THEN "none" ELSE "gone"
  /\ GoTo("units")
  /\ UNCHANGED <<payload, left, staged, swapped, outcome, start, history>>

RetireUnits ==
  /\ step = "units"
  /\ GoTo("clean")
  /\ UNCHANGED <<payload, legacy, left, staged, swapped, outcome, start, history>>

Clean ==
  /\ step = "clean"
  /\ previous' = [t \in Trees |-> "none"]
  /\ GoTo("idle") /\ outcome' = "ok"
  /\ UNCHANGED <<tool, files, boot, tree, next, legacy, left, staged, swapped, start, history>>

-----------------------------------------------------------------------------
\* rollback_boot_configuration: the boot part without its images, the files, the trees.
Restore ==
  /\ step = "restore"
  /\ tool' = start.tool /\ files' = start.files
  /\ boot' = IF boot = start.boot THEN boot ELSE "mixed"
  /\ left' = Trees /\ GoTo("drop")
  /\ UNCHANGED <<tree, previous, next, legacy, staged, swapped, outcome, start, history>>

\* Bug: what is in place is removed, swapped or not.
DropAlways ==
  /\ step = "drop"
  /\ tree' = [tree EXCEPT ![First(left)] = "none"]
  /\ GoTo("back")
  /\ UNCHANGED <<tool, files, boot, previous, next, legacy,
                 left, staged, swapped, outcome, start, history>>

Drop ==
  /\ step = "drop"
  /\ tree' = [tree EXCEPT ![First(left)] = IF First(left) \in swapped THEN "none" ELSE @]
  /\ GoTo("back")
  /\ UNCHANGED <<tool, files, boot, previous, next, legacy,
                 left, staged, swapped, outcome, start, history>>

\* The next tree, or the boot images.
Onward ==
  /\ left' = left \ {First(left)}
  /\ GoTo(IF left = {First(left)} THEN "rebuild" ELSE "drop")

\* Bug: only a tree that was swapped is moved back.
BackIfSwapped ==
  /\ step = "back"
  /\ LET t == First(left) IN
       /\ IF t \in swapped
          THEN /\ tree' = [tree EXCEPT ![t] = Moved(t, previous, tree)]
               /\ previous' = [previous EXCEPT ![t] = "none"]
          ELSE UNCHANGED <<tree, previous>>
       /\ Onward
  /\ UNCHANGED <<tool, files, boot, next, legacy, staged, swapped, outcome, start, history>>

Back ==
  /\ step = "back"
  /\ LET t == First(left) IN
       /\ IF t \in staged
          THEN /\ tree' = [tree EXCEPT ![t] = Moved(t, previous, tree)]
               /\ previous' = [previous EXCEPT ![t] = "none"]
          ELSE UNCHANGED <<tree, previous>>
       /\ Onward
  /\ UNCHANGED <<tool, files, boot, next, legacy, staged, swapped, outcome, start, history>>

Rebuild ==
  /\ step = "rebuild"
  /\ boot' = start.boot
  /\ GoTo("idle") /\ outcome' = "restored"
  /\ UNCHANGED <<tool, files, tree, previous, next, legacy, left, staged, swapped, start, history>>

-----------------------------------------------------------------------------
(***************************************************************************)
(* What a step that does not come to its end leaves: all that was there or *)
(* some of what the step does.  A rename is done or is not.                *)
(***************************************************************************)
Some(v, touched) == IF touched THEN {v, "mixed"} ELSE {v}
SomeOf(f, t, touched) == IF touched THEN {f, [f EXCEPT ![t] = "mixed"]} ELSE {f}

Partly ==
  LET t == First(left) IN
  /\ tool' \in Some(tool, step = "restore" \/ (step = "tool" /\ tool # "new"))
  /\ files' \in Some(files, step = "restore" \/ (step = "files" /\ files # "new"))
  /\ boot' \in Some(boot, step \in {"boot", "restore", "rebuild"})
  /\ next' \in SomeOf(next, t, step = "stage")
  /\ \/ step # "clean" /\ previous' \in SomeOf(previous, t, step = "retire" /\ previous[t] # "none")
     \/ step = "clean" /\ previous' \in [Trees -> {"none", "mixed"}]
  /\ tree' \in SomeOf(tree, t, step = "drop" /\ t \in swapped)
  /\ legacy' \in {legacy} \cup {h \in {"begun"} : step = "migrate" /\ legacy = "whole"}

Count == step # "idle" /\ failures < MaxFailures /\ failures' = failures + 1

\* set -E: the trap runs, and is off from then on.
Fails ==
  /\ step \in Trapped
  /\ Count /\ Partly
  /\ staged' = IF step = "stage" THEN staged \cup {First(left)} ELSE staged
  /\ GoTo("restore")
  /\ UNCHANGED <<left, swapped, outcome, start, botched, torn>>

\* No trap any more: the new release stays, and another run is to retry.
FailsCommitted ==
  /\ step \in Committed
  /\ Count /\ Partly
  /\ GoTo("idle") /\ outcome' = "stopped"
  /\ UNCHANGED <<left, staged, swapped, start, botched, torn>>

\* set +e: the rollback goes on after a command that failed.
FailsInRollback ==
  /\ step \in Rollback
  /\ Count /\ Partly
  /\ \/ step = "restore" /\ left' = Trees /\ GoTo("drop") /\ UNCHANGED outcome
     \/ step = "drop" /\ GoTo("back") /\ UNCHANGED <<left, outcome>>
     \/ step = "back" /\ Onward /\ UNCHANGED outcome
     \/ step = "rebuild" /\ GoTo("idle") /\ outcome' = "critical" /\ UNCHANGED left
  /\ botched' = TRUE /\ torn' = TRUE
  /\ UNCHANGED <<staged, swapped, start>>

\* SIGKILL or a power failure.
Killed ==
  /\ Count /\ Partly
  /\ GoTo("idle") /\ outcome' = "killed"
  /\ torn' = (torn \/ step = "in" \/ step \in Rollback)
  /\ UNCHANGED <<left, staged, swapped, start, botched>>

Next ==
  \/ Begin \/ InstallTool \/ Stage \/ Retire \/ MoveOut \/ MoveIn \/ InstallFiles
  \/ BuildBoot \/ Check \/ Migrate \/ RetireUnits \/ Clean
  \/ Restore \/ Drop \/ Back \/ Rebuild
  \/ Fails \/ FailsCommitted \/ FailsInRollback \/ Killed

Spec == Init /\ [][Next]_vars

-----------------------------------------------------------------------------
TypeOK ==
  /\ {tool, files, boot} \subseteq Contents
  /\ {tree, previous, next} \subseteq [Trees -> Contents]
  /\ legacy \in {"none", "whole", "begun", "gone"}
  /\ step \in Steps /\ left \subseteq Trees /\ outcome \in Outcomes
  /\ step \in {"stage", "retire", "out", "in", "drop", "back"} => left # {}
  /\ swapped \subseteq staged /\ staged \subseteq Trees
  /\ start \in [tool: Contents, files: Contents, boot: Contents,
                tree: [Trees -> Contents], previous: [Trees -> Contents]]
  /\ failures \in 0..MaxFailures /\ botched \in BOOLEAN /\ torn \in BOOLEAN

(***************************************************************************)
(* A rollback whose own commands succeed puts back what the run found,     *)
(* whatever an earlier run left in .previous.  A tree that was moved out   *)
(* of its place by a run that was killed there may come back or be lost.   *)
(***************************************************************************)
RollbackRestores == step = "idle" /\ outcome = "restored" /\ ~botched =>
  /\ tool = start.tool /\ files = start.files /\ boot = start.boot
  /\ \A t \in Trees :
       tree[t] = start.tree[t] \/ (start.tree[t] = "none" /\ start.previous[t] # "none")

(***************************************************************************)
(* A host that has an engine keeps a whole one, wherever runs fail and are *)
(* killed: only a kill between the two renames of a tree or in a rollback, *)
(* and a rollback with a command that fails, can cost it one.              *)
(***************************************************************************)
EngineKept == step = "idle" /\ ~torn => \A t \in Trees :
  tree[t] \in Releases \/ (tree[t] = "none" /\ start.tree[t] = "none")

(***************************************************************************)
(* "Commit boundary": the legacy history is touched only once the new      *)
(* release is there as a whole.                                            *)
(***************************************************************************)
MigratesComplete == [][legacy' # legacy =>
  {tool, files, boot} = {"new"} /\ \A t \in Trees : tree[t] = "new"]_vars

(***************************************************************************)
(* No failure, kill, rollback or later run ever puts "an engine that       *)
(* cannot understand partial state" back beside a history whose deletion   *)
(* has begun.                                                              *)
(***************************************************************************)
NoOldEngineBeside ==
  legacy \in {"begun", "gone"} => tool # "old" /\ \A t \in Trees : tree[t] # "old"

(***************************************************************************)
(* A run that reports success has installed one release as a whole and     *)
(* left nothing beside it, whatever earlier runs left.                     *)
(***************************************************************************)
SuccessIsWhole == step = "idle" /\ outcome = "ok" =>
  /\ {tool, files, boot} = {"new"} /\ legacy \in {"none", "gone"}
  /\ \A t \in Trees : tree[t] = "new" /\ previous[t] = "none" /\ next[t] = "none"
=============================================================================
