---------------------------- MODULE CommandLine ----------------------------
(***************************************************************************)
(* The command line as its callers meet it: several of them on one host,   *)
(* a lock that nobody waits for, and a second status under a second lock   *)
(* before a command reports.  What a command does to the disk is cut down  *)
(* to what TwoModes tells apart, with a publication that can stop half     *)
(* way; FreezeEngine has it step by step.                                  *)
(***************************************************************************)
EXTENDS FiniteSets

CONSTANTS
  Clients,    \* who runs privileged commands on this host
  Versions,   \* the contents that @ and a baseline can have
  None        \* nothing to publish: not a version

ASSUME VersionAssumption == None \notin Versions

VARIABLES
  running,    \* "thawed", "frozen" or "off"
  scheduled,  \* cachy_mode
  remote,     \* cachy_remote_auth
  work,       \* the content of @
  baseline,   \* the published content
  journal,    \* "none", "open", or "boot-committed" before the cleanup
  candidate,  \* what a freeze has captured and not yet published, or None
  command,    \* of each client: the command it runs, or "none"
  at,         \* of each client: the next step of that command
  printed,    \* of each client: the scheduled mode and authorization it will print
  fresh,      \* of each client: the scheduled mode it is about to cache
  cache       \* status.json: the running and scheduled mode last written

host == <<running, scheduled, remote, work, baseline, journal, candidate>>
calls == <<command, at, printed, fresh>>
hostVars == <<host, calls, cache>>

Modes == {"thawed", "frozen"}
Commands == {"status", "freeze", "thaw", "thaw --authorized", "boot-success", "reboot"}

\* The steps that a process takes with the lock held.
Locked == {"body", "commit", "publish", "read"}
CommandSteps == {"none", "relock", "cache", "ok", "failed"} \cup Locked
NotPrinted == [scheduled |-> "thawed", remote |-> FALSE]

Up == running # "off"
At(c, s) == at[c] = s
GoTo(c, s) == at' = [at EXCEPT ![c] = s]
LockFree == \A c \in Clients : at[c] \notin Locked

HostInit ==
  /\ running = "frozen" /\ scheduled = "frozen" /\ remote = FALSE
  /\ work \in Versions /\ baseline = work
  /\ journal = "none" /\ candidate = None
  /\ command = [c \in Clients |-> "none"] /\ at = [c \in Clients |-> "none"]
  /\ printed = [c \in Clients |-> NotPrinted]
  /\ fresh = [c \in Clients |-> "thawed"]
  /\ cache = [running |-> "frozen", scheduled |-> "frozen"]

\* The engine's recovery of a publication that was rolled back: the machine stays THAWED.
RollsBack ==
  /\ scheduled' = "thawed" /\ remote' = FALSE
  /\ UNCHANGED baseline

RollsForward ==
  /\ baseline' = candidate
  /\ UNCHANGED <<scheduled, remote>>

\* _recover_transaction_locked, at the start of every locked section.
Recover ==
  /\ \/ journal = "open" /\ RollsBack
     \/ journal = "boot-committed" /\ RollsForward
     \/ journal = "none" /\ UNCHANGED <<scheduled, remote, baseline>>
  /\ journal' = "none" /\ candidate' = None
  /\ UNCHANGED <<running, work>>

\* ProcessLock.__enter__: nobody waits, a command that finds the lock taken has failed.
Enter(c, s) ==
  \/ LockFree /\ Recover /\ GoTo(c, s)
  \/ ~LockFree /\ UNCHANGED host /\ GoTo(c, "failed")

\* Bug: the running mode is not looked at.
AllowedAnyMode(k) == k \in Commands

\* freeze and thaw look at the running mode before they take the lock.
Allowed(k) ==
  /\ k = "freeze" => running = "thawed"
  /\ k \in {"thaw", "thaw --authorized"} => running = "frozen"

\* A client starts a command; request_reboot takes no lock and waits for nothing.
Invoke(c, k) ==
  /\ Up /\ At(c, "none")
  /\ command' = [command EXCEPT ![c] = k]
  /\ \/ k = "reboot" /\ UNCHANGED host /\ GoTo(c, "ok")
     \/ ~Allowed(k) /\ UNCHANGED host /\ GoTo(c, "failed")
     \/ k # "reboot" /\ Allowed(k) /\ Enter(c, "body")
  /\ UNCHANGED <<printed, fresh, cache>>

\* main takes the lock again for the status it caches.
Relock(c) ==
  /\ At(c, "relock")
  /\ Enter(c, "read")
  /\ UNCHANGED <<command, printed, fresh, cache>>

-----------------------------------------------------------------------------
\* freeze opens the journal and takes the snapshot that it will publish; @ can change from here on.
Snapshot(c) ==
  /\ At(c, "body") /\ command[c] = "freeze"
  /\ journal' = "open" /\ candidate' = work
  /\ GoTo(c, "commit")
  /\ UNCHANGED <<running, scheduled, remote, work, baseline, command, printed, fresh, cache>>

\* FROZEN is scheduled and boot-committed recorded, with the predecessor still there.
Commit(c) ==
  /\ At(c, "commit")
  /\ scheduled' = "frozen" /\ remote' = FALSE
  /\ journal' = "boot-committed"
  /\ GoTo(c, "publish")
  /\ UNCHANGED <<running, work, baseline, candidate, command, printed, fresh, cache>>

\* An exception with the journal open: before the snapshot, or after FROZEN was scheduled.
FreezeStops(c) ==
  /\ command[c] = "freeze"
  /\ \/ At(c, "body") /\ UNCHANGED <<scheduled, remote>>
     \/ At(c, "commit") /\ scheduled' = "frozen" /\ remote' = FALSE
  /\ journal' = "open"
  /\ GoTo(c, "failed")
  /\ UNCHANGED <<running, work, baseline, candidate, command, printed, fresh, cache>>

\* The cleanup deletes the predecessor: the new baseline is the only one.
Publish(c) ==
  /\ At(c, "publish")
  /\ baseline' = candidate /\ journal' = "none" /\ candidate' = None
  /\ GoTo(c, "relock")
  /\ UNCHANGED <<running, scheduled, remote, work, command, printed, fresh, cache>>

Thaw(c) ==
  /\ At(c, "body") /\ command[c] \in {"thaw", "thaw --authorized"}
  /\ scheduled' = "thawed" /\ remote' = (command[c] = "thaw --authorized")
  /\ GoTo(c, "relock")
  /\ UNCHANGED <<running, work, baseline, journal, candidate,
                 command, printed, fresh, cache>>

\* Bug: a FROZEN boot consumes the authorization, too.
BootSuccessAnyMode(c) ==
  /\ At(c, "body") /\ command[c] = "boot-success"
  /\ remote' = FALSE
  /\ GoTo(c, "relock")
  /\ UNCHANGED <<running, scheduled, work, baseline, journal, candidate,
                 command, printed, fresh, cache>>

BootSuccess(c) ==
  /\ At(c, "body") /\ command[c] = "boot-success"
  /\ remote' = (remote /\ running = "frozen")
  /\ GoTo(c, "relock")
  /\ UNCHANGED <<running, scheduled, work, baseline, journal, candidate,
                 command, printed, fresh, cache>>

\* What status prints is the first of the two it takes.
Status(c) ==
  /\ At(c, "body") /\ command[c] = "status"
  /\ printed' = [printed EXCEPT ![c] = [scheduled |-> scheduled, remote |-> remote]]
  /\ GoTo(c, "relock")
  /\ UNCHANGED <<host, command, fresh, cache>>

ReadStatus(c) ==
  /\ At(c, "read")
  /\ fresh' = [fresh EXCEPT ![c] = scheduled]
  /\ GoTo(c, "cache")
  /\ UNCHANGED <<host, command, printed, cache>>

\* write_status_cache, after the lock was released.
WriteCache(c) ==
  /\ At(c, "cache")
  /\ cache' = [running |-> running, scheduled |-> fresh[c]]
  /\ fresh' = [fresh EXCEPT ![c] = "thawed"]
  /\ GoTo(c, "ok")
  /\ UNCHANGED <<host, command, printed>>

\* Any exception: exit code 1, and the lock is released.
Fails(c) ==
  /\ at[c] \in Locked \cup {"cache"}
  /\ fresh' = [fresh EXCEPT ![c] = "thawed"]
  /\ GoTo(c, "failed")
  /\ UNCHANGED <<host, command, printed, cache>>

CommandStep(c) ==
  \/ Relock(c) \/ Snapshot(c) \/ Commit(c) \/ FreezeStops(c) \/ Publish(c)
  \/ Thaw(c) \/ BootSuccess(c) \/ Status(c) \/ ReadStatus(c) \/ WriteCache(c) \/ Fails(c)

\* The caller has read the exit code and the output.
Reaped(c) ==
  /\ command' = [command EXCEPT ![c] = "none"]
  /\ printed' = [printed EXCEPT ![c] = NotPrinted]
  /\ GoTo(c, "none")
  /\ UNCHANGED <<host, fresh, cache>>

-----------------------------------------------------------------------------
\* The machine goes down, for whatever reason; every process is gone.
HostDown ==
  /\ Up
  /\ running' = "off"
  /\ command' = [c \in Clients |-> "none"] /\ at' = [c \in Clients |-> "none"]
  /\ printed' = [c \in Clients |-> NotPrinted]
  /\ fresh' = [c \in Clients |-> "thawed"]
  /\ UNCHANGED <<scheduled, remote, work, baseline, journal, candidate, cache>>

HostBootsThawed ==
  /\ ~Up /\ scheduled = "thawed"
  /\ running' = "thawed"
  /\ UNCHANGED <<scheduled, remote, work, baseline, journal, candidate, calls, cache>>

\* The reset in the initramfs rolls every journal back.
HostBootsFrozen ==
  /\ ~Up /\ scheduled = "frozen"
  /\ running' = "frozen"
  /\ journal' = "none" /\ candidate' = None
  /\ UNCHANGED <<scheduled, remote, work, baseline, calls, cache>>

\* A reset that fails, before or after its rollback, schedules THAWED with a password.
HostBootFails ==
  /\ ~Up /\ scheduled = "frozen"
  /\ scheduled' = "thawed" /\ remote' = FALSE
  /\ \/ journal' = "none" /\ candidate' = None
     \/ UNCHANGED <<journal, candidate>>
  /\ UNCHANGED <<running, work, baseline, calls, cache>>

HostTypeOK ==
  /\ running \in Modes \cup {"off"} /\ scheduled \in Modes /\ remote \in BOOLEAN
  /\ work \in Versions /\ baseline \in Versions
  /\ journal \in {"none", "open", "boot-committed"}
  /\ candidate \in Versions \cup {None}
  /\ command \in [Clients -> Commands \cup {"none"}]
  /\ at \in [Clients -> CommandSteps]
  /\ printed \in [Clients -> [scheduled: Modes, remote: BOOLEAN]]
  /\ fresh \in [Clients -> Modes]
  /\ cache \in [running: Modes, scheduled: Modes]
=============================================================================
