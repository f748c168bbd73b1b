------------------------- MODULE ManagedHostProofs -------------------------
(***************************************************************************)
(* What ManagedHost promises, for any set of clients that holds the three  *)
(* of them and any set of versions of @.                                   *)
(***************************************************************************)
EXTENDS ManagedHost, TLAPS

(***************************************************************************)
(* The host: who may be where in a command, and in which state of the      *)
(* machine.                                                                *)
(***************************************************************************)
CallsMatch == \A c \in Clients : at[c] = "none" <=> command[c] = "none"
OneHolder == \A c, d \in Clients : at[c] \in Locked /\ at[d] \in Locked => c = d
NobodyWhenDown == ~Up => \A c \in Clients : command[c] = "none"
ModeOfCommand == \A c \in Clients :
  /\ command[c] = "freeze" /\ at[c] # "failed" => running = "thawed"
  /\ command[c] \in {"thaw", "thaw --authorized"} /\ at[c] # "failed" => running = "frozen"
Publishing == \A c \in Clients :
  /\ at[c] \in {"commit", "publish"} => command[c] = "freeze" /\ candidate \in Versions
  /\ at[c] = "publish" => journal = "boot-committed"
FrozenHasNoJournal == running = "frozen" => journal = "none"
RemoteForThawed == remote => scheduled = "thawed"
CommittedCandidate ==
  /\ journal = "boot-committed" => candidate \in Versions
  /\ journal = "none" => candidate = None

HostInv ==
  /\ HostTypeOK /\ CallsMatch /\ OneHolder /\ NobodyWhenDown
  /\ ModeOfCommand /\ Publishing
  /\ FrozenHasNoJournal /\ RemoteForThawed /\ CommittedCandidate

-----------------------------------------------------------------------------
USE DEF Modes, Commands, Locked, CommandSteps, At, GoTo, Up, host, calls, hostVars

\* A recovery leaves no journal, and an authorization only while THAWED is scheduled.
LEMMA RecoverKeeps ==
  ASSUME HostInv, Recover
  PROVE  /\ scheduled' \in Modes /\ remote' \in BOOLEAN /\ baseline' \in Versions
         /\ work' = work /\ running' = running
         /\ journal' = "none" /\ candidate' = None
         /\ remote' => scheduled' = "thawed"
<1> USE DEF HostInv, HostTypeOK
<1>1. CASE RollsBack
  <2>1. remote' = FALSE
    BY <1>1 DEF RollsBack
  <2> QED
    BY <1>1, <2>1 DEF Recover, RollsBack
<1>2. CASE UNCHANGED <<scheduled, remote>>
  <2>1. remote' \in BOOLEAN /\ (remote' => scheduled' = "thawed")
    BY <1>2 DEF RemoteForThawed
  <2> QED
    BY <1>2, <2>1 DEF Recover, RollsBack, RollsForward, CommittedCandidate
<1> QED
  BY <1>1, <1>2 DEF Recover, RollsForward

USE DEF CallsMatch, OneHolder, NobodyWhenDown, ModeOfCommand, Publishing

\* The same of one client.
FitsMode(k, s) ==
  /\ k = "freeze" /\ s # "failed" => running = "thawed"
  /\ k \in {"thaw", "thaw --authorized"} /\ s # "failed" => running = "frozen"

\* Of a step of one client, its own command is the only one to look at.
LEMMA ModeOfOne ==
  ASSUME ModeOfCommand, running' = running, NEW c \in Clients,
         \A d \in Clients \ {c} : at'[d] = at[d] /\ command'[d] = command[d],
         FitsMode(command'[c], at'[c])
  PROVE  ModeOfCommand'
<1>1. ASSUME NEW d \in Clients
      PROVE  /\ command'[d] = "freeze" /\ at'[d] # "failed" => running = "thawed"
             /\ command'[d] \in {"thaw", "thaw --authorized"} /\ at'[d] # "failed" => running = "frozen"
  <2>1. CASE d = c
    BY <2>1 DEF FitsMode
  <2>2. CASE d # c
    <3>1. at'[d] = at[d] /\ command'[d] = command[d]
      BY <2>2
    <3> QED BY <3>1, Zenon
  <2> QED BY <2>1, <2>2
<1> QED BY <1>1, Zenon

\* A step that leaves the host as it is and puts no further client under the lock.
LEMMA CallKeepsHost ==
  ASSUME HostInv, UNCHANGED host, HostTypeOK',
         NEW c \in Clients,
         \A d \in Clients \ {c} : at'[d] = at[d] /\ command'[d] = command[d],
         at'[c] = "none" <=> command'[c] = "none",
         at'[c] \in Locked => at[c] \in Locked /\ command'[c] = command[c],
         at'[c] \notin {"commit", "publish"},
         command'[c] \in {"freeze", "thaw", "thaw --authorized"} /\ at'[c] # "failed" =>
           command[c] = command'[c] /\ at[c] # "failed",
         running = "off" => command'[c] = "none"
  PROVE  HostInv'
<1>1. RemoteForThawed'
  BY DEF HostInv, RemoteForThawed
<1>2. FrozenHasNoJournal' /\ CommittedCandidate'
  BY DEF HostInv, FrozenHasNoJournal, CommittedCandidate
<1>3. CallsMatch' /\ NobodyWhenDown' /\ Publishing'
  BY ZenonT(40) DEF HostInv
<1>5. ModeOfCommand'
  BY ModeOfOne, ZenonT(40) DEF HostInv, FitsMode
<1>4. OneHolder'
  <2>1. \A d \in Clients : at'[d] \in Locked => at[d] \in Locked
    OBVIOUS
  <2> QED BY <2>1 DEF HostInv
<1> QED BY <1>1, <1>2, <1>3, <1>4, <1>5 DEF HostInv

\* The start of a locked section: whatever was left is recovered.
LEMMA EnterKeepsHost ==
  ASSUME HostInv, NEW c \in Clients, NEW k \in Commands, running # "off",
         NEW s \in {"body", "read"}, at[c] \notin Locked,
         LockFree, Recover, command' = [command EXCEPT ![c] = k],
         at' = [at EXCEPT ![c] = s], Allowed(k),
         UNCHANGED <<printed, fresh, cache>>
  PROVE  HostInv'
<1> USE DEF HostInv
<1>1. /\ scheduled' \in Modes /\ remote' \in BOOLEAN /\ baseline' \in Versions
      /\ work' = work /\ running' = running
      /\ journal' = "none" /\ candidate' = None
  BY RecoverKeeps
<1>2. RemoteForThawed'
  BY RecoverKeeps DEF RemoteForThawed
<1>3. HostTypeOK'
  BY <1>1 DEF HostTypeOK
<1>4. /\ \A d \in Clients : at'[d] = IF d = c THEN s ELSE at[d]
      /\ \A d \in Clients : command'[d] = IF d = c THEN k ELSE command[d]
  BY DEF HostTypeOK
<1>6. CallsMatch' /\ NobodyWhenDown'
  BY <1>1, <1>4, ZenonT(40) DEF HostTypeOK
<1>7. ModeOfCommand'
  <2>1. at'[c] = s /\ command'[c] = k
    BY <1>4
  <2>2. \A d \in Clients \ {c} : at'[d] = at[d] /\ command'[d] = command[d]
    BY <1>4
  <2>3. FitsMode(k, s)
    BY Zenon DEF Allowed, FitsMode
  <2>4. FitsMode(command'[c], at'[c])
    BY <2>1, <2>3, Zenon
  <2> QED BY <1>1, <2>2, <2>4, ModeOfOne
<1>10. Publishing'
  <2>1. \A d \in Clients : at'[d] \notin {"commit", "publish"}
    <3>1. \A d \in Clients : at[d] \notin {"commit", "publish"}
      BY DEF LockFree
    <3> QED BY ONLY <1>4, <3>1, s \in {"body", "read"}
  <2> QED BY ONLY <2>1 DEF Publishing
<1>8. \A d \in Clients : at'[d] \in Locked => d = c
  BY <1>4, ZenonT(40) DEF HostTypeOK, LockFree
<1>9. OneHolder'
  BY <1>8, Zenon
<1>5. FrozenHasNoJournal' /\ CommittedCandidate'
  BY <1>1 DEF FrozenHasNoJournal, CommittedCandidate
<1> QED BY <1>2, <1>3, <1>5, <1>6, <1>7, <1>9, <1>10

LEMMA InvokeKeepsHost ==
  ASSUME HostInv, NEW c \in Clients, NEW k \in Commands, Invoke(c, k)
  PROVE  HostInv'
<1> USE DEF HostInv, Invoke
<1>1. ASSUME NEW s \in {"ok", "failed"}, k = "reboot" \/ s = "failed",
             UNCHANGED host, at' = [at EXCEPT ![c] = s]
      PROVE  HostInv'
  <2>1. HostTypeOK'
    BY <1>1 DEF HostTypeOK
  <2>2. at'[c] = s /\ command'[c] = k
    BY <1>1 DEF HostTypeOK
  <2>3. \A d \in Clients \ {c} : at'[d] = at[d] /\ command'[d] = command[d]
    BY <1>1 DEF HostTypeOK
  <2>4. running # "off" /\ k # "none" /\ UNCHANGED host
    BY <1>1
  <2> HIDE DEF HostInv, Invoke, host
  <2> QED BY <1>1, <2>1, <2>2, <2>3, <2>4, CallKeepsHost
<1>2. CASE LockFree /\ Recover /\ Allowed(k) /\ at' = [at EXCEPT ![c] = "body"]
  BY <1>2, EnterKeepsHost DEF Allowed, LockFree
<1> QED
  BY <1>1, <1>2 DEF Enter

LEMMA ReapedKeepsHost ==
  ASSUME HostInv, NEW c \in Clients, Reaped(c)
  PROVE  HostInv'
<1> USE DEF HostInv, Reaped
<1>1. HostTypeOK'
  BY DEF HostTypeOK, NotPrinted
<1>2. at'[c] = "none" /\ command'[c] = "none" /\ UNCHANGED host
  BY DEF HostTypeOK
<1>3. \A d \in Clients \ {c} : at'[d] = at[d] /\ command'[d] = command[d]
  BY ZenonT(40) DEF HostTypeOK
<1> HIDE DEF HostInv, Reaped, host
<1> QED BY <1>1, <1>2, <1>3, CallKeepsHost

-----------------------------------------------------------------------------
\* A step under the lock, which nobody else is in.
LEMMA LockedKeepsHost ==
  ASSUME HostInv, NEW c \in Clients, at[c] \in Locked,
         NEW s \in {"commit", "publish", "relock", "failed"}, at' = [at EXCEPT ![c] = s],
         UNCHANGED <<running, work, command, printed, fresh, cache>>,
         s \in {"commit", "publish"} => command[c] = "freeze" /\ candidate' \in Versions,
         s = "publish" => journal' = "boot-committed",
         HostTypeOK', FrozenHasNoJournal', RemoteForThawed', CommittedCandidate'
  PROVE  HostInv'
<1> USE DEF HostInv
<1>1. \A d \in Clients : at'[d] = IF d = c THEN s ELSE at[d]
  <2>1. at \in [Clients -> CommandSteps]
    BY DEF HostTypeOK
  <2> QED BY ONLY <2>1, at' = [at EXCEPT ![c] = s]
<1>2. CallsMatch' /\ NobodyWhenDown'
  <2>1. at[c] # "none" /\ s # "none" /\ command' = command /\ running' = running
    OBVIOUS
  <2>2. CallsMatch /\ NobodyWhenDown
    OBVIOUS
  <2> QED BY ONLY <1>1, <2>1, <2>2
<1>6. ModeOfCommand'
  <2>1. command' = command /\ running' = running /\ at[c] # "failed" /\ ModeOfCommand
    OBVIOUS
  <2>2. FitsMode(command'[c], at'[c])
    BY <2>1, Zenon DEF FitsMode
  <2>3. \A d \in Clients \ {c} : at'[d] = at[d] /\ command'[d] = command[d]
    BY ONLY <1>1, <2>1
  <2> QED BY ONLY <2>1, <2>2, <2>3, ModeOfOne, c \in Clients
<1>3. \A d \in Clients : at'[d] \in Locked => d = c
  <2>1. OneHolder
    OBVIOUS
  <2> QED BY ONLY <1>1, <2>1, c \in Clients, at[c] \in Locked
<1>4. OneHolder'
  BY <1>3, Zenon
<1>5. Publishing'
  <2>1. \A d \in Clients : at'[d] \in {"commit", "publish"} => d = c /\ s = at'[d]
    BY ONLY <1>1, <1>3
  <2>2. command' = command /\ (s \in {"commit", "publish"} => command[c] = "freeze" /\ candidate' \in Versions)
        /\ (s = "publish" => journal' = "boot-committed")
    OBVIOUS
  <2> QED BY ONLY <2>1, <2>2 DEF Publishing
<1> QED BY <1>2, <1>4, <1>5, <1>6

\* The steps of a command: the lock, the body, the status that follows.
LEMMA CommandKeepsHost ==
  ASSUME HostInv, NEW c \in Clients, CommandStep(c)
  PROVE  HostInv'
<1> USE DEF HostInv
<1>1. CASE Relock(c)
  <2>1. CASE LockFree /\ Recover /\ at' = [at EXCEPT ![c] = "read"]
    <3>1. command[c] \in Commands /\ command' = [command EXCEPT ![c] = command[c]]
      BY <1>1 DEF Relock, HostTypeOK
    <3>2. running # "off" /\ Allowed(command[c])
      BY <1>1, <3>1 DEF Relock, Allowed
    <3> QED BY <1>1, <2>1, <3>1, <3>2, EnterKeepsHost DEF Relock
  <2>2. CASE UNCHANGED host /\ at' = [at EXCEPT ![c] = "failed"]
    <3>1. HostTypeOK'
      BY <1>1, <2>2 DEF Relock, HostTypeOK
    <3>2. at'[c] = "failed" /\ command' = command /\ UNCHANGED host
      BY <1>1, <2>2 DEF Relock, HostTypeOK
    <3>3. \A d \in Clients \ {c} : at'[d] = at[d]
      BY <2>2 DEF HostTypeOK
    <3>4. command[c] # "none" /\ running # "off"
      BY <1>1 DEF Relock
    <3> HIDE DEF HostInv, host
    <3> QED BY <3>1, <3>2, <3>3, <3>4, CallKeepsHost
  <2> QED BY <1>1, <2>1, <2>2 DEF Relock, Enter
<1>2. CASE Snapshot(c) \/ Commit(c) \/ FreezeStops(c)
  <2>1. /\ at[c] \in {"body", "commit"} /\ command[c] = "freeze" /\ running = "thawed"
        /\ at[c] = "commit" => candidate \in Versions
    BY <1>2 DEF Snapshot, Commit, FreezeStops
  <2>2. HostTypeOK'
    <3>1. remote' \in BOOLEAN
      BY <1>2, Zenon DEF Snapshot, Commit, FreezeStops, HostTypeOK
    <3> QED BY <1>2, <3>1, ZenonT(40) DEF Snapshot, Commit, FreezeStops, HostTypeOK
  <2>3. RemoteForThawed'
    BY <1>2, Zenon DEF Snapshot, Commit, FreezeStops, RemoteForThawed
  <2>4. CommittedCandidate' /\ FrozenHasNoJournal'
    BY <1>2, <2>1 DEF Snapshot, Commit, FreezeStops, CommittedCandidate, FrozenHasNoJournal,
       HostTypeOK
  <2>5. CASE Snapshot(c)
    BY <2>1, <2>2, <2>3, <2>4, <2>5, LockedKeepsHost DEF Snapshot, HostTypeOK
  <2>6. CASE Commit(c) \/ FreezeStops(c)
    BY <2>1, <2>2, <2>3, <2>4, <2>6, LockedKeepsHost DEF Commit, FreezeStops
  <2> QED BY <1>2, <2>5, <2>6
<1>3. CASE Publish(c)
  <2>1. HostTypeOK'
    BY <1>3 DEF Publish, HostTypeOK, CommittedCandidate
  <2>2. RemoteForThawed'
    BY <1>3 DEF Publish, RemoteForThawed
  <2>3. CommittedCandidate' /\ FrozenHasNoJournal'
    BY <1>3 DEF Publish, CommittedCandidate, FrozenHasNoJournal
  <2> QED BY <1>3, <2>1, <2>2, <2>3, LockedKeepsHost DEF Publish
<1>4. CASE Thaw(c)
  <2>1. remote' \in BOOLEAN
    BY <1>4, Zenon DEF Thaw
  <2>2. HostTypeOK' /\ RemoteForThawed'
    BY <1>4, <2>1 DEF Thaw, HostTypeOK, RemoteForThawed
  <2>3. CommittedCandidate' /\ FrozenHasNoJournal'
    BY <1>4 DEF Thaw, CommittedCandidate, FrozenHasNoJournal
  <2> QED BY <1>4, <2>2, <2>3, LockedKeepsHost DEF Thaw
<1>5. CASE BootSuccess(c)
  <2>1. remote' \in BOOLEAN /\ (remote' => remote)
    BY <1>5, Zenon DEF BootSuccess, HostTypeOK
  <2>2. HostTypeOK' /\ RemoteForThawed'
    BY <1>5, <2>1 DEF BootSuccess, HostTypeOK, RemoteForThawed
  <2>3. CommittedCandidate' /\ FrozenHasNoJournal'
    BY <1>5 DEF BootSuccess, CommittedCandidate, FrozenHasNoJournal
  <2> QED BY <1>5, <2>2, <2>3, LockedKeepsHost DEF BootSuccess
<1>6. CASE Status(c) \/ ReadStatus(c) \/ WriteCache(c) \/ Fails(c)
  <2>1. UNCHANGED host /\ UNCHANGED command
    BY <1>6 DEF Status, ReadStatus, WriteCache, Fails
  <2>2. PICK s \in {"relock", "cache", "ok", "failed"} : at' = [at EXCEPT ![c] = s]
    BY <1>6 DEF Status, ReadStatus, WriteCache, Fails
  <2>3. at[c] \notin {"none", "failed"} /\ running \in Modes
    BY <1>6 DEF Status, ReadStatus, WriteCache, Fails, HostTypeOK
  <2>4. HostTypeOK'
    <3>1. printed' \in [Clients -> [scheduled: Modes, remote: BOOLEAN]]
      <4>1. [scheduled |-> scheduled, remote |-> remote] \in [scheduled: Modes, remote: BOOLEAN]
        BY DEF HostTypeOK
      <4> DEFINE told == [scheduled |-> scheduled, remote |-> remote]
      <4>2. printed' = printed \/ printed' = [printed EXCEPT ![c] = told]
        BY <1>6, Zenon DEF Status, ReadStatus, WriteCache, Fails
      <4>3. told \in [scheduled: Modes, remote: BOOLEAN]
        BY <4>1
      <4>4. printed \in [Clients -> [scheduled: Modes, remote: BOOLEAN]]
        BY DEF HostTypeOK
      <4> HIDE DEF told
      <4> QED BY <4>2, <4>3, <4>4, Zenon
    <3>2. fresh' \in [Clients -> Modes]
      <4>1. \E m \in Modes : fresh' = fresh \/ fresh' = [fresh EXCEPT ![c] = m]
        BY <1>6, Zenon DEF Status, ReadStatus, WriteCache, Fails, HostTypeOK
      <4>2. fresh \in [Clients -> Modes]
        BY DEF HostTypeOK
      <4> QED BY ONLY <4>1, <4>2
    <3>3. cache' = cache \/ cache' = [running |-> running, scheduled |-> fresh[c]]
      BY <1>6, Zenon DEF Status, ReadStatus, WriteCache, Fails
    <3>4. cache' \in [running: Modes, scheduled: Modes]
      <4>1. fresh[c] \in Modes /\ cache \in [running: Modes, scheduled: Modes]
        BY DEF HostTypeOK
      <4> QED BY ONLY <2>3, <3>3, <4>1 DEF Modes
    <3> QED BY <2>1, <2>2, <3>1, <3>2, <3>4 DEF HostTypeOK
  <2>5. \A d \in Clients \ {c} : at'[d] = at[d] /\ command'[d] = command[d]
    BY <2>1, <2>2 DEF HostTypeOK
  <2>6. at'[c] = s /\ command'[c] = command[c]
    BY <2>1, <2>2 DEF HostTypeOK
  <2>7. command[c] # "none" /\ UNCHANGED host
    BY <2>1, <2>3
  <2>8. s \in Locked => at[c] \in Locked
    BY <2>2
  <2>9. at'[c] \notin {"none", "commit", "publish"}
    BY <2>2, <2>6
  <2> HIDE DEF HostInv, host
  <2> QED BY <2>3, <2>4, <2>5, <2>6, <2>7, <2>8, <2>9, CallKeepsHost
<1> QED
  BY <1>1, <1>2, <1>3, <1>4, <1>5, <1>6 DEF CommandStep

\* A machine that goes down and comes up again.
LEMMA DownKeepsHost == ASSUME HostInv, HostDown PROVE HostInv'
<1> USE DEF HostInv, HostDown
<1>1. HostTypeOK'
  BY DEF HostTypeOK, NotPrinted
<1>2. \A c \in Clients : command'[c] = "none" /\ at'[c] = "none"
  OBVIOUS
<1>3. CallsMatch' /\ OneHolder' /\ NobodyWhenDown' /\ ModeOfCommand' /\ Publishing'
  BY <1>2
<1>4. RemoteForThawed'
  BY DEF RemoteForThawed
<1>5. FrozenHasNoJournal' /\ CommittedCandidate'
  BY DEF FrozenHasNoJournal, CommittedCandidate
<1> QED BY <1>1, <1>3, <1>4, <1>5

LEMMA BootKeepsHost ==
  ASSUME HostInv, HostBootsThawed \/ HostBootsFrozen \/ HostBootFails
  PROVE  HostInv'
<1> USE DEF HostInv, HostBootsThawed, HostBootsFrozen, HostBootFails
<1>1. UNCHANGED calls /\ \A c \in Clients : command[c] = "none" /\ at[c] = "none"
  BY DEF HostTypeOK
<1>2. remote' \in BOOLEAN /\ RemoteForThawed'
  <2>1. (remote' = remote /\ scheduled' = scheduled) \/ remote' = FALSE
    BY Zenon
  <2>2. CASE remote' = remote /\ scheduled' = scheduled
    BY <2>2, Zenon DEF HostTypeOK, RemoteForThawed
  <2>3. CASE remote' = FALSE
    BY <2>3 DEF RemoteForThawed
  <2> QED BY <2>1, <2>2, <2>3, Zenon
<1>3. HostTypeOK'
  BY <1>2, ZenonT(40) DEF HostTypeOK
<1>4. CallsMatch' /\ OneHolder' /\ NobodyWhenDown' /\ ModeOfCommand' /\ Publishing'
  BY <1>1
<1>5. FrozenHasNoJournal' /\ CommittedCandidate'
  BY DEF FrozenHasNoJournal, CommittedCandidate
<1> QED BY <1>2, <1>3, <1>4, <1>5

\* An update changes @ and nothing that is said here.
LEMMA WorkKeepsHost ==
  ASSUME HostInv, work' \in Versions,
         UNCHANGED <<running, scheduled, remote, baseline, journal, candidate, calls, cache>>
  PROVE  HostInv'
<1>1. RemoteForThawed'
  BY DEF HostInv, RemoteForThawed
<1> QED BY <1>1, ZenonT(40) DEF HostInv, HostTypeOK, FrozenHasNoJournal, CommittedCandidate

LEMMA StutterKeepsHost == ASSUME HostInv, UNCHANGED hostVars PROVE HostInv'
<1>1. RemoteForThawed'
  BY DEF HostInv, RemoteForThawed
<1> QED BY <1>1, ZenonT(40) DEF HostInv, HostTypeOK, FrozenHasNoJournal, CommittedCandidate

-----------------------------------------------------------------------------
(***************************************************************************)
(* What the steps of a call change, and what they leave alone.             *)
(***************************************************************************)
After == {"relock", "read", "cache", "ok"}

LEMMA RecoverEffect ==
  ASSUME UNCHANGED host \/ Recover
  PROVE  UNCHANGED <<running, work>> /\ (remote' => remote)
<1>1. CASE UNCHANGED host
  BY <1>1
<1>2. CASE Recover
  <2>1. UNCHANGED <<running, work>>
    BY <1>2 DEF Recover
  <2>2. remote' = FALSE \/ remote' = remote
    BY <1>2, Zenon DEF Recover, RollsBack, RollsForward
  <2>3. remote' => remote
    BY <2>2
  <2> QED BY <2>1, <2>3
<1> QED BY <1>1, <1>2

LEMMA InvokeEffect ==
  ASSUME HostInv, NEW c \in Clients, NEW k \in Commands, Invoke(c, k)
  PROVE  /\ UNCHANGED <<running, work, printed, cache>>
         /\ command' = [command EXCEPT ![c] = k]
         /\ at[c] = "none" /\ running # "off"
         /\ at'[c] \in {"body", "ok", "failed"} /\ (at'[c] = "ok" => k = "reboot")
         /\ \A d \in Clients \ {c} : at'[d] = at[d]
         /\ remote' => remote
<1>1. UNCHANGED <<running, work>> /\ (remote' => remote)
  BY RecoverEffect, Zenon DEF Invoke, Enter
<1>2. \E s \in {"body", "ok", "failed"} :
        at' = [at EXCEPT ![c] = s] /\ (s = "ok" => k = "reboot")
  BY DEF Invoke, Enter
<1>3. at \in [Clients -> CommandSteps]
  BY DEF HostInv, HostTypeOK
<1> QED BY <1>1, <1>2, <1>3 DEF Invoke

LEMMA CommandEffect ==
  ASSUME HostInv, NEW c \in Clients, CommandStep(c)
  PROVE  /\ UNCHANGED <<command, running, work>>
         /\ \A d \in Clients \ {c} : at'[d] = at[d] /\ printed'[d] = printed[d]
         /\ at[c] \notin {"none", "ok", "failed"} /\ at'[c] # "none"
         /\ remote' => remote \/ command[c] = "thaw --authorized"
         /\ \/ Status(c)
            \/ /\ UNCHANGED printed
               /\ command[c] = "status" /\ at'[c] \in After => at[c] \in After
<1> USE DEF HostInv, HostTypeOK
<1>1. CASE Relock(c)
  <2>1. UNCHANGED <<running, work>> /\ (remote' => remote)
    BY <1>1, RecoverEffect, Zenon DEF Relock, Enter
  <2>2. at'[c] \in {"read", "failed"} /\ \A d \in Clients \ {c} : at'[d] = at[d]
    BY <1>1, ZenonT(40) DEF Relock, Enter
  <2>3. UNCHANGED <<command, printed>> /\ at[c] = "relock"
    BY <1>1 DEF Relock
  <2> QED BY <2>1, <2>2, <2>3 DEF After
<1>2. CASE Snapshot(c) \/ Commit(c) \/ FreezeStops(c)
  <2>1. remote' => remote
    BY <1>2, Zenon DEF Snapshot, Commit, FreezeStops
  <2> QED BY <1>2, <2>1, ZenonT(40) DEF Snapshot, Commit, FreezeStops, After, Publishing
<1>3. CASE Publish(c)
  BY <1>3 DEF Publish, After, Publishing
<1>4. CASE Thaw(c)
  <2>1. remote' => command[c] = "thaw --authorized"
    BY <1>4, Zenon DEF Thaw
  <2> QED BY <1>4, <2>1 DEF Thaw, After
<1>5. CASE BootSuccess(c)
  <2>1. remote' => remote
    BY <1>5, Zenon DEF BootSuccess
  <2> QED BY <1>5, <2>1 DEF BootSuccess, After
<1>6. CASE Status(c)
  BY <1>6, ZenonT(40) DEF Status, After
<1>7. CASE ReadStatus(c) \/ WriteCache(c) \/ Fails(c)
  <2>1. UNCHANGED <<command, running, work, remote, printed>>
    BY <1>7 DEF ReadStatus, WriteCache, Fails
  <2>2. at[c] \in {"body", "commit", "publish", "read", "cache"}
    BY <1>7 DEF ReadStatus, WriteCache, Fails
  <2>3. PICK s \in {"cache", "ok", "failed"} :
          at' = [at EXCEPT ![c] = s] /\ (s # "failed" => at[c] \in After)
    BY <1>7 DEF ReadStatus, WriteCache, Fails, After
  <2>4. at'[c] = s /\ \A d \in Clients \ {c} : at'[d] = at[d]
    BY <2>3
  <2> QED BY ONLY <2>1, <2>2, <2>3, <2>4 DEF After
<1> QED
  BY <1>1, <1>2, <1>3, <1>4, <1>5, <1>6, <1>7 DEF CommandStep

LEMMA ReapedEffect ==
  ASSUME HostInv, NEW c \in Clients, Reaped(c)
  PROVE  /\ UNCHANGED host
         /\ command'[c] = "none" /\ at'[c] = "none"
         /\ \A d \in Clients \ {c} :
              at'[d] = at[d] /\ command'[d] = command[d] /\ printed'[d] = printed[d]
BY ZenonT(40) DEF HostInv, HostTypeOK, Reaped

-----------------------------------------------------------------------------
(***************************************************************************)
(* The three clients.                                                      *)
(***************************************************************************)
Flags == outdated \in BOOLEAN /\ overtaken \in BOOLEAN /\ rebooted \in BOOLEAN

\* The window is there while the machine is, and knows its mode when it is verified.
WindowInv ==
  /\ open => Up
  /\ busy => open
  /\ verified => open /\ shown = running
  /\ command[me] # "none" => command[me] = pending

\* Who runs what: only the play asks for the authorization.
Owners ==
  /\ \A c \in Clients : command[c] = "thaw --authorized" => c = controller
  /\ \A c \in Clients : command[c] = "thaw" => c = me

\* A task that runs a command runs its own, the others run none.
PlayInv ==
  command[controller] # "none" =>
    play \in CommandTasks /\ command[controller] = CommandOf[play]

\* The status on its way to the window is right, or it was overtaken.
SeenInv ==
  /\ pending = "status" /\ command[me] = "status" /\ at[me] \in After /\ ~overtaken =>
       printed[me].scheduled = scheduled
  /\ VerifiedShowsTruth

\* The status that confirms the thaw says so when the authorization is still there.
ConsumedInv ==
  /\ play = "confirm" /\ at[controller] \in After => (remote => printed[controller].remote)
  /\ ConsumedBeforeUpdate

\* The update is what is published, what @ is, and what any later freeze has captured.
Published ==
  baseline = Updated /\ work = Updated /\ candidate \in {Updated, None}

\* What holds of a play that no reboot has overtaken.
UpdateSafe ==
  /\ play \in UnderUpdate => running = "thawed"
  /\ play \in {"checkMode", "freeze"} => work = Updated
  /\ play = "freeze" /\ at[controller] \in {"commit", "publish"} => candidate = Updated
  /\ play = "freeze" /\ at[controller] \in After => Published
  /\ play \in AfterUpdate => Published
UpdateInv == ~rebooted => UpdateSafe

\* The inductive invariant.
ClientInv == WindowTypeOK /\ FleetTypeOK /\ Flags /\ WindowInv /\ Owners /\ PlayInv
IInv == HostInv /\ ClientInv /\ SeenInv /\ ConsumedInv /\ UpdateInv

LEMMA CommandOfTask == \A t \in CommandTasks :
  /\ CommandOf[t] \in {"status", "thaw --authorized", "boot-success", "freeze"}
  /\ t \notin Block \ {"checkMode", "freeze", "verify", "verifyStatus"}
  /\ t \notin Ended \cup {"rebootThawed", "awaitThawed", "rescue"}
  /\ CommandOf[t] = "thaw --authorized" <=> t = "thaw"
  /\ CommandOf[t] = "freeze" <=> t = "freeze"
  /\ t = "confirm" => CommandOf[t] = "status"
<1>1. CommandTasks = {"readMode", "thaw", "consume", "confirm", "checkMode", "freeze",
                      "verify", "verifyStatus"}
  BY DEF CommandTasks, CommandOf
<1>2. /\ CommandOf["readMode"] = "status" /\ CommandOf["thaw"] = "thaw --authorized"
      /\ CommandOf["consume"] = "boot-success" /\ CommandOf["confirm"] = "status"
      /\ CommandOf["checkMode"] = "status" /\ CommandOf["freeze"] = "freeze"
      /\ CommandOf["verify"] = "boot-success" /\ CommandOf["verifyStatus"] = "status"
  BY DEF CommandOf
<1> QED BY <1>1, <1>2 DEF Block, Ended

-----------------------------------------------------------------------------
\* A step of one client leaves the calls of the others alone.
LEMMA OthersSpared ==
  ASSUME HostInv, NEW c \in Clients, NEW d \in Clients, d # c,
         \/ \E k \in Commands : Invoke(c, k)
         \/ CommandStep(c) \/ Reaped(c) \/ UNCHANGED hostVars
  PROVE  /\ running' = running /\ work' = work
         /\ at'[d] = at[d] /\ command'[d] = command[d] /\ printed'[d] = printed[d]
         /\ command[c] # "thaw --authorized" => (remote' => remote)
<1>1. ASSUME NEW k \in Commands, Invoke(c, k)
      PROVE  /\ running' = running /\ work' = work
             /\ at'[d] = at[d] /\ command'[d] = command[d] /\ printed'[d] = printed[d]
             /\ remote' => remote
  <2>1. /\ running' = running /\ work' = work /\ printed' = printed
        /\ command' = [command EXCEPT ![c] = k] /\ at'[d] = at[d]
    BY <1>1, InvokeEffect
  <2>2. command'[d] = command[d]
    BY <2>1 DEF HostInv, HostTypeOK
  <2>3. remote' => remote
    BY <1>1, InvokeEffect, Zenon
  <2> QED BY <2>1, <2>2, <2>3
<1>2. CASE CommandStep(c)
  <2>1. /\ running' = running /\ work' = work /\ command' = command
        /\ at'[d] = at[d] /\ printed'[d] = printed[d]
    BY <1>2, CommandEffect
  <2>2. command[c] # "thaw --authorized" => (remote' => remote)
    BY <1>2, CommandEffect, Zenon
  <2> QED BY <2>1, <2>2
<1>3. CASE Reaped(c)
  <2>1. UNCHANGED host /\ at'[d] = at[d] /\ command'[d] = command[d] /\ printed'[d] = printed[d]
    BY <1>3, ReapedEffect
  <2>2. remote' = remote
    BY <2>1
  <2>3. remote' => remote
    BY <2>2, Zenon
  <2>4. running' = running /\ work' = work
    BY <2>1
  <2> QED BY <2>1, <2>3, <2>4, Zenon
<1>4. CASE UNCHANGED hostVars
  <2>1. remote' = remote
    BY <1>4
  <2>2. remote' => remote
    BY <2>1, Zenon
  <2>3. /\ running' = running /\ work' = work
        /\ at'[d] = at[d] /\ command'[d] = command[d] /\ printed'[d] = printed[d]
    BY <1>4
  <2> QED BY <2>2, <2>3, Zenon
<1> QED BY <1>1, <1>2, <1>3, <1>4, Zenon

\* What the manager does on the host.
LEMMA ManagerKinds ==
  ASSUME WindowTypeOK, ManagerActs
  PROVE  /\ UNCHANGED play
         /\ \/ pending \in Commands /\ Invoke(me, pending)
            \/ CommandStep(me) \/ Reaped(me) \/ UNCHANGED hostVars
<1>1. UNCHANGED play /\ ManagerStep
  BY DEF ManagerActs
<1>2. CASE OpenWindow \/ CloseWindow
  BY <1>1, <1>2, Zenon DEF OpenWindow, CloseWindow
<1>3. CASE \E a \in Buttons : Click(a)
  BY <1>1, <1>3, Zenon DEF Click
<1>4. CASE Authorized
  <2>1. pending \in Commands
    BY <1>4 DEF Authorized, busy, WindowTypeOK, Buttons
  <2> QED BY <1>1, <1>4, <2>1, Zenon DEF Authorized
<1>5. CASE HelperEnds
  <2>1. Reaped(me) \/ UNCHANGED hostVars
    BY <1>5, Zenon DEF HelperEnds, NotAuthorized, Failed, StatusFinished, ModeFinished,
       RebootFinished
  <2> QED BY <1>1, <2>1, Zenon
<1>6. CASE CommandStep(me)
  BY <1>1, <1>6, Zenon
<1> QED BY <1>1, <1>2, <1>3, <1>4, <1>5, <1>6, Zenon DEF ManagerStep

\* What the play does on the host.
LEMMA PlayKinds ==
  ASSUME PlayActs
  PROVE  /\ UNCHANGED windowVars
         /\ \/ play \in CommandTasks /\ CommandOf[play] \in Commands
               /\ Invoke(controller, CommandOf[play])
            \/ CommandStep(controller) \/ Reaped(controller) \/ UNCHANGED hostVars
            \/ UpdateStarts \/ UpdateEnds
<1>1. UNCHANGED windowVars /\ FleetStep
  BY Zenon DEF PlayActs
<1>2. CASE StartPlay \/ UpdateFails \/ Reconnects \/ RebootTimesOut \/ WriteMarker \/ Unreachable
  <2>1. UNCHANGED hostVars
    BY <1>2, Zenon DEF StartPlay, UpdateFails, Reconnects, RebootTimesOut, WriteMarker, Unreachable
  <2> QED BY <1>1, <2>1, Zenon
<1>3. CASE Ask
  <2>1. play \in CommandTasks /\ Invoke(controller, CommandOf[play])
    BY <1>3, Zenon DEF Ask
  <2>2. CommandOf[play] \in Commands
    BY <2>1, CommandOfTask
  <2> QED BY <1>1, <2>1, <2>2, Zenon
<1>4. CASE Answered \/ CommandTaskFails
  <2>1. Reaped(controller)
    BY <1>4, Zenon DEF Answered, CommandTaskFails
  <2> QED BY <1>1, <2>1, Zenon
<1>5. CASE CommandStep(controller) \/ UpdateStarts \/ UpdateEnds
  BY <1>1, <1>5, Zenon
<1> QED BY <1>1, <1>2, <1>3, <1>4, <1>5, Zenon DEF FleetStep

LEMMA Distinct ==
  /\ me \in Clients /\ controller \in Clients /\ service \in Clients
  /\ me # controller /\ me # service /\ controller # service
BY ManagerIsClient, PlaybookAssumption, ServiceIsClient DEF me, controller, service

\* The steps of the others leave the window and its helper alone.
LEMMA OthersSpareWindow ==
  ASSUME HostInv, ClientInv, PlayActs \/ HealthActs
  PROVE  /\ UNCHANGED windowVars /\ running' = running
         /\ at'[me] = at[me] /\ command'[me] = command[me] /\ printed'[me] = printed[me]
<1>1. CASE HealthActs
  <2>1. \/ \E k \in Commands : Invoke(service, k)
        \/ CommandStep(service)
    <3>1. "boot-success" \in Commands
      OBVIOUS
    <3> QED BY <1>1, <3>1, Zenon DEF HealthActs, HealthStep
  <2>2. UNCHANGED windowVars
    BY <1>1, Zenon DEF HealthActs
  <2> QED BY <2>1, <2>2, Distinct, OthersSpared
<1>2. CASE PlayActs
  <2>1. UNCHANGED windowVars
    BY <1>2, PlayKinds, Zenon
  <2>2. CASE UpdateStarts \/ UpdateEnds
    BY <2>1, <2>2 DEF UpdateStarts, UpdateEnds
  <2>3. CASE \/ \E k \in Commands : Invoke(controller, k)
             \/ CommandStep(controller) \/ Reaped(controller) \/ UNCHANGED hostVars
    BY <2>1, <2>3, Distinct, OthersSpared
  <2> QED BY <1>2, <2>2, <2>3, PlayKinds, Zenon
<1> QED BY <1>1, <1>2

\* The steps of the others leave the play and its connection alone.
LEMMA OthersSparePlay ==
  ASSUME HostInv, ClientInv, ManagerActs \/ HealthActs
  PROVE  /\ play' = play /\ running' = running /\ work' = work /\ (remote' => remote)
         /\ at'[controller] = at[controller] /\ command'[controller] = command[controller]
         /\ printed'[controller] = printed[controller]
<1> USE DEF ClientInv
<1>0. command[me] # "thaw --authorized" /\ command[service] # "thaw --authorized"
  BY Distinct DEF Owners
<1>1. CASE HealthActs
  <2>1. \/ \E k \in Commands : Invoke(service, k)
        \/ CommandStep(service)
    <3>1. "boot-success" \in Commands
      OBVIOUS
    <3> QED BY <1>1, <3>1, Zenon DEF HealthActs, HealthStep
  <2>2. play' = play
    BY <1>1, Zenon DEF HealthActs
  <2> QED BY <1>0, <2>1, <2>2, Distinct, OthersSpared
<1>2. CASE ManagerActs
  <2>1. play' = play
    BY <1>2, ManagerKinds, Zenon
  <2>2. \/ \E k \in Commands : Invoke(me, k)
        \/ CommandStep(me) \/ Reaped(me) \/ UNCHANGED hostVars
    BY <1>2, ManagerKinds, Zenon
  <2> QED BY <1>0, <2>1, <2>2, Distinct, OthersSpared
<1> QED BY <1>1, <1>2

-----------------------------------------------------------------------------
LEMMA StepHost == ASSUME HostInv, ClientInv, [Next]_vars PROVE HostInv'
<1> USE DEF ClientInv
<1>1. CASE ManagerActs
  BY <1>1, ManagerKinds, ManagerIsClient, InvokeKeepsHost, CommandKeepsHost, ReapedKeepsHost,
     StutterKeepsHost, Zenon
<1>2. CASE PlayActs
  <2>0. controller \in Clients
    BY Distinct
  <2>1. CASE UpdateStarts \/ UpdateEnds
    BY <2>1, PlaybookAssumption, WorkKeepsHost, ZenonT(40)
       DEF UpdateStarts, UpdateEnds, HostInv, HostTypeOK
  <2> QED
    BY <1>2, <2>0, <2>1, PlayKinds, InvokeKeepsHost, CommandKeepsHost, ReapedKeepsHost,
       StutterKeepsHost, Zenon
<1>3. CASE HealthActs
  BY <1>3, ServiceIsClient, InvokeKeepsHost, CommandKeepsHost DEF HealthActs, HealthStep
<1>4. CASE PlayReboots \/ GoesDown
  BY <1>4, DownKeepsHost DEF PlayReboots, GoesDown, RebootTask
<1>5. CASE Boots \/ BootFails
  BY <1>5, BootKeepsHost DEF Boots, BootFails
<1>6. CASE UNCHANGED vars
  BY <1>6, StutterKeepsHost DEF vars
<1> QED BY <1>1, <1>2, <1>3, <1>4, <1>5, <1>6 DEF Next

LEMMA StepFlags == ASSUME ClientInv, [Next]_vars PROVE Flags'
<1>1. CASE UNCHANGED vars
  BY <1>1, Zenon DEF vars, ClientInv, Flags
<1>2. CASE \E down \in BOOLEAN : Observe(down)
  <2>1. outdated' \in BOOLEAN
    BY <1>2, Zenon DEF Observe
  <2>2. overtaken' \in BOOLEAN
    BY <1>2, Zenon DEF Observe
  <2>3. rebooted' \in BOOLEAN
    BY <1>2, Zenon DEF Observe
  <2> QED BY <2>1, <2>2, <2>3, Zenon DEF Flags
<1>3. TRUE \in BOOLEAN /\ FALSE \in BOOLEAN
  OBVIOUS
<1> QED BY <1>1, <1>2, <1>3, Zenon
  DEF Next, ManagerActs, PlayActs, HealthActs, PlayReboots, GoesDown, Boots, BootFails

-----------------------------------------------------------------------------
\* The window is modal and has one helper; it goes down with the machine.
LEMMA StepWindow ==
  ASSUME HostInv, ClientInv, [Next]_vars
  PROVE  WindowTypeOK' /\ WindowInv'
<1> USE DEF ClientInv
<1>0. me \in Clients
  BY Distinct
<1>1. CASE ManagerActs
  <2>0. open => running # "off"
    BY DEF WindowInv
  <2>1. CASE OpenWindow
    <3>1. /\ open' = TRUE /\ verified' = FALSE /\ pending' = "status" /\ UNCHANGED hostVars
          /\ running # "off" /\ open = FALSE
      BY <2>1, Zenon DEF OpenWindow, RefreshLocal, StatusChanged, Run, WindowTypeOK
    <3>2. shown' \in Modes /\ rebootDue' \in BOOLEAN /\ rebootOffer' \in BOOLEAN
      <4>1. rebootDue' \in BOOLEAN
        BY <2>1, Zenon DEF OpenWindow, RefreshLocal, StatusChanged
      <4>2. rebootOffer' \in BOOLEAN
        BY <2>1, Zenon DEF OpenWindow, RefreshLocal, StatusChanged
      <4>3. shown' \in Modes
        BY <2>1 DEF OpenWindow, RefreshLocal, StatusChanged, HostInv, HostTypeOK
      <4> QED BY <4>1, <4>2, <4>3
    <3>3. pending = "none" /\ command[me] = "none"
      BY <3>1 DEF WindowInv, busy
    <3> QED BY <3>1, <3>2, <3>3 DEF WindowTypeOK, WindowInv, busy, Buttons
  <2>2. CASE CloseWindow
    BY <2>2 DEF CloseWindow, WindowTypeOK, WindowInv, busy
  <2>3. CASE \E a \in Buttons : Click(a)
    <3>1. PICK a \in Buttons : Click(a)
      BY <2>3
    <3>2. pending = "none" /\ command[me] = "none"
      BY <3>1 DEF Click, Enabled, Valid, busy, WindowInv, Buttons
    <3>3. UNCHANGED hostVars /\ UNCHANGED <<open, verified, shown, rebootDue, rebootOffer>>
      BY <3>1, Zenon DEF Click
    <3>4. pending' = a /\ open
      BY <3>1, Zenon DEF Click, Run
    <3>5. WindowTypeOK'
      BY <3>3, <3>4 DEF WindowTypeOK, Buttons
    <3>6. WindowInv'
      BY <3>2, <3>3, <3>4 DEF WindowInv, busy
    <3> QED BY <3>5, <3>6
  <2>4. CASE Authorized
    <3>1. command' = [command EXCEPT ![me] = pending] /\ UNCHANGED windowVars
      BY <2>4 DEF Authorized, Invoke
    <3>2. running' = running
      BY <1>0, <1>1, <2>4, InvokeEffect DEF Authorized, busy, WindowTypeOK, Buttons
    <3>3. command'[me] = pending
      BY <1>0, <3>1 DEF HostInv, HostTypeOK
    <3>4. WindowTypeOK'
      BY <3>1 DEF WindowTypeOK, windowVars
    <3>5. WindowInv'
      BY <3>1, <3>2, <3>3 DEF WindowInv, busy, windowVars
    <3> QED BY <3>4, <3>5
  <2>5. CASE NotAuthorized
    <3>1. /\ UNCHANGED hostVars /\ UNCHANGED <<open, verified, shown, rebootDue, rebootOffer>>
          /\ pending' = "none" /\ command[me] = "none"
      BY <2>5, Zenon DEF NotAuthorized, Forget
    <3>2. WindowTypeOK'
      BY <3>1 DEF WindowTypeOK
    <3>3. WindowInv'
      BY <3>1 DEF WindowInv, busy
    <3> QED BY <3>2, <3>3
  <2>6. CASE Failed \/ RebootFinished
    <3>1. /\ Reaped(me) /\ UNCHANGED <<open, verified, shown, rebootDue, rebootOffer>>
          /\ pending' = "none"
      BY <2>6, Zenon DEF Failed, RebootFinished, Forget
    <3>2. running' = running /\ command'[me] = "none"
      BY <1>0, <3>1, ReapedEffect
    <3>3. WindowTypeOK'
      BY <3>1 DEF WindowTypeOK
    <3>4. WindowInv'
      BY <3>1, <3>2 DEF WindowInv, busy
    <3> QED BY <3>3, <3>4
  <2>7. CASE StatusFinished
    <3>1. /\ Reaped(me) /\ UNCHANGED open /\ pending' = "none" /\ pending = "status"
          /\ verified' = TRUE /\ shown' = running
      BY <2>7, Zenon DEF StatusFinished, Forget, StatusChanged
    <3>2. rebootDue' \in BOOLEAN
      BY <2>7, Zenon DEF StatusFinished, StatusChanged
    <3>3. rebootOffer' \in BOOLEAN
      BY <2>7, Zenon DEF StatusFinished, StatusChanged
    <3>4. running' = running /\ command'[me] = "none"
      BY <1>0, <3>1, ReapedEffect
    <3>5. open /\ running \in Modes
      BY <2>0, <3>1 DEF WindowInv, busy, HostInv, HostTypeOK
    <3>6. WindowTypeOK'
      BY <3>1, <3>2, <3>3, <3>5 DEF WindowTypeOK
    <3>7. WindowInv'
      BY <2>0, <3>1, <3>4, <3>5 DEF WindowInv, busy
    <3> QED BY <3>6, <3>7
  <2>8. CASE ModeFinished
    <3>1. /\ Reaped(me) /\ UNCHANGED open /\ pending' = "none" /\ pending # "none"
          /\ verified' = FALSE /\ shown' = cache.running
          /\ rebootDue' = TRUE /\ rebootOffer' = TRUE
      BY <2>8 DEF ModeFinished, Forget
    <3>2. running' = running /\ command'[me] = "none"
      BY <1>0, <3>1, ReapedEffect
    <3>3. cache.running \in Modes
      BY DEF HostInv, HostTypeOK
    <3>4. WindowTypeOK'
      BY <3>1, <3>3 DEF WindowTypeOK
    <3>5. WindowInv'
      BY <2>0, <3>1, <3>2 DEF WindowInv, busy
    <3> QED BY <3>4, <3>5
  <2>9. CASE CommandStep(me) /\ UNCHANGED windowVars
    <3>1. command' = command /\ running' = running
      BY <1>0, <2>9, CommandEffect
    <3>2. WindowTypeOK'
      BY <2>9 DEF WindowTypeOK, windowVars
    <3>3. WindowInv'
      BY <2>9, <3>1 DEF WindowInv, busy, windowVars
    <3> QED BY <3>2, <3>3
  <2> QED
    BY <1>1, <2>1, <2>2, <2>3, <2>4, <2>5, <2>6, <2>7, <2>8, <2>9, Zenon
       DEF ManagerActs, ManagerStep, HelperEnds
<1>2. CASE PlayActs \/ HealthActs
  <2>1. /\ UNCHANGED windowVars /\ running' = running /\ command'[me] = command[me]
    BY <1>2, OthersSpareWindow
  <2>2. WindowTypeOK'
    BY <2>1 DEF WindowTypeOK, windowVars
  <2>3. WindowInv'
    BY <2>1 DEF WindowInv, busy, windowVars
  <2> QED BY <2>2, <2>3
<1>3. CASE PlayReboots \/ GoesDown
  <2>1. WindowGone /\ HostDown
    BY <1>3 DEF PlayReboots, GoesDown, RebootTask
  <2> QED BY <1>0, <2>1 DEF WindowGone, HostDown, WindowTypeOK, WindowInv, busy
<1>4. CASE Boots \/ BootFails
  <2>1. UNCHANGED windowVars /\ UNCHANGED command /\ running = "off"
    BY <1>4 DEF Boots, BootFails, HostBootsThawed, HostBootsFrozen, HostBootFails
  <2>2. open = FALSE /\ verified = FALSE
    BY <2>1 DEF WindowInv, WindowTypeOK
  <2>3. WindowTypeOK'
    BY <2>1 DEF WindowTypeOK, windowVars
  <2>4. WindowInv'
    BY <2>1, <2>2 DEF WindowInv, busy, windowVars
  <2> QED BY <2>3, <2>4
<1>5. CASE UNCHANGED vars
  BY <1>5 DEF vars, WindowTypeOK, WindowInv, busy, windowVars
<1> QED BY <1>1, <1>2, <1>3, <1>4, <1>5 DEF Next

-----------------------------------------------------------------------------
LEMMA StepOwners == ASSUME HostInv, ClientInv, [Next]_vars PROVE Owners'
<1> USE DEF ClientInv
<1>0. command \in [Clients -> Commands \cup {"none"}]
  BY DEF HostInv, HostTypeOK
<1>1. ASSUME NEW c \in Clients, NEW k \in Commands, Invoke(c, k),
             k = "thaw --authorized" => c = controller, k = "thaw" => c = me
      PROVE  Owners'
  BY <1>0, <1>1 DEF Owners, Invoke
<1>2. ASSUME NEW c \in Clients, Reaped(c)
      PROVE  Owners'
  BY <1>0, <1>2 DEF Owners, Reaped
<1>3. CASE UNCHANGED command
  BY <1>3 DEF Owners
<1>4. CASE \E c \in Clients : CommandStep(c)
  BY <1>3, <1>4, CommandEffect
<1>5. UNCHANGED hostVars => UNCHANGED command
  OBVIOUS
<1>6. CASE ManagerActs
  <2>1. pending # "thaw --authorized"
    BY DEF WindowTypeOK, Buttons
  <2>2. me \in Clients
    BY Distinct
  <2> QED BY <1>1, <1>2, <1>3, <1>4, <1>5, <1>6, <2>1, <2>2, ManagerKinds, Zenon
<1>7. CASE PlayActs
  <2>1. controller \in Clients
    BY Distinct
  <2>2. CASE UpdateStarts \/ UpdateEnds
    BY <1>3, <2>2 DEF UpdateStarts, UpdateEnds
  <2>3. play \in CommandTasks => CommandOf[play] # "thaw"
    BY CommandOfTask
  <2> QED BY <1>1, <1>2, <1>3, <1>4, <1>5, <1>7, <2>1, <2>2, <2>3, PlayKinds, Zenon
<1>8. CASE HealthActs
  <2>1. service \in Clients /\ "boot-success" \in Commands
    BY Distinct
  <2>2. "boot-success" # "thaw" /\ "boot-success" # "thaw --authorized"
    OBVIOUS
  <2> QED BY <1>1, <1>4, <1>8, <2>1, <2>2, Zenon DEF HealthActs, HealthStep
<1>9. CASE PlayReboots \/ GoesDown
  BY <1>9 DEF PlayReboots, GoesDown, RebootTask, HostDown, Owners
<1>10. CASE Boots \/ BootFails \/ UNCHANGED vars
  BY <1>3, <1>10 DEF Boots, BootFails, HostBootsThawed, HostBootsFrozen, HostBootFails, vars
<1> QED BY <1>6, <1>7, <1>8, <1>9, <1>10 DEF Next

\* The play is at one task at a time, and its connection serves that task.
LEMMA StepPlay ==
  ASSUME HostInv, ClientInv, [Next]_vars
  PROVE  FleetTypeOK' /\ PlayInv'
<1> USE DEF ClientInv
<1>0. controller \in Clients /\ play \in Tasks
  BY Distinct DEF FleetTypeOK
<1>1. CASE PlayActs
  <2>1. CASE StartPlay \/ RebootTimesOut \/ Unreachable \/ UpdateFails \/ WriteMarker \/ Reconnects
    <3>1. UNCHANGED hostVars /\ play' \in Tasks
      BY <2>1, <1>0 DEF StartPlay, RebootTimesOut, Unreachable, UpdateFails, WriteMarker,
         Reconnects, Task, TaskFails, Tasks, Ended, Block, CommandTasks, CommandOf
    <3>2. command[controller] = "none"
      BY <1>0, <2>1, CommandOfTask DEF PlayInv, HostInv, StartPlay, RebootTimesOut, Unreachable,
         UpdateFails, WriteMarker, Reconnects, Ended, Block
    <3> QED BY <3>1, <3>2 DEF FleetTypeOK, PlayInv
  <2>2. CASE UpdateStarts \/ UpdateEnds
    <3>1. UNCHANGED command /\ play' \in Tasks
      BY <2>2 DEF UpdateStarts, UpdateEnds, Task, Tasks, Block, CommandTasks, CommandOf
    <3>2. command[controller] = "none"
      BY <2>2, CommandOfTask DEF UpdateStarts, UpdateEnds, PlayInv, Block
    <3> QED BY <3>1, <3>2 DEF FleetTypeOK, PlayInv
  <2>3. CASE Ask
    <3>1. play' = play /\ play \in CommandTasks
          /\ command' = [command EXCEPT ![controller] = CommandOf[play]]
      BY <2>3 DEF Ask, Invoke
    <3>2. command'[controller] = CommandOf[play]
      BY <1>0, <3>1 DEF HostInv, HostTypeOK
    <3> QED BY <1>0, <3>1, <3>2 DEF FleetTypeOK, PlayInv
  <2>4. CASE Answered \/ CommandTaskFails
    <3>1. Reaped(controller)
      BY <2>4, Zenon DEF Answered, CommandTaskFails
    <3>2. command'[controller] = "none"
      BY <1>0, <3>1, ReapedEffect
    <3>3. play' \in Tasks
      BY <2>4 DEF Answered, CommandTaskFails, Task, TaskFails, AfterReadMode, AfterConfirm,
         AfterCheckMode, AfterVerifyStatus, Tasks, Ended, Block, CommandTasks, CommandOf
    <3> QED BY <3>2, <3>3 DEF FleetTypeOK, PlayInv
  <2>5. CASE CommandStep(controller) /\ UNCHANGED play
    <3>1. command' = command
      BY <1>0, <2>5, CommandEffect
    <3> QED BY <2>5, <3>1 DEF FleetTypeOK, PlayInv
  <2> QED BY <1>1, <2>1, <2>2, <2>3, <2>4, <2>5, Zenon DEF PlayActs, FleetStep
<1>2. CASE ManagerActs \/ HealthActs
  BY <1>2, OthersSparePlay DEF FleetTypeOK, PlayInv
<1>3. CASE PlayReboots \/ GoesDown
  <2>1. command'[controller] = "none"
    BY <1>0, <1>3 DEF PlayReboots, GoesDown, RebootTask, HostDown
  <2>2. play' \in Tasks
    BY <1>0, <1>3 DEF PlayReboots, GoesDown, RebootTask, ConnectionLost, Task, Tasks, Ended, Block
  <2> QED BY <2>1, <2>2 DEF FleetTypeOK, PlayInv
<1>4. CASE Boots \/ BootFails \/ UNCHANGED vars
  <2>1. play' = play
    BY <1>4, Zenon DEF Boots, BootFails, vars
  <2>2. command' = command
    BY <1>4 DEF Boots, BootFails, HostBootsThawed, HostBootsFrozen, HostBootFails, vars
  <2> QED BY <2>1, <2>2 DEF FleetTypeOK, PlayInv
<1> QED BY <1>1, <1>2, <1>3, <1>4 DEF Next

LEMMA StepClient == ASSUME HostInv, ClientInv, [Next]_vars PROVE ClientInv'
BY StepFlags, StepWindow, StepOwners, StepPlay DEF ClientInv

-----------------------------------------------------------------------------
(***************************************************************************)
(* What the window is told.                                                *)
(***************************************************************************)
LEMMA Observed ==
  ASSUME [Next]_vars
  PROVE  \/ UNCHANGED vars
         \/ \E down \in BOOLEAN : Observe(down)
<1>1. TRUE \in BOOLEAN /\ FALSE \in BOOLEAN
  OBVIOUS
<1> QED BY <1>1, Zenon
  DEF Next, ManagerActs, PlayActs, HealthActs, PlayReboots, GoesDown, Boots, BootFails

\* Only a status makes the window verified, and nothing else changes what it then shows.
LEMMA VerifiedLasts ==
  ASSUME HostInv, ClientInv, [Next]_vars, verified', ~StatusFinished
  PROVE  verified /\ rebootDue' = rebootDue /\ running' = running
<1>0. me \in Clients
  BY Distinct
<1>1. CASE ManagerActs
  <2>1. running' = running
    <3>1. \/ \E k \in Commands : Invoke(me, k)
          \/ CommandStep(me) \/ Reaped(me) \/ UNCHANGED hostVars
      BY <1>1, ManagerKinds, Zenon DEF ClientInv
    <3> QED BY <3>1, Distinct, OthersSpared
  <2>2. UNCHANGED <<verified, rebootDue>>
    <3>1. ManagerStep
      BY <1>1, Zenon DEF ManagerActs
    <3>2. ~OpenWindow
      BY Zenon DEF OpenWindow, RefreshLocal, StatusChanged
    <3>3. ~CloseWindow
      BY Zenon DEF CloseWindow
    <3>4. ~ModeFinished
      BY Zenon DEF ModeFinished
    <3>5. CASE (\E a \in Buttons : Click(a)) \/ NotAuthorized \/ Failed \/ RebootFinished
      BY <3>5, Zenon DEF Click, NotAuthorized, Failed, RebootFinished
    <3>6. CASE UNCHANGED windowVars
      BY <3>6 DEF windowVars
    <3> QED BY <3>1, <3>2, <3>3, <3>4, <3>5, <3>6, Zenon DEF ManagerStep, Authorized, HelperEnds
  <2>3. verified
    BY <2>2, Zenon
  <2> QED BY <2>1, <2>2, <2>3, Zenon
<1>2. CASE PlayActs \/ HealthActs
  <2>1. UNCHANGED windowVars /\ running' = running
    BY <1>2, OthersSpareWindow, Zenon
  <2>2. UNCHANGED <<verified, rebootDue>>
    BY <2>1 DEF windowVars
  <2>3. verified
    BY <2>2, Zenon
  <2> QED BY <2>1, <2>2, <2>3, Zenon
<1>3. ~PlayReboots /\ ~GoesDown
  BY Zenon DEF PlayReboots, GoesDown, WindowGone
<1>4. CASE Boots \/ BootFails
  <2>1. running = "off"
    BY <1>4 DEF Boots, BootFails, HostBootsThawed, HostBootsFrozen, HostBootFails
  <2>2. ~verified
    BY <2>1, Zenon DEF ClientInv, WindowInv
  <2>3. verified' = verified
    BY <1>4 DEF Boots, BootFails, windowVars
  <2> QED BY <2>2, <2>3, Zenon
<1>5. CASE UNCHANGED vars
  <2>1. UNCHANGED <<verified, rebootDue>> /\ running' = running
    BY <1>5 DEF vars, windowVars
  <2>2. verified
    BY <2>1, Zenon
  <2> QED BY <2>1, <2>2, Zenon
<1> QED BY <1>1, <1>2, <1>3, <1>4, <1>5, Zenon DEF Next

\* A status on its way has been on its way, unless this step has read it.
LEMMA PrintedLasts ==
  ASSUME HostInv, ClientInv, [Next]_vars, ~Status(me),
         pending' = "status", command'[me] = "status", at'[me] \in After
  PROVE  /\ pending = "status" /\ command[me] = "status" /\ at[me] \in After
         /\ printed'[me] = printed[me]
<1>0. me \in Clients /\ at \in [Clients -> CommandSteps]
  BY Distinct DEF HostInv, HostTypeOK
<1>1. CASE ManagerActs
  <2>1. CASE OpenWindow \/ CloseWindow \/ \E a \in Buttons : Click(a)
    <3>1. ~busy /\ UNCHANGED hostVars
      <4>1. OpenWindow => ~busy
        BY Zenon DEF OpenWindow, ClientInv, WindowInv
      <4>2. CloseWindow => ~busy
        BY Zenon DEF CloseWindow
      <4>3. (\E a \in Buttons : Click(a)) => ~busy
        BY DEF Click, Enabled, Valid, Buttons
      <4>4. UNCHANGED hostVars
        BY <2>1, Zenon DEF OpenWindow, CloseWindow, Click
      <4> QED BY <2>1, <4>1, <4>2, <4>3, <4>4, Zenon
    <3>2. command[me] = "none"
      BY <3>1 DEF ClientInv, WindowInv, busy
    <3> QED BY <3>1, <3>2
  <2>2. ~Authorized
    <3>1. SUFFICES ASSUME Authorized PROVE FALSE
      OBVIOUS
    <3>2. pending \in Commands /\ Invoke(me, pending) /\ pending' = pending
      BY <3>1 DEF Authorized, busy, ClientInv, WindowTypeOK, Buttons, windowVars
    <3>3. at'[me] \in {"body", "ok", "failed"} /\ (at'[me] = "ok" => pending = "reboot")
      BY <1>0, <3>2, InvokeEffect
    <3> QED BY <3>2, <3>3 DEF After
  <2>3. ~HelperEnds
    BY DEF HelperEnds, NotAuthorized, Failed, StatusFinished, ModeFinished, RebootFinished, Forget
  <2>4. CASE CommandStep(me) /\ UNCHANGED windowVars
    <3>1. command' = command /\ pending' = pending
      BY <1>0, <2>4, CommandEffect DEF windowVars
    <3>2. printed' = printed /\ at[me] \in After
      BY <1>0, <2>4, <3>1, CommandEffect
    <3> QED BY <3>1, <3>2
  <2> QED BY <1>1, <2>1, <2>2, <2>3, <2>4, Zenon DEF ManagerActs, ManagerStep
<1>2. CASE PlayActs \/ HealthActs
  BY <1>2, OthersSpareWindow DEF windowVars
<1>3. ~PlayReboots /\ ~GoesDown
  BY DEF PlayReboots, GoesDown, WindowGone
<1>4. ~Boots /\ ~BootFails
  BY <1>0 DEF Boots, BootFails, HostBootsThawed, HostBootsFrozen, HostBootFails, HostInv
<1>5. CASE UNCHANGED vars
  BY <1>5 DEF vars, windowVars
<1> QED BY <1>1, <1>2, <1>3, <1>4, <1>5, Zenon DEF Next

LEMMA StepSeen == ASSUME HostInv, ClientInv, SeenInv, [Next]_vars PROVE SeenInv'
<1>0. me \in Clients
  BY Distinct
<1>1. CASE UNCHANGED vars
  <2>1. /\ UNCHANGED <<pending, command, at, printed, scheduled, running>>
        /\ UNCHANGED <<overtaken, outdated, verified, rebootDue>>
    BY <1>1 DEF vars, windowVars
  <2> QED BY <2>1, Zenon DEF SeenInv, VerifiedShowsTruth
<1>2. CASE \E down \in BOOLEAN : Observe(down)
  <2>0. PICK down \in BOOLEAN : Observe(down)
    BY <1>2
  <2>1. ASSUME pending' = "status", command'[me] = "status", at'[me] \in After, ~overtaken'
        PROVE  printed'[me].scheduled = scheduled'
    <3>1. Status(me) \/ (~overtaken /\ scheduled' = scheduled)
      BY <2>0, <2>1, Zenon DEF Observe, Changed
    <3>2. CASE Status(me)
      <4>1. printed' = [printed EXCEPT ![me] = [scheduled |-> scheduled, remote |-> remote]]
            /\ scheduled' = scheduled
        BY <3>2 DEF Status
      <4>2. printed'[me] = [scheduled |-> scheduled, remote |-> remote]
        BY <1>0, <4>1 DEF HostInv, HostTypeOK
      <4> QED BY <4>1, <4>2
    <3>3. CASE ~Status(me) /\ ~overtaken /\ scheduled' = scheduled
      BY <2>1, <3>3, PrintedLasts, Zenon DEF SeenInv
    <3> QED BY <3>1, <3>2, <3>3
  <2>2. ASSUME verified', ~outdated'
        PROVE  rebootDue' <=> scheduled' # running'
    <3>1. scheduled' = scheduled
      BY <2>0, <2>2, Zenon DEF Observe, Changed
    <3>2. CASE StatusFinished
      <4>1. pending = "status" /\ at[me] = "ok" /\ Reaped(me)
        BY <3>2 DEF StatusFinished
      <4>2. rebootDue' = (printed[me].scheduled # running)
        BY <3>2, Zenon DEF StatusFinished, StatusChanged
      <4>3. ~overtaken
        BY <2>0, <2>2, <3>2, Zenon DEF Observe
      <4>4. command[me] = "status" /\ at[me] \in After
        BY <1>0, <4>1 DEF ClientInv, WindowInv, HostInv, After
      <4>5. printed[me].scheduled = scheduled
        BY <4>1, <4>3, <4>4, Zenon DEF SeenInv
      <4>6. running' = running
        BY <1>0, <4>1, ReapedEffect
      <4>7. rebootDue' <=> scheduled # running
        BY <4>2, <4>5, Zenon
      <4> QED BY <3>1, <4>6, <4>7, Zenon
    <3>3. CASE ~StatusFinished
      <4>1. ~outdated
        BY <2>0, <2>2, <3>3, Zenon DEF Observe
      <4>2. verified /\ rebootDue' = rebootDue /\ running' = running
        BY <2>2, <3>3, VerifiedLasts, Zenon
      <4> QED BY <3>1, <4>1, <4>2, Zenon DEF SeenInv, VerifiedShowsTruth
    <3> QED BY <3>2, <3>3
  <2> QED BY <2>1, <2>2, Zenon DEF SeenInv, VerifiedShowsTruth
<1> QED BY <1>1, <1>2, Observed, Zenon

-----------------------------------------------------------------------------
(***************************************************************************)
(* The authorization is gone before the update starts.                     *)
(***************************************************************************)
Past == Block \cup {"rescue", "rescued", "done"}

LEMMA StepConsumed == ASSUME HostInv, ClientInv, ConsumedInv, [Next]_vars PROVE ConsumedInv'
<1> USE DEF ClientInv
<1>0. controller \in Clients /\ at \in [Clients -> CommandSteps] /\ remote \in BOOLEAN
  BY Distinct DEF HostInv, HostTypeOK
<1>a. play = "confirm" /\ at[controller] \in After /\ remote => printed[controller].remote
  BY Zenon DEF ConsumedInv
<1>b. play \in Past => ~remote
  BY Zenon DEF ConsumedInv, ConsumedBeforeUpdate, Past
<1> SUFFICES
      /\ play' = "confirm" /\ at'[controller] \in After /\ remote' => printed'[controller].remote
      /\ play' \in Past => ~remote'
  BY Zenon DEF ConsumedInv, ConsumedBeforeUpdate, Past
<1>1. CASE PlayActs
  <2>1. CASE Answered
    <3>1. Reaped(controller) /\ at[controller] = "ok"
      BY <2>1 DEF Answered
    <3>2. remote' = remote /\ at'[controller] = "none"
      BY <1>0, <3>1, ReapedEffect
    <3>3. ASSUME play' \in Past PROVE ~remote
      <4>1. play \in Past \/ (play = "confirm" /\ ~printed[controller].remote)
        BY <2>1, <3>3, CommandOfTask DEF Answered, Task, TaskFails, Past, Block, AfterReadMode,
           AfterConfirm, AfterCheckMode, AfterVerifyStatus, Told
      <4>2. at[controller] \in After
        BY <3>1 DEF After
      <4> QED BY <1>a, <1>b, <4>1, <4>2, Zenon
    <3>4. at'[controller] \notin After
      BY <3>2 DEF After
    <3> QED BY <3>2, <3>3, <3>4, Zenon
  <2>2. CASE \/ StartPlay \/ CommandTaskFails \/ UpdateStarts \/ UpdateEnds \/ UpdateFails
             \/ Reconnects \/ RebootTimesOut \/ WriteMarker \/ Unreachable
    <3>1. remote' = remote
      <4>1. CASE CommandTaskFails
        BY <1>0, <4>1, ReapedEffect DEF CommandTaskFails
      <4>2. CASE StartPlay \/ UpdateFails \/ Reconnects \/ RebootTimesOut \/ WriteMarker \/ Unreachable
        BY <4>2 DEF StartPlay, UpdateFails, Reconnects, RebootTimesOut, WriteMarker, Unreachable
      <4>3. CASE UpdateStarts \/ UpdateEnds
        BY <4>3 DEF UpdateStarts, UpdateEnds
      <4> QED BY <2>2, <4>1, <4>2, <4>3, Zenon
    <3>2. play' # "confirm" /\ (play' \in Past => play \in Past)
      BY <2>2 DEF StartPlay, CommandTaskFails, UpdateStarts, UpdateEnds, UpdateFails,
         Reconnects, RebootTimesOut, WriteMarker, Unreachable, Task, TaskFails, Past, Block
    <3> QED BY <1>b, <3>1, <3>2, Zenon
  <2>3. CASE Ask
    <3>1. play' = play /\ play \in CommandTasks /\ Invoke(controller, CommandOf[play])
      BY <2>3 DEF Ask
    <3>2. CommandOf[play] \in Commands /\ CommandOf[play] # "reboot"
      BY <3>1, CommandOfTask
    <3>3. at'[controller] \in {"body", "failed"}
      BY <1>0, <3>1, <3>2, InvokeEffect
    <3>4. remote' => remote
      BY <1>0, <3>1, <3>2, InvokeEffect, Zenon
    <3>5. at'[controller] \notin After
      BY <3>3 DEF After
    <3> QED BY <1>b, <3>1, <3>4, <3>5, Zenon
  <2>4. CASE CommandStep(controller) /\ play' = play
    <3>1. command[controller] = CommandOf[play] /\ play \in CommandTasks
      BY <1>0, <2>4, CommandEffect DEF PlayInv, HostInv
    <3>2. ASSUME play # "thaw" PROVE remote' => remote
      <4>1. command[controller] # "thaw --authorized"
        BY <3>1, <3>2, CommandOfTask
      <4> QED BY <1>0, <2>4, <4>1, CommandEffect, Zenon
    <3>3. play \in Past \cup {"confirm"} => play # "thaw"
      BY DEF Past, Block
    <3>4. ASSUME play = "confirm", at'[controller] \in After, remote'
          PROVE  printed'[controller].remote
      <4>1. CASE Status(controller)
        <5>1. /\ printed' = [printed EXCEPT
                               ![controller] = [scheduled |-> scheduled, remote |-> remote]]
              /\ remote' = remote
          BY <4>1 DEF Status
        <5>2. printed'[controller] = [scheduled |-> scheduled, remote |-> remote]
          BY <1>0, <5>1 DEF HostInv, HostTypeOK
        <5>3. printed'[controller].remote = remote
          BY <5>2
        <5> QED BY <3>4, <5>1, <5>3, Zenon
      <4>2. CASE ~Status(controller)
        <5>1. command[controller] = "status"
          BY <3>1, <3>4, CommandOfTask
        <5>2. printed' = printed /\ at[controller] \in After
          BY <1>0, <2>4, <3>4, <4>2, <5>1, CommandEffect
        <5>3. remote
          BY <3>2, <3>3, <3>4, Zenon
        <5> QED BY <1>a, <3>4, <5>2, <5>3, Zenon
      <4> QED BY <4>1, <4>2
    <3>5. ASSUME play \in Past PROVE ~remote'
      BY <1>b, <3>2, <3>3, <3>5, Zenon
    <3> QED BY <2>4, <3>4, <3>5, Zenon
  <2> QED BY <1>1, <2>1, <2>2, <2>3, <2>4, Zenon DEF PlayActs, FleetStep
<1>2. CASE ManagerActs \/ HealthActs
  <2>1. /\ play' = play /\ at'[controller] = at[controller]
        /\ printed'[controller] = printed[controller]
    BY <1>2, OthersSparePlay, Zenon
  <2>2. remote' => remote
    BY <1>2, OthersSparePlay, Zenon
  <2> QED BY <1>a, <1>b, <2>1, <2>2, Zenon
<1>3. CASE PlayReboots \/ GoesDown
  <2>1. remote' = remote /\ at'[controller] \notin After
    BY <1>0, <1>3 DEF PlayReboots, GoesDown, RebootTask, HostDown, After
  <2>2. play' \in Past => play \in Past
    BY <1>3 DEF PlayReboots, GoesDown, RebootTask, ConnectionLost, Task, Past, Block
  <2> QED BY <1>b, <2>1, <2>2, Zenon
<1>4. CASE Boots \/ BootFails
  <2>1. play' = play
    BY <1>4, Zenon DEF Boots, BootFails
  <2>2. remote' = remote \/ remote' = FALSE
    BY <1>4, Zenon DEF Boots, BootFails, HostBootsThawed, HostBootsFrozen, HostBootFails
  <2>3. at' = at /\ at[controller] = "none"
    BY <1>0, <1>4 DEF Boots, BootFails, HostBootsThawed, HostBootsFrozen, HostBootFails, HostInv
  <2>4. at'[controller] \notin After
    BY <2>3 DEF After
  <2>5. remote' => remote
    BY <2>2, Zenon
  <2> QED BY <1>b, <2>1, <2>4, <2>5, Zenon
<1>5. CASE UNCHANGED vars
  <2>1. UNCHANGED <<play, remote, at, printed>>
    BY <1>5 DEF vars
  <2> QED BY <1>a, <1>b, <2>1, Zenon
<1> QED BY <1>1, <1>2, <1>3, <1>4, <1>5, Zenon DEF Next

-----------------------------------------------------------------------------
(***************************************************************************)
(* What a play publishes.  Once the update is what is published and what   *)
(* is in @, no command of anybody can publish anything else.               *)
(***************************************************************************)
ClientActs(c) ==
  \/ \E k \in Commands : Invoke(c, k)
  \/ CommandStep(c) \/ Reaped(c) \/ UNCHANGED hostVars

LEMMA PublishedLasts ==
  ASSUME HostInv, NEW c \in Clients, ClientActs(c), Published
  PROVE  Published'
<1> USE DEF Published
<1>1. CASE Recover \/ UNCHANGED host
  BY <1>1, VersionAssumption DEF Recover, RollsBack, RollsForward, HostInv, CommittedCandidate
<1>2. CASE \E k \in Commands : Invoke(c, k)
  BY <1>1, <1>2, Zenon DEF Invoke, Enter
<1>3. CASE Relock(c)
  BY <1>1, <1>3, Zenon DEF Relock, Enter
<1>4. CASE Snapshot(c) \/ Commit(c) \/ FreezeStops(c) \/ Thaw(c) \/ BootSuccess(c)
  BY <1>4 DEF Snapshot, Commit, FreezeStops, Thaw, BootSuccess
<1>5. CASE Publish(c)
  BY <1>5, VersionAssumption DEF Publish, HostInv
<1>6. CASE Status(c) \/ ReadStatus(c) \/ WriteCache(c) \/ Fails(c)
  BY <1>1, <1>6, Zenon DEF Status, ReadStatus, WriteCache, Fails
<1>7. CASE Reaped(c) \/ UNCHANGED hostVars
  BY <1>7 DEF Reaped
<1> QED BY <1>2, <1>3, <1>4, <1>5, <1>6, <1>7, Zenon DEF ClientActs, CommandStep

\* Nobody changes the disk while somebody else has the lock.
LEMMA LockHeld ==
  ASSUME HostInv, NEW c \in Clients, NEW d \in Clients, c # d, at[d] \in Locked, ClientActs(c)
  PROVE  UNCHANGED host
<1>1. ~LockFree /\ at[c] \notin Locked
  BY DEF HostInv, LockFree
<1>2. CASE \E k \in Commands : Invoke(c, k)
  BY <1>1, <1>2, Zenon DEF Invoke, Enter
<1>3. CASE Relock(c)
  BY <1>1, <1>3, Zenon DEF Relock, Enter
<1>4. /\ ~Snapshot(c) /\ ~Commit(c) /\ ~FreezeStops(c) /\ ~Thaw(c) /\ ~BootSuccess(c)
      /\ ~Publish(c)
  BY <1>1 DEF Snapshot, Commit, FreezeStops, Thaw, BootSuccess, Publish
<1>5. CASE Status(c) \/ ReadStatus(c) \/ WriteCache(c) \/ Fails(c)
  BY <1>5, Zenon DEF Status, ReadStatus, WriteCache, Fails
<1>6. CASE Reaped(c) \/ UNCHANGED hostVars
  BY <1>6 DEF Reaped
<1> QED BY <1>2, <1>3, <1>4, <1>5, <1>6, Zenon DEF ClientActs, CommandStep

\* The manager and the boot-health service while the play waits for something.
OtherClient == {me, service}

LEMMA OthersAct ==
  ASSUME WindowTypeOK, ManagerActs \/ HealthActs
  PROVE  \E c \in OtherClient : c \in Clients /\ c # controller /\ ClientActs(c)
<1>0. me \in OtherClient /\ service \in OtherClient
  BY DEF OtherClient
<1>1. CASE ManagerActs
  <2>1. ClientActs(me)
    BY <1>1, ManagerKinds, Zenon DEF ClientActs
  <2> QED BY <1>0, <2>1, Distinct, Zenon
<1>2. CASE HealthActs
  <2>1. "boot-success" \in Commands
    OBVIOUS
  <2>2. ClientActs(service)
    BY <1>2, <2>1, Zenon DEF HealthActs, HealthStep, ClientActs
  <2> QED BY <1>0, <2>2, Distinct, Zenon
<1> QED BY <1>1, <1>2

LEMMA PlayKeepsUpdate ==
  ASSUME HostInv, ClientInv, PlayActs,
         play' \in UnderUpdate \cup AfterUpdate, UpdateSafe
  PROVE  UpdateSafe'
<1> USE DEF ClientInv
<1>0. controller \in Clients /\ at \in [Clients -> CommandSteps] /\ FleetStep
  BY Distinct DEF HostInv, HostTypeOK, PlayActs
<1>1. CASE Answered
  <2>1. Reaped(controller) /\ at[controller] = "ok"
    BY <1>1 DEF Answered
  <2>2. UNCHANGED host /\ at'[controller] = "none"
    BY <1>0, <2>1, ReapedEffect
  <2>3. \/ play = "confirm" /\ running = "thawed" /\ play' = "update"
        \/ play = "checkMode" /\ running = "thawed" /\ play' = "freeze"
        \/ play = "freeze" /\ play' = "rebootFrozen"
        \/ play \in {"verify", "verifyStatus"} /\ play' \in AfterUpdate
    BY <1>1 DEF Answered, Task, TaskFails, UnderUpdate, AfterUpdate, Block, AfterReadMode,
       AfterConfirm, AfterCheckMode, AfterVerifyStatus
  <2> QED BY <2>1, <2>2, <2>3 DEF UpdateSafe, UnderUpdate, AfterUpdate, After, Published
<1>2. CASE StartPlay \/ CommandTaskFails \/ UpdateFails \/ RebootTimesOut \/ WriteMarker
           \/ Unreachable
  BY <1>2 DEF StartPlay, CommandTaskFails, UpdateFails, RebootTimesOut, WriteMarker, Unreachable,
     Task, TaskFails, UnderUpdate, AfterUpdate
<1>3. CASE Reconnects
  <2>1. play = "awaitFrozen" /\ play' = "verify" /\ UNCHANGED hostVars
    BY <1>3 DEF Reconnects, Task, UnderUpdate, AfterUpdate
  <2> QED BY <2>1 DEF UpdateSafe, UnderUpdate, AfterUpdate, Published
<1>4. CASE UpdateStarts
  BY <1>4 DEF UpdateStarts, Task, UpdateSafe, UnderUpdate, AfterUpdate
<1>5. CASE UpdateEnds
  <2>1. work' = Updated /\ play' = "checkMode" /\ running' = "thawed"
    BY <1>5 DEF UpdateEnds, Task, UpdateSafe, UnderUpdate
  <2> QED BY <2>1 DEF UpdateSafe, UnderUpdate, AfterUpdate
<1>6. CASE Ask
  <2>1. play' = play /\ play \in CommandTasks /\ Invoke(controller, CommandOf[play])
    BY <1>6 DEF Ask
  <2>2. CommandOf[play] \in Commands /\ CommandOf[play] # "reboot"
    BY <2>1, CommandOfTask
  <2>3. /\ at'[controller] \in {"body", "failed"} /\ running' = running /\ work' = work
    BY <1>0, <2>1, <2>2, InvokeEffect
  <2>4. ClientActs(controller)
    BY <2>1, <2>2, Zenon DEF ClientActs
  <2>5. Published => Published'
    BY <1>0, <2>4, PublishedLasts
  <2> QED BY <2>1, <2>3, <2>5 DEF UpdateSafe, After
<1>7. CASE CommandStep(controller) /\ play' = play
  <2>1. command[controller] = CommandOf[play] /\ play \in CommandTasks
    BY <1>0, <1>7, CommandEffect DEF PlayInv, HostInv
  <2>2. running' = running /\ work' = work
    BY <1>0, <1>7, CommandEffect
  <2>3. Published => Published'
    BY <1>0, <1>7, PublishedLasts DEF ClientActs
  <2>4. ASSUME play = "freeze", at'[controller] \in {"commit", "publish"}
        PROVE  candidate' = Updated
    <3>1. Snapshot(controller) \/ Commit(controller)
      BY <1>0, <1>7, <2>4 DEF CommandStep, Relock, Enter, Snapshot, Commit, FreezeStops,
         Publish, Thaw, BootSuccess, Status, ReadStatus, WriteCache, Fails
    <3> QED BY <2>4, <3>1 DEF Snapshot, Commit, UpdateSafe
  <2>5. ASSUME play = "freeze", at'[controller] \in After
        PROVE  Published'
    <3>1. CASE Publish(controller)
      BY <2>2, <2>5, <3>1 DEF Publish, UpdateSafe, Published
    <3>2. CASE at[controller] \in After
      BY <2>3, <2>5, <3>2 DEF UpdateSafe
    <3>3. command[controller] = "freeze"
      BY <2>1, <2>5, CommandOfTask
    <3>4. Publish(controller) \/ at[controller] \in After
      BY <1>0, <1>7, <2>5, <3>3 DEF CommandStep, Relock, Enter, Snapshot, Commit,
         FreezeStops, Publish, Thaw, BootSuccess, Status, ReadStatus, WriteCache, Fails, After
    <3> QED BY <3>1, <3>2, <3>4
  <2> QED BY <1>7, <2>2, <2>3, <2>4, <2>5 DEF UpdateSafe
<1> QED BY <1>0, <1>1, <1>2, <1>3, <1>4, <1>5, <1>6, <1>7, Zenon DEF FleetStep

LEMMA StepUpdate == ASSUME HostInv, ClientInv, UpdateInv, [Next]_vars PROVE UpdateInv'
<1> USE DEF ClientInv
<1>0. controller \in Clients /\ at \in [Clients -> CommandSteps]
  BY Distinct DEF HostInv, HostTypeOK
<1>1. CASE UNCHANGED vars
  <2>1. UNCHANGED <<play, running, work, baseline, candidate, at>>
    BY <1>1 DEF vars
  <2>2. rebooted' = rebooted
    BY <1>1 DEF vars
  <2>3. UpdateSafe => UpdateSafe'
    BY <2>1 DEF UpdateSafe, Published
  <2> QED BY <2>2, <2>3, Zenon DEF UpdateInv
<1>2. CASE play' \notin UnderUpdate \cup AfterUpdate
  BY <1>2 DEF UpdateInv, UpdateSafe, UnderUpdate, AfterUpdate
<1>3. ASSUME play' \in UnderUpdate \cup AfterUpdate, ~UNCHANGED vars, ~rebooted'
      PROVE  UpdateSafe'
  <2>1. PICK down \in BOOLEAN : Observe(down)
    BY <1>3, Observed, Zenon
  <2>2. ~rebooted
    BY <1>3, <2>1, Zenon DEF Observe
  <2>3. UpdateSafe
    BY <2>2, Zenon DEF UpdateInv
  <2>4. CASE PlayActs
    BY <1>3, <2>3, <2>4, PlayKeepsUpdate
  <2>5. CASE ManagerActs \/ HealthActs
    <3>1. PICK c \in OtherClient : c \in Clients /\ c # controller /\ ClientActs(c)
      BY <2>5, OthersAct
    <3>2. /\ play' = play /\ running' = running /\ work' = work
          /\ at'[controller] = at[controller]
      BY <2>5, OthersSparePlay, Zenon
    <3>3. Published => Published'
      BY <3>1, PublishedLasts
    <3>4. at[controller] \in {"commit", "publish"} => candidate' = candidate
      BY <1>0, <3>1, LockHeld
    <3> QED BY <2>3, <3>2, <3>3, <3>4 DEF UpdateSafe
  <2>6. CASE PlayReboots
    <3>1. play = "rebootFrozen" /\ play' = "awaitFrozen"
      BY <1>3, <2>6 DEF PlayReboots, RebootTask, Task, UnderUpdate, AfterUpdate
    <3>2. UNCHANGED <<work, baseline, candidate>>
      BY <2>6 DEF PlayReboots, RebootTask, HostDown
    <3> QED BY <2>3, <3>1, <3>2 DEF UpdateSafe, Published, UnderUpdate, AfterUpdate
  <2>7. CASE GoesDown
    <3>1. play' = play
      BY <1>3, <2>7 DEF GoesDown, ConnectionLost, Task, UnderUpdate, AfterUpdate
    <3>2. Observe(TRUE)
      BY <2>7, Zenon DEF GoesDown
    <3>3. play \notin UnderUpdate
      BY <1>3, <3>1, <3>2, Zenon DEF Observe
    <3>4. UNCHANGED <<work, baseline, candidate>>
      BY <2>7 DEF GoesDown, HostDown
    <3> QED BY <1>3, <2>3, <3>1, <3>3, <3>4 DEF UpdateSafe, Published, UnderUpdate, AfterUpdate
  <2>8. CASE Boots \/ BootFails
    <3>1. play' = play
      BY <2>8, Zenon DEF Boots, BootFails
    <3>2. /\ running = "off" /\ UNCHANGED <<work, baseline>>
          /\ candidate' = None \/ UNCHANGED candidate
      BY <2>8 DEF Boots, BootFails, HostBootsThawed, HostBootsFrozen, HostBootFails
    <3>3. play \notin UnderUpdate
      BY <2>3, <3>2 DEF UpdateSafe
    <3> QED BY <1>3, <2>3, <3>1, <3>2, <3>3 DEF UpdateSafe, Published, UnderUpdate, AfterUpdate
  <2> QED BY <1>3, <2>4, <2>5, <2>6, <2>7, <2>8, Zenon DEF Next
<1> QED BY <1>1, <1>2, <1>3, Zenon DEF UpdateInv

-----------------------------------------------------------------------------
(***************************************************************************)
(* The theorems.                                                           *)
(***************************************************************************)
LEMMA InitHost == Init => HostInv
<1> SUFFICES ASSUME Init PROVE HostInv
  OBVIOUS
<1> USE DEF Init, HostInit
<1>1. remote \in BOOLEAN /\ RemoteForThawed
  BY DEF RemoteForThawed
<1>2. HostTypeOK
  <2>1. NotPrinted \in [scheduled: Modes, remote: BOOLEAN]
    BY DEF NotPrinted
  <2>2. printed \in [Clients -> [scheduled: Modes, remote: BOOLEAN]]
    BY <2>1, Zenon
  <2> QED BY <1>1, <2>2 DEF HostTypeOK
<1>3. CallsMatch /\ OneHolder /\ NobodyWhenDown /\ ModeOfCommand /\ Publishing
  OBVIOUS
<1> QED BY <1>1, <1>2, <1>3 DEF HostInv, FrozenHasNoJournal, CommittedCandidate

LEMMA InitClients == Init => ClientInv /\ SeenInv /\ ConsumedInv /\ UpdateInv
<1> SUFFICES ASSUME Init PROVE ClientInv /\ SeenInv /\ ConsumedInv /\ UpdateInv
  OBVIOUS
<1>1. /\ open = FALSE /\ verified = FALSE /\ shown = "unknown" /\ rebootDue = FALSE
      /\ rebootOffer = FALSE /\ pending = "none" /\ play = "idle"
  BY Zenon DEF Init, ManagerInit, FleetInit
<1>2. \A c \in Clients : command[c] = "none"
  BY DEF Init, HostInit
<1>3. Flags
  BY Zenon DEF Init, Flags
<1>4. WindowTypeOK /\ FleetTypeOK
  BY <1>1 DEF WindowTypeOK, FleetTypeOK, Tasks, Ended
<1>5. WindowInv /\ Owners /\ PlayInv
  BY <1>1, <1>2, Distinct DEF WindowInv, busy, Owners, PlayInv
<1>6. SeenInv
  BY <1>1 DEF SeenInv, VerifiedShowsTruth
<1>7. ConsumedInv /\ UpdateInv
  BY <1>1 DEF ConsumedInv, ConsumedBeforeUpdate, Block, UpdateInv, UpdateSafe, UnderUpdate,
     AfterUpdate
<1> QED BY <1>3, <1>4, <1>5, <1>6, <1>7 DEF ClientInv

\* The inductive invariant holds in every state: who may be where in a command and in
\* which state of the machine, what the window and the play know, and what is published.
THEOREM InvariantHolds == Spec => []IInv
<1>1. Init => IInv
  BY InitHost, InitClients DEF IInv
<1>2. IInv /\ [Next]_vars => IInv'
  BY StepHost, StepClient, StepSeen, StepConsumed, StepUpdate DEF IInv
<1> QED BY <1>1, <1>2, PTL DEF Spec

\* Every variable of host, window and play stays in its type.
THEOREM TypeCorrect == Spec => []TypeOK
<1>1. IInv => TypeOK
  BY Zenon DEF IInv, HostInv, ClientInv, Flags, TypeOK
<1> QED BY <1>1, InvariantHolds, PTL

\* A mode button that can be clicked is the one for the mode that the machine runs in.
THEOREM ButtonsRight == Spec => []ButtonsFitTheMode
<1>1. IInv => ButtonsFitTheMode
  <2> SUFFICES ASSUME IInv, NEW a \in {"freeze", "thaw"}, open, Enabled(a)
               PROVE  running = (IF a = "freeze" THEN "thawed" ELSE "frozen")
    BY Zenon DEF ButtonsFitTheMode
  <2>1. verified
    BY DEF Enabled, Valid
  <2>2. shown = running
    BY <2>1, Zenon DEF IInv, ClientInv, WindowInv
  <2> QED BY <2>2 DEF Enabled
<1> QED BY <1>1, InvariantHolds, PTL

\* A verified window is right about the reboot that is due unless the schedule changed
\* since the status it shows was read.
THEOREM WindowTruthful == Spec => []VerifiedShowsTruth
<1>1. IInv => VerifiedShowsTruth
  BY Zenon DEF IInv, SeenInv
<1> QED BY <1>1, InvariantHolds, PTL

\* No play starts its update while the passwordless boot is still authorized.
THEOREM ConsumedFirst == Spec => []ConsumedBeforeUpdate
<1>1. IInv => ConsumedBeforeUpdate
  BY Zenon DEF IInv, ConsumedInv
<1> QED BY <1>1, InvariantHolds, PTL

\* A play that ends well, and that no reboot has overtaken, has published its update.
THEOREM UpdatePublished == Spec => []EndsUpdated
<1>1. IInv => EndsUpdated
  BY DEF IInv, UpdateInv, UpdateSafe, AfterUpdate, Published, EndsUpdated
<1> QED BY <1>1, InvariantHolds, PTL

-----------------------------------------------------------------------------
USE DEF Contract!abstractVars, Contract!schedule, Contract!power

\* A recovery of a host that is up: what was left is published, or abandoned and THAWED
\* scheduled.
LEMMA RecoverImplements ==
  ASSUME HostInv, Recover, running # "off"
  PROVE  [Contract!Next]_(Contract!abstractVars)
<1> USE DEF HostInv, HostTypeOK
<1>1. /\ UNCHANGED <<running, work>> /\ candidate' = None
      /\ journal # "none" => running = "thawed"
  BY DEF Recover, FrozenHasNoJournal
<1>2. CASE journal = "none"
  <2>1. UNCHANGED <<scheduled, remote, baseline>>
    BY <1>2, Zenon DEF Recover
  <2>2. candidate = None
    BY <1>2 DEF CommittedCandidate
  <2> QED BY <1>1, <2>1, <2>2
<1>3. CASE journal = "open"
  <2>1. scheduled' = "thawed" /\ remote' = FALSE /\ baseline' = baseline
    BY <1>3 DEF Recover, RollsBack
  <2> QED BY <1>1, <1>3, <2>1 DEF Contract!Next, Contract!ScheduleThawed
<1>4. CASE journal = "boot-committed"
  <2>1. UNCHANGED <<scheduled, remote>> /\ baseline' = candidate
    BY <1>4, Zenon DEF Recover, RollsForward
  <2>2. candidate # None
    BY <1>4, VersionAssumption DEF CommittedCandidate
  <2> QED BY <1>1, <1>4, <2>1, <2>2 DEF Contract!Next, Contract!Publish
<1> QED BY <1>2, <1>3, <1>4

\* The locked steps of a freeze: it captures @, schedules FROZEN, publishes what it captured.
LEMMA FreezeImplements ==
  ASSUME HostInv, NEW c \in Clients,
         Snapshot(c) \/ Commit(c) \/ FreezeStops(c) \/ Publish(c)
  PROVE  [Contract!Next]_(Contract!abstractVars)
<1> USE DEF HostInv, HostTypeOK
<1>0. running = "thawed" /\ running' = running /\ work' = work /\ baseline # None
  BY VersionAssumption DEF Snapshot, Commit, FreezeStops, Publish
<1>1. CASE Snapshot(c)
  <2>1. UNCHANGED <<scheduled, remote, baseline>> /\ candidate' = work
    BY <1>1 DEF Snapshot
  <2> QED BY <1>0, <2>1 DEF Contract!Next, Contract!Capture
<1>2. CASE Publish(c)
  <2>1. UNCHANGED <<scheduled, remote>> /\ baseline' = candidate /\ candidate' = None
    BY <1>2 DEF Publish
  <2>2. candidate # None
    BY <1>2, VersionAssumption DEF Publish
  <2> QED BY <1>0, <2>1, <2>2 DEF Contract!Next, Contract!Publish
<1>3. CASE Commit(c) \/ FreezeStops(c)
  <2>1. UNCHANGED <<baseline, candidate>>
    BY <1>3 DEF Commit, FreezeStops
  <2>2. CASE scheduled' = "frozen" /\ remote' = FALSE
    BY <1>0, <2>1, <2>2 DEF Contract!Next, Contract!ScheduleFrozen
  <2>3. CASE UNCHANGED <<scheduled, remote>>
    BY <1>0, <2>1, <2>3
  <2> QED BY <1>3, <2>2, <2>3, Zenon DEF Commit, FreezeStops
<1> QED BY <1>1, <1>2, <1>3

\* Every step of a client is one of the contract.
LEMMA ClientImplements ==
  ASSUME HostInv, NEW c \in Clients, ClientActs(c)
  PROVE  [Contract!Next]_(Contract!abstractVars)
<1> USE DEF HostInv, HostTypeOK
<1>1. CASE UNCHANGED host
  BY <1>1
<1>2. CASE (\E k \in Commands : Invoke(c, k)) \/ Relock(c)
  <2>1. running # "off"
    BY <1>2 DEF Invoke, Relock
  <2>2. UNCHANGED host \/ Recover
    BY <1>2, Zenon DEF Invoke, Relock, Enter
  <2> QED BY <1>1, <2>1, <2>2, RecoverImplements
<1>3. CASE Snapshot(c) \/ Commit(c) \/ FreezeStops(c) \/ Publish(c)
  BY <1>3, FreezeImplements
<1>4. CASE Thaw(c)
  <2>1. UNCHANGED <<running, work, baseline, candidate>> /\ scheduled' = "thawed"
    BY <1>4 DEF Thaw
  <2>2. running # "off"
    BY <1>4 DEF Thaw
  <2>3. CASE command[c] = "thaw --authorized"
    <3>1. remote' = TRUE
      BY <1>4, <2>3, Zenon DEF Thaw
    <3>2. running = "frozen"
      BY <1>4, <2>3 DEF Thaw
    <3> QED BY <2>1, <3>1, <3>2 DEF Contract!Next, Contract!Authorize
  <2>4. CASE command[c] # "thaw --authorized"
    <3>1. remote' = FALSE
      BY <1>4, <2>4, Zenon DEF Thaw
    <3> QED BY <2>1, <2>2, <3>1 DEF Contract!Next, Contract!ScheduleThawed
  <2> QED BY <2>3, <2>4
<1>5. CASE BootSuccess(c)
  <2>1. UNCHANGED <<running, work, baseline, candidate, scheduled>> /\ running # "off"
    BY <1>5 DEF BootSuccess
  <2>2. CASE running = "frozen"
    <3>1. remote' = remote
      <4>1. remote \in BOOLEAN /\ remote' = (remote /\ running = "frozen")
        BY <1>5, Zenon DEF BootSuccess
      <4> QED BY <2>2, <4>1, Zenon
    <3> QED BY <2>1, <3>1
  <2>3. CASE running # "frozen"
    <3>1. remote' = FALSE
      BY <1>5, <2>3, Zenon DEF BootSuccess
    <3> QED BY <2>1, <2>3, <3>1 DEF Contract!Next, Contract!Consume
  <2> QED BY <2>2, <2>3
<1>6. CASE Status(c) \/ ReadStatus(c) \/ WriteCache(c) \/ Fails(c)
  BY <1>1, <1>6, Zenon DEF Status, ReadStatus, WriteCache, Fails
<1>7. CASE Reaped(c) \/ UNCHANGED hostVars
  <2>1. UNCHANGED host
    BY <1>7 DEF Reaped
  <2> QED BY <1>1, <2>1
<1> QED BY <1>2, <1>3, <1>4, <1>5, <1>6, <1>7, Zenon DEF ClientActs, CommandStep

\* Somebody acts, or the play's update changes @.
LEMMA WhoActs ==
  ASSUME WindowTypeOK, ManagerActs \/ PlayActs \/ HealthActs
  PROVE  (\E c \in Clients : ClientActs(c)) \/ UpdateStarts \/ UpdateEnds
<1>1. CASE ManagerActs \/ HealthActs
  BY <1>1, OthersAct, Zenon
<1>2. CASE PlayActs
  BY <1>2, PlayKinds, Distinct, Zenon DEF ClientActs
<1> QED BY <1>1, <1>2

\* Whoever runs commands, what the host does is what the two-mode contract allows: what is
\* published is what @ was when its freeze captured it.
THEOREM HostKeepsContract == Spec => StepsOfContract
<1>1. ASSUME IInv, [Next]_vars
      PROVE  [Contract!Next]_(Contract!abstractVars)
  <2> USE DEF IInv
  <2>0. baseline # None /\ running \in Modes \cup {"off"} /\ scheduled \in Modes
        /\ work \in Versions /\ {Outdated, Updated} \subseteq Versions
    BY <1>1, VersionAssumption, PlaybookAssumption DEF HostInv, HostTypeOK
  <2>1. CASE ManagerActs \/ PlayActs \/ HealthActs
    <3>1. CASE UpdateStarts \/ UpdateEnds
      <4>1. UNCHANGED <<running, scheduled, remote, baseline, candidate>>
        BY <3>1 DEF UpdateStarts, UpdateEnds
      <4>2. work' = work \/ (running = "thawed" /\ work' \in Versions)
        BY <2>0, <3>1 DEF UpdateStarts, UpdateEnds
      <4> QED BY <4>1, <4>2 DEF Contract!Next, Contract!Edit
    <3>2. ASSUME NEW c \in Clients, ClientActs(c)
          PROVE  [Contract!Next]_(Contract!abstractVars)
      BY <1>1, <3>2, ClientImplements, Zenon
    <3> QED BY <1>1, <2>1, <3>1, <3>2, WhoActs, Zenon DEF ClientInv
  <2>2. CASE PlayReboots \/ GoesDown
    <3>1. HostDown
      BY <2>2, Zenon DEF PlayReboots, GoesDown, RebootTask
    <3> QED BY <2>0, <3>1 DEF HostDown, Contract!Next, Contract!Stop
  <2>3. CASE Boots
    <3>1. CASE HostBootsThawed
      BY <3>1 DEF HostBootsThawed, Contract!Next, Contract!BootThawed
    <3>2. CASE HostBootsFrozen
      BY <2>0, <3>2 DEF HostBootsFrozen, Contract!Next, Contract!BootFrozen
    <3> QED BY <2>3, <3>1, <3>2 DEF Boots
  <2>4. CASE BootFails
    <3>1. /\ running = "off" /\ scheduled = "frozen" /\ UNCHANGED <<running, work, baseline>>
          /\ scheduled' = "thawed" /\ remote' = FALSE /\ candidate' \in {candidate, None}
      BY <2>4 DEF BootFails, HostBootFails
    <3> QED BY <3>1 DEF Contract!Next, Contract!ScheduleThawed
  <2>5. CASE UNCHANGED vars
    BY <2>5 DEF vars
  <2> QED BY <1>1, <2>1, <2>2, <2>3, <2>4, <2>5, Zenon DEF Next
<1>2. IInv /\ [Next]_vars => [Contract!Next]_(Contract!abstractVars)
  BY <1>1
<1> QED BY <1>2, InvariantHolds, PTL DEF Spec, StepsOfContract

-----------------------------------------------------------------------------
\* An authorization ends in a THAWED system, or with the manager's own thaw.
LEMMA ClientLeavesAuthorization ==
  ASSUME HostInv, Owners, NEW c \in Clients, ClientActs(c), remote, ~remote'
  PROVE  running = "thawed" \/ Thaw(me)
<1> USE DEF HostInv
<1>0. running \in Modes \cup {"off"}
  BY DEF HostTypeOK
<1>1. CASE remote' = remote
  BY <1>1, Zenon
<1>2. CASE Recover /\ running # "off"
  <2>1. journal # "none"
    BY <1>1, <1>2, Zenon DEF Recover, RollsForward
  <2> QED BY <1>0, <1>2, <2>1 DEF FrozenHasNoJournal
<1>3. CASE (\E k \in Commands : Invoke(c, k)) \/ Relock(c)
  <2>1. (\E k \in Commands : Invoke(c, k)) => running # "off"
    BY Zenon DEF Invoke, Up
  <2>2. Relock(c) => running # "off"
    BY DEF Relock
  <2>3. UNCHANGED host \/ Recover
    BY <1>3, Zenon DEF Invoke, Relock, Enter
  <2>4. UNCHANGED host => remote' = remote
    OBVIOUS
  <2> QED BY <1>1, <1>2, <1>3, <2>1, <2>2, <2>3, <2>4, Zenon
<1>4. CASE Snapshot(c) \/ Commit(c) \/ FreezeStops(c)
  <2>1. command[c] = "freeze" /\ at[c] # "failed"
    BY <1>4 DEF Snapshot, Commit, FreezeStops
  <2> QED BY <2>1
<1>5. CASE Thaw(c)
  <2>1. command[c] \in {"thaw", "thaw --authorized"} /\ remote' = (command[c] = "thaw --authorized")
    BY <1>5, Zenon DEF Thaw
  <2>2. command[c] # "thaw --authorized"
    BY <2>1, Zenon
  <2>3. c = me
    BY <2>1, <2>2 DEF Owners
  <2> QED BY <1>5, <2>3, Zenon
<1>6. CASE BootSuccess(c)
  <2>1. remote' = (remote /\ running = "frozen")
    BY <1>6, Zenon DEF BootSuccess
  <2>2. running # "frozen"
    BY <2>1, Zenon
  <2>3. running # "off"
    BY <1>6 DEF BootSuccess
  <2> QED BY <1>0, <2>2, <2>3
<1>7. CASE Publish(c) \/ Status(c) \/ ReadStatus(c) \/ WriteCache(c) \/ Fails(c)
  <2>1. remote' = remote
    BY <1>7 DEF Publish, Status, ReadStatus, WriteCache, Fails
  <2> QED BY <1>1, <2>1
<1>8. CASE Reaped(c) \/ UNCHANGED hostVars
  <2>1. remote' = remote
    BY <1>8 DEF Reaped
  <2> QED BY <1>1, <2>1
<1> QED BY <1>3, <1>4, <1>5, <1>6, <1>7, <1>8, Zenon DEF ClientActs, CommandStep

\* Nobody takes the passwordless boot away but a THAWED system and a plain thaw from the
\* manager.
THEOREM AuthorizationKept == Spec => AuthorizationLasts
<1>1. ASSUME IInv, [Next]_vars, remote, ~remote'
      PROVE  running = "thawed" \/ Thaw(me)
  <2>1. HostInv /\ Owners /\ WindowTypeOK
    BY <1>1, Zenon DEF IInv, ClientInv
  <2>2. remote' # remote
    BY <1>1, Zenon
  <2>3. CASE ManagerActs \/ PlayActs \/ HealthActs
    <3>1. CASE UpdateStarts \/ UpdateEnds
      BY <2>2, <3>1, Zenon DEF UpdateStarts, UpdateEnds
    <3> QED BY <1>1, <2>1, <2>3, <3>1, WhoActs, ClientLeavesAuthorization, Zenon
  <2>4. ~PlayReboots /\ ~GoesDown
    BY <2>2 DEF PlayReboots, GoesDown, RebootTask, HostDown
  <2>5. ~Boots
    BY <2>2 DEF Boots, HostBootsThawed, HostBootsFrozen
  <2>6. ~BootFails
    <3>1. scheduled = "thawed"
      BY <1>1, <2>1, Zenon DEF HostInv, RemoteForThawed
    <3> QED BY <3>1 DEF BootFails, HostBootFails
  <2>7. ~UNCHANGED vars
    BY <2>2 DEF vars
  <2> QED BY <1>1, <2>3, <2>4, <2>5, <2>6, <2>7, Zenon DEF Next
<1>2. IInv /\ [Next]_vars => [remote /\ ~remote' => running = "thawed" \/ Thaw(me)]_vars
  BY <1>1
<1> QED BY <1>2, InvariantHolds, PTL DEF Spec, AuthorizationLasts
=============================================================================
