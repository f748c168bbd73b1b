-------------------------- MODULE IdlePolicyProofs --------------------------
(***************************************************************************)
(* The idle policy is kept in time, for any set of sessions.               *)
(***************************************************************************)
EXTENDS IdlePolicy, TLAPS

USE DEF Actions, Events, Alive, Lock, Shutdown, Overdue

\* What a line that is written, or taken, does to the lines that wait.
LEMMA ContainsAppend ==
  ASSUME NEW s \in Seq(Events), NEW x \in Events, NEW e \in Events
  PROVE  /\ Append(s, x) \in Seq(Events) /\ Append(s, x) # <<>>
         /\ Contains(s, e) => Contains(Append(s, x), e)
         /\ Contains(Append(s, x), x)
<1> USE DEF Contains
<1>1. Contains(s, e) => Contains(Append(s, x), e)
  OBVIOUS
<1>2. Contains(Append(s, x), x)
  <2>1. Append(s, x)[Len(s) + 1] = x /\ Len(s) + 1 \in 1..Len(Append(s, x))
    OBVIOUS
  <2> QED BY <2>1
<1> QED BY <1>1, <1>2

LEMMA ContainsTail ==
  ASSUME NEW s \in Seq(Events), s # <<>>, NEW e \in Events, Contains(s, e)
  PROVE  e = Head(s) \/ Contains(Tail(s), e)
<1>1. PICK i \in 1..Len(s) : s[i] = e
  BY DEF Contains
<1>2. CASE i = 1
  BY <1>1, <1>2
<1>3. CASE i # 1
  <2>1. i - 1 \in 1..Len(Tail(s)) /\ Tail(s)[i - 1] = e
    BY <1>1, <1>3
  <2> QED BY <2>1 DEF Contains
<1> QED BY <1>2, <1>3

\* The lines of a pipe that has just been opened.
LEMMA EmptyLines == <<>> \in Seq(Events)
OBVIOUS

LEMMA ContainsNone == \A e : ~Contains(<<>>, e)
BY DEF Contains

-----------------------------------------------------------------------------
(***************************************************************************)
(* The inductive invariant.  What the agent has reported is in the pipe,   *)
(* in readline's buffer or in the supervisor's hands until it is done, and *)
(* the agent has reported every threshold that the idle time has passed.   *)
(***************************************************************************)
Holding == spc \in {"handle", "act"}

Supervising == Holding \/ spc \in {"poll", "select"}

Pending(event) ==
  \/ Contains(pipe, event)
  \/ Contains(buffer, event)
  \/ Holding /\ line = event

AgentOwned ==
  /\ agent \in Alive \cup {"dead"} => Supervising \/ spc = "end"
  /\ Supervising \/ spc \in {"spawn", "end"} => session # NoSession

Flagged ==
  /\ agent \in {"spawned", "warned", "ready"} => flags = {}
  /\ "LOCK" \in flags => armed

ShutdownHandled ==
  agent = "running" /\ Supervising /\ "POWER_OFF" \in flags => Pending("POWER_OFF")

LockHandled ==
  agent = "running" /\ Supervising /\ active = session /\ "LOCK" \in flags =>
    locked \/ Pending("LOCK")

ThresholdsReported ==
  /\ agent = "ready" => idle \in {seen, 0}
  /\ agent = "running" =>
       /\ idle = Lock => flags # {}
       /\ idle >= Shutdown => "POWER_OFF" \in flags

IInv ==
  TypeOK /\ AgentOwned /\ Flagged /\ ShutdownHandled /\ LockHandled /\ ThresholdsReported

\* Initially nothing is supervised and nothing has been reported.
LEMMA InitIInv == Init => IInv
<1> SUFFICES ASSUME Init PROVE IInv
  OBVIOUS
<1>1. TypeOK
  <2>1. pipe \in Seq(Events) /\ buffer \in Seq(Events)
    BY EmptyLines DEF Init
  <2>2. line \in Events
    BY DEF Init
  <2>3. power \in {"on", "off"} /\ active \in Sessions \cup {NoSession}
        /\ session \in Sessions \cup {NoSession}
    BY DEF Init
  <2>4. idle \in 0..3 /\ seen \in 0..3
    BY DEF Init
  <2>5. locked \in BOOLEAN /\ armed \in BOOLEAN /\ flags \subseteq Actions
    BY DEF Init
  <2>6. agent \in Alive \cup {"none", "dead"}
    BY DEF Init
  <2>7. spc \in {"find", "spawn", "poll", "select", "handle", "act", "end", "down"}
    BY DEF Init
  <2> QED BY <2>1, <2>2, <2>3, <2>4, <2>5, <2>6, <2>7 DEF TypeOK
<1>2. AgentOwned /\ Flagged /\ ShutdownHandled /\ LockHandled /\ ThresholdsReported
  BY DEF Init, AgentOwned, Flagged, ShutdownHandled, LockHandled, ThresholdsReported,
    Supervising, Holding
<1> QED BY <1>1, <1>2 DEF IInv

\* What starts, ends or looks at the two programs moves no line.
LEMMA ControlKeepsIInv ==
  ASSUME IInv,
         \/ FindSession \/ SpawnAgent \/ Poll \/ SelectTimeout \/ TerminateAgent
         \/ ServiceRestarts \/ PowerOff \/ LockFails \/ PowerOffFails \/ SupervisorDies
         \/ AgentDies \/ Leave \/ Boot
  PROVE  IInv'
<1> USE DEF IInv, AgentOwned, Flagged, ShutdownHandled, LockHandled, ThresholdsReported
<1>1. CASE FindSession
  <2> USE <1>1 DEF FindSession
  <2>1. TypeOK'
    BY DEF TypeOK, user, agentVars, supervisor
  <2>2. AgentOwned' /\ Flagged' /\ ThresholdsReported'
    BY DEF TypeOK, user, agentVars, supervisor, Supervising, Holding
  <2>3. ShutdownHandled' /\ LockHandled'
    BY DEF TypeOK, user, agentVars, supervisor, Supervising, Holding, Pending
  <2> QED BY <2>1, <2>2, <2>3
<1>2. CASE SpawnAgent
  <2> USE <1>2 DEF SpawnAgent
  <2>1. TypeOK'
    <3>1. pipe' \in Seq(Events) /\ buffer' \in Seq(Events)
      BY EmptyLines
    <3> QED BY <3>1 DEF TypeOK, user
  <2>2. AgentOwned' /\ Flagged' /\ ThresholdsReported'
    BY DEF TypeOK, user, agentVars, supervisor, Supervising, Holding
  <2>3. ShutdownHandled' /\ LockHandled'
    BY DEF TypeOK, user, agentVars, supervisor, Supervising, Holding, Pending
  <2> QED BY <2>1, <2>2, <2>3
<1>3. CASE Poll
  <2> USE <1>3 DEF Poll
  <2>1. TypeOK'
    BY DEF TypeOK, user, agentVars, supervisor
  <2>2. AgentOwned' /\ Flagged' /\ ThresholdsReported'
    BY DEF TypeOK, user, agentVars, supervisor, Supervising, Holding
  <2>3. ShutdownHandled' /\ LockHandled'
    BY DEF TypeOK, user, agentVars, supervisor, Supervising, Holding, Pending
  <2> QED BY <2>1, <2>2, <2>3
<1>4. CASE SelectTimeout
  <2> USE <1>4 DEF SelectTimeout
  <2>1. TypeOK'
    BY DEF TypeOK, user, agentVars, supervisor
  <2>2. AgentOwned' /\ Flagged' /\ ThresholdsReported'
    BY DEF TypeOK, user, agentVars, supervisor, Supervising, Holding
  <2>3. ShutdownHandled' /\ LockHandled'
    BY DEF TypeOK, user, agentVars, supervisor, Supervising, Holding, Pending
  <2> QED BY <2>1, <2>2, <2>3
<1>5. CASE TerminateAgent
  <2> USE <1>5 DEF TerminateAgent
  <2>1. TypeOK'
    BY DEF TypeOK, user, agentVars, supervisor
  <2>2. AgentOwned' /\ Flagged' /\ ThresholdsReported'
    BY DEF TypeOK, user, agentVars, supervisor, Supervising, Holding
  <2>3. ShutdownHandled' /\ LockHandled'
    BY DEF TypeOK, user, agentVars, supervisor, Supervising, Holding, Pending
  <2> QED BY <2>1, <2>2, <2>3
<1>6. CASE ServiceRestarts
  <2> USE <1>6 DEF ServiceRestarts
  <2>1. TypeOK'
    BY DEF TypeOK, user, agentVars, supervisor
  <2>2. AgentOwned' /\ Flagged' /\ ThresholdsReported'
    BY DEF TypeOK, user, agentVars, supervisor, Supervising, Holding
  <2>3. ShutdownHandled' /\ LockHandled'
    BY DEF TypeOK, user, agentVars, supervisor, Supervising, Holding, Pending
  <2> QED BY <2>1, <2>2, <2>3
<1>7. CASE PowerOff
  <2> USE <1>7 DEF PowerOff
  <2>1. TypeOK'
    BY DEF TypeOK, user, agentVars, supervisor
  <2>2. AgentOwned' /\ Flagged' /\ ThresholdsReported'
    BY DEF TypeOK, user, agentVars, supervisor, Supervising, Holding
  <2>3. ShutdownHandled' /\ LockHandled'
    BY DEF TypeOK, user, agentVars, supervisor, Supervising, Holding, Pending
  <2> QED BY <2>1, <2>2, <2>3
<1>8. CASE LockFails
  <2> USE <1>8 DEF LockFails
  <2>1. TypeOK'
    BY DEF TypeOK, user, agentVars, supervisor
  <2>2. AgentOwned' /\ Flagged' /\ ThresholdsReported'
    BY DEF TypeOK, user, agentVars, supervisor, Supervising, Holding
  <2>3. ShutdownHandled' /\ LockHandled'
    BY DEF TypeOK, user, agentVars, supervisor, Supervising, Holding, Pending
  <2> QED BY <2>1, <2>2, <2>3
<1>9. CASE PowerOffFails
  <2> USE <1>9 DEF PowerOffFails
  <2>1. TypeOK'
    BY DEF TypeOK, user, agentVars, supervisor
  <2>2. AgentOwned' /\ Flagged' /\ ThresholdsReported'
    BY DEF TypeOK, user, agentVars, supervisor, Supervising, Holding
  <2>3. ShutdownHandled' /\ LockHandled'
    BY DEF TypeOK, user, agentVars, supervisor, Supervising, Holding, Pending
  <2> QED BY <2>1, <2>2, <2>3
<1>10. CASE SupervisorDies
  <2> USE <1>10 DEF SupervisorDies
  <2>1. TypeOK'
    BY DEF TypeOK, user, agentVars, supervisor
  <2>2. AgentOwned' /\ Flagged' /\ ThresholdsReported'
    BY DEF TypeOK, user, agentVars, supervisor, Supervising, Holding
  <2>3. ShutdownHandled' /\ LockHandled'
    BY DEF TypeOK, user, agentVars, supervisor, Supervising, Holding, Pending
  <2> QED BY <2>1, <2>2, <2>3
<1>11. CASE AgentDies
  <2> USE <1>11 DEF AgentDies
  <2>1. TypeOK'
    BY DEF TypeOK, user, agentVars, supervisor
  <2>2. AgentOwned' /\ Flagged' /\ ThresholdsReported'
    BY DEF TypeOK, user, agentVars, supervisor, Supervising, Holding
  <2>3. ShutdownHandled' /\ LockHandled'
    BY DEF TypeOK, user, agentVars, supervisor, Supervising, Holding, Pending
  <2> QED BY <2>1, <2>2, <2>3
<1>12. CASE Leave
  <2> USE <1>12 DEF Leave
  <2>1. TypeOK'
    BY DEF TypeOK, user, agentVars, supervisor
  <2>2. AgentOwned' /\ Flagged' /\ ThresholdsReported'
    BY DEF TypeOK, user, agentVars, supervisor, Supervising, Holding
  <2>3. ShutdownHandled' /\ LockHandled'
    BY DEF TypeOK, user, agentVars, supervisor, Supervising, Holding, Pending
  <2> QED BY <2>1, <2>2, <2>3
<1>13. CASE Boot
  <2> USE <1>13 DEF Boot
  <2>1. TypeOK'
    <3>1. pipe' \in Seq(Events) /\ buffer' \in Seq(Events)
      BY EmptyLines
    <3>2. idle' \in 0..Overdue /\ seen' \in 0..Overdue
      OBVIOUS
    <3>3. locked' \in BOOLEAN /\ armed' \in BOOLEAN /\ flags' \subseteq Actions
      OBVIOUS
    <3>4. power' \in {"on", "off"} /\ agent' \in Alive \cup {"none", "dead"} /\ line' \in Events
      OBVIOUS
    <3>5. active' \in Sessions \cup {NoSession} /\ session' \in Sessions \cup {NoSession}
      OBVIOUS
    <3> QED BY <3>1, <3>2, <3>3, <3>4, <3>5 DEF TypeOK
  <2>2. AgentOwned' /\ Flagged' /\ ThresholdsReported'
    BY DEF TypeOK, user, agentVars, supervisor, Supervising, Holding
  <2>3. ShutdownHandled' /\ LockHandled'
    BY DEF TypeOK, user, agentVars, supervisor, Supervising, Holding, Pending
  <2> QED BY <2>1, <2>2, <2>3
<1> QED BY <1>1, <1>2, <1>3, <1>4, <1>5, <1>6, <1>7, <1>8, <1>9, <1>10, <1>11, <1>12, <1>13

(***************************************************************************)
(* What the agent writes waits in the pipe, beside what already waits.     *)
(***************************************************************************)
LEMMA EmitAdds ==
  ASSUME TypeOK, NEW e \in Events, Emit(e)
  PROVE  /\ pipe' \in Seq(Events)
         /\ Contains(pipe', e)
         /\ \A x \in Events : Contains(pipe, x) => Contains(pipe', x)
<1>1. pipe \in Seq(Events) /\ pipe' = Append(pipe, e)
  BY DEF TypeOK, Emit
<1> QED BY <1>1, ContainsAppend

(***************************************************************************)
(* readline loses nothing: what waited in the pipe or in the buffer waits  *)
(* in the buffer or is the line that was returned.                         *)
(***************************************************************************)
LEMMA ReadLineKeepsLines ==
  ASSUME TypeOK, ReadLine
  PROVE  /\ pipe' \in Seq(Events) /\ buffer' \in Seq(Events) /\ line' \in Events
         /\ spc' \in {"handle", "end"}
         /\ spc' = "handle" => \A x \in Events : Contains(pipe, x) \/ Contains(buffer, x) =>
              Contains(pipe', x) \/ Contains(buffer', x) \/ line' = x
<1> USE DEF TypeOK, ReadLine
<1>1. CASE buffer # <<>> /\ line' = Head(buffer) /\ buffer' = Tail(buffer)
           /\ spc' = "handle" /\ UNCHANGED pipe
  <2>1. line' \in Events /\ buffer' \in Seq(Events) /\ pipe' \in Seq(Events)
    BY <1>1
  <2> QED BY <1>1, <2>1, ContainsTail
<1>2. CASE buffer = <<>> /\ pipe # <<>> /\ line' = Head(pipe) /\ buffer' = Tail(pipe)
           /\ pipe' = <<>> /\ spc' = "handle"
  <2>1. line' \in Events /\ buffer' \in Seq(Events) /\ pipe' \in Seq(Events)
    BY <1>2, EmptyLines
  <2> QED BY <1>2, <2>1, ContainsTail, ContainsNone
<1>3. CASE buffer = <<>> /\ pipe = <<>> /\ spc' = "end" /\ UNCHANGED <<pipe, buffer, line>>
  BY <1>3
<1> QED BY <1>1, <1>2, <1>3

\* The supervisor takes a line: it is in its hands until it is done.
LEMMA ReadLineKeepsIInv == ASSUME IInv, ReadLine PROVE IInv'
<1> USE DEF IInv, AgentOwned, Flagged, ShutdownHandled, LockHandled, ThresholdsReported
<1>1. spc = "select" /\ UNCHANGED <<power, active, idle, locked, agent, seen, flags, armed, session>>
  BY DEF ReadLine, user, agentVars
<1>2. TypeOK'
  BY <1>1, ReadLineKeepsLines DEF TypeOK
<1>3. AgentOwned' /\ Flagged' /\ ThresholdsReported'
  BY <1>1, ReadLineKeepsLines DEF Supervising, Holding
<1>4. ASSUME NEW x \in Events, Supervising', Pending(x) PROVE Pending(x)'
  BY <1>1, <1>4, ReadLineKeepsLines DEF Supervising, Holding, Pending
<1>5. ShutdownHandled'
  BY <1>1, <1>4 DEF Supervising
<1>6. LockHandled'
  <2>1. CASE locked
    BY <1>1, <2>1
  <2>2. CASE ~locked
    BY <1>1, <1>4, <2>2 DEF Supervising
  <2> QED BY <2>1, <2>2
<1> QED BY <1>2, <1>3, <1>5, <1>6

\* A line is dropped only when it is done, or the agent is given up.
LEMMA HandlingKeepsIInv == ASSUME IInv, HandleEvent \/ LockSession PROVE IInv'
<1> USE DEF IInv, AgentOwned, Flagged, ShutdownHandled, LockHandled, ThresholdsReported
<1>1. CASE HandleEvent
  <2> USE <1>1 DEF HandleEvent
  <2>1. TypeOK'
    BY DEF TypeOK, user, agentVars
  <2>2. AgentOwned' /\ Flagged' /\ ThresholdsReported'
    BY DEF user, agentVars, Supervising, Holding
  <2>3. ShutdownHandled'
    BY DEF user, agentVars, Supervising, Holding, Pending
  <2>4. LockHandled'
    BY DEF user, agentVars, Supervising, Holding, Pending
  <2> QED BY <2>1, <2>2, <2>3, <2>4
<1>2. CASE LockSession
  <2> USE <1>2 DEF LockSession
  <2>1. TypeOK'
    BY DEF TypeOK, agentVars
  <2>2. AgentOwned' /\ Flagged' /\ ThresholdsReported'
    BY DEF agentVars, Supervising, Holding
  <2>3. ShutdownHandled'
    BY DEF agentVars, Supervising, Holding, Pending
  <2>4. LockHandled'
    <3>1. CASE Verified
      BY <3>1
    <3>2. CASE ~Verified
      BY <3>2 DEF Verified, agentVars
    <3> QED BY <3>1, <3>2
  <2> QED BY <2>1, <2>2, <2>3, <2>4
<1> QED BY <1>1, <1>2

(***************************************************************************)
(* What a report does to the invariant's parts about reports, whichever    *)
(* step makes it.                                                          *)
(***************************************************************************)
Reporting ==
  \/ ReportShutdown
  \/ ReportLock
  \/ ReportNothing
  \/ flags' = {} /\ armed' = FALSE /\ Emit("RESUMED")

LEMMA ReportsArePending ==
  ASSUME IInv, Reporting, agent \in {"ready", "running"}, UNCHANGED supervisor,
         locked' = locked \/ "LOCK" \notin flags', active' = active \/ "LOCK" \notin flags'
  PROVE  /\ pipe' \in Seq(Events) /\ flags' \subseteq Actions /\ armed' \in BOOLEAN
         /\ "LOCK" \in flags' => armed'
         /\ ShutdownHandled' /\ LockHandled'
<1> USE DEF IInv, TypeOK, Flagged, ShutdownHandled, LockHandled
<1>1. UNCHANGED <<buffer, spc, session, line>>
  BY DEF supervisor
<1>2. CASE ReportShutdown
  <2>1. Contains(pipe', "POWER_OFF") /\ \A x \in Events : Contains(pipe, x) => Contains(pipe', x)
    BY <1>2, EmitAdds DEF ReportShutdown
  <2>2. pipe' \in Seq(Events) /\ flags' \subseteq Actions /\ armed' \in BOOLEAN
    BY <1>2, EmitAdds DEF ReportShutdown
  <2>3. "LOCK" \in flags' => armed' /\ "LOCK" \in flags
    BY <1>2 DEF ReportShutdown
  <2>4. ShutdownHandled'
    BY <1>1, <2>1 DEF Pending
  <2>5. LockHandled'
    BY <1>1, <2>1, <2>3 DEF Pending, Supervising, Holding
  <2> QED BY <2>2, <2>3, <2>4, <2>5
<1>3. CASE ReportLock
  <2>1. Contains(pipe', "LOCK") /\ \A x \in Events : Contains(pipe, x) => Contains(pipe', x)
    BY <1>3, EmitAdds DEF ReportLock
  <2>2. pipe' \in Seq(Events) /\ flags' \subseteq Actions /\ armed' \in BOOLEAN /\ armed'
    BY <1>3, EmitAdds DEF ReportLock
  <2>3. ShutdownHandled'
    BY <1>1, <1>3, <2>1 DEF Pending, Supervising, Holding, ReportLock
  <2>4. LockHandled'
    BY <1>1, <2>1 DEF Pending
  <2> QED BY <2>2, <2>3, <2>4
<1>4. CASE ReportNothing
  <2>1. UNCHANGED <<flags, armed, pipe>>
    BY <1>4 DEF ReportNothing
  <2>2. ShutdownHandled'
    BY <1>1, <2>1 DEF Pending, Supervising, Holding
  <2>3. LockHandled'
    BY <1>1, <2>1 DEF Pending, Supervising, Holding
  <2> QED BY <2>1, <2>2, <2>3
<1>5. CASE flags' = {} /\ armed' = FALSE /\ Emit("RESUMED")
  BY <1>5, EmitAdds
<1> QED BY <1>2, <1>3, <1>4, <1>5 DEF Reporting

\* A new agent writes, and reports the threshold that it finds passed.
LEMMA AgentKeepsIInv == ASSUME IInv, AgentWarns \/ AgentReady \/ AgentInitial PROVE IInv'
<1> USE DEF IInv
<1>1. CASE AgentWarns \/ AgentReady
  <2>1. UNCHANGED <<power, active, idle, locked, flags, armed, buffer, spc, session, line>>
    BY <1>1 DEF AgentWarns, AgentReady, user, supervisor
  <2>2. agent \in {"spawned", "warned"} /\ agent' \in {"warned", "ready"}
        /\ seen' \in {seen, idle} /\ (agent' = "ready" => seen' = idle)
    BY <1>1 DEF AgentWarns, AgentReady
  <2>3. pipe' \in Seq(Events)
    BY <1>1, EmitAdds DEF AgentWarns, AgentReady
  <2>4. TypeOK'
    BY <2>1, <2>2, <2>3 DEF TypeOK
  <2>5. AgentOwned' /\ Flagged'
    BY <2>1, <2>2 DEF AgentOwned, Flagged, Supervising, Holding
  <2>6. ShutdownHandled' /\ LockHandled' /\ ThresholdsReported'
    BY <2>1, <2>2 DEF ShutdownHandled, LockHandled, ThresholdsReported
  <2> QED BY <2>4, <2>5, <2>6
<1>2. CASE AgentInitial
  <2>1. agent = "ready" /\ agent' = "running"
        /\ UNCHANGED <<power, active, idle, locked, seen, buffer, spc, session, line>>
    BY <1>2 DEF AgentInitial, user, supervisor
  <2>2. /\ seen >= Shutdown => ReportShutdown
        /\ seen = Lock => ReportLock
        /\ Reporting
    BY <1>2 DEF AgentInitial, Reporting, TypeOK
  <2>3. /\ pipe' \in Seq(Events) /\ flags' \subseteq Actions /\ armed' \in BOOLEAN
        /\ "LOCK" \in flags' => armed'
        /\ ShutdownHandled' /\ LockHandled'
    BY <2>1, <2>2, ReportsArePending DEF supervisor
  <2>4. TypeOK'
    BY <2>1, <2>3 DEF TypeOK
  <2>5. AgentOwned' /\ Flagged'
    BY <2>1, <2>3 DEF AgentOwned, Flagged, Supervising, Holding
  <2>6. ThresholdsReported'
    <3>1. idle \in {seen, 0} /\ seen \in 0..Overdue
      BY <2>1 DEF ThresholdsReported, TypeOK
    <3>2. seen = Lock => "LOCK" \in flags'
      BY <2>2 DEF ReportLock
    <3>3. seen >= Shutdown => "POWER_OFF" \in flags'
      BY <2>2 DEF ReportShutdown
    <3> QED BY <2>1, <3>1, <3>2, <3>3 DEF ThresholdsReported
  <2> QED BY <2>3, <2>4, <2>5, <2>6
<1> QED BY <1>1, <1>2

\* Input ends the idle time, and what is reported anew is reported again.
LEMMA InputKeepsIInv == ASSUME IInv, Input \/ Activate PROVE IInv'
<1> USE DEF IInv
<1>1. UNCHANGED <<power, agent, seen, buffer, spc, session, line>> /\ idle' = 0 /\ Resumed
  BY DEF Input, Activate, supervisor
<1>2. locked' \in BOOLEAN /\ active' \in Sessions \cup {NoSession}
      /\ active' # NoSession
  BY NoSessionAssumption DEF Input, Activate, TypeOK
<1>3. CASE agent = "running" /\ armed /\ active' = session
  <2>1. flags' = {} /\ armed' = FALSE /\ Emit("RESUMED")
    BY <1>1, <1>3 DEF Resumed
  <2>2. pipe' \in Seq(Events)
    BY <2>1, EmitAdds
  <2>3. TypeOK'
    <3>1. armed' \in BOOLEAN
      BY <2>1
    <3>4. flags' \subseteq Actions /\ idle' \in 0..Overdue
      BY <1>1, <2>1
    <3>2. locked' \in BOOLEAN /\ power' \in {"on", "off"} /\ seen' \in 0..Overdue
          /\ agent' \in Alive \cup {"none", "dead"} /\ line' \in Events
      BY <1>1, <1>2 DEF TypeOK
    <3>3. buffer' \in Seq(Events)
          /\ spc' \in {"find", "spawn", "poll", "select", "handle", "act", "end", "down"}
          /\ session' \in Sessions \cup {NoSession}
      BY <1>1 DEF TypeOK
    <3> QED BY <1>2, <2>2, <3>1, <3>2, <3>3, <3>4 DEF TypeOK
  <2>4. AgentOwned' /\ Flagged' /\ ShutdownHandled' /\ LockHandled' /\ ThresholdsReported'
    BY <1>1, <2>1 DEF AgentOwned, Flagged, ShutdownHandled, LockHandled, ThresholdsReported,
      Supervising, Holding
  <2> QED BY <2>3, <2>4
<1>4. CASE ~(agent = "running" /\ armed /\ active' = session)
  <2>1. UNCHANGED <<flags, armed, pipe>>
    BY <1>1, <1>4 DEF Resumed, ReportNothing
  <2>2. TypeOK'
    BY <1>1, <1>2, <2>1 DEF TypeOK
  <2>3. AgentOwned' /\ Flagged' /\ ThresholdsReported'
    BY <1>1, <2>1 DEF AgentOwned, Flagged, ThresholdsReported, Supervising, Holding
  <2>4. ShutdownHandled'
    BY <1>1, <2>1 DEF ShutdownHandled, Supervising, Holding, Pending
  <2>5. LockHandled'
    BY <1>1, <1>4, <2>1 DEF LockHandled, Flagged
  <2> QED BY <2>2, <2>3, <2>4, <2>5
<1> QED BY <1>3, <1>4

\* A threshold that passes has been reported, or is now.
LEMMA ThresholdKeepsIInv == ASSUME IInv, ThresholdPasses PROVE IInv'
<1> USE DEF IInv
<1>1. agent = "running" /\ idle' = idle + 1 /\ idle < Overdue /\ TimeoutReached(idle')
      /\ UNCHANGED <<power, active, locked, agent, seen, buffer, spc, session, line>>
  BY DEF ThresholdPasses, Waiting, supervisor
<1>2. Reporting
  BY <1>1 DEF TimeoutReached, Reporting
<1>3. /\ pipe' \in Seq(Events) /\ flags' \subseteq Actions /\ armed' \in BOOLEAN
      /\ "LOCK" \in flags' => armed'
      /\ ShutdownHandled' /\ LockHandled'
  BY <1>1, <1>2, ReportsArePending DEF supervisor
<1>4. TypeOK'
  <2>1. idle' \in 0..Overdue
    BY <1>1 DEF TypeOK
  <2> QED BY <1>1, <1>3, <2>1 DEF TypeOK
<1>5. AgentOwned' /\ Flagged'
  BY <1>1, <1>3 DEF AgentOwned, Flagged, Supervising, Holding
<1>6. ThresholdsReported'
  <2>1. idle \in 0..2 /\ idle' \in 1..3
    BY <1>1 DEF TypeOK
  <2>2. idle' = Lock => "LOCK" \in flags'
    BY <1>1 DEF TimeoutReached, Reported, ReportLock, ReportNothing
  <2>3. idle' = Shutdown => "POWER_OFF" \in flags'
    BY <1>1 DEF TimeoutReached, Reported, ReportShutdown, ReportNothing
  <2>4. idle' > Shutdown => "POWER_OFF" \in flags'
    BY <1>1, <2>1 DEF TimeoutReached, Reported, ReportNothing, ThresholdsReported
  <2> QED BY <1>1, <2>1, <2>2, <2>3, <2>4 DEF ThresholdsReported
<1> QED BY <1>3, <1>4, <1>5, <1>6

-----------------------------------------------------------------------------
LEMMA NextKeepsIInv == IInv /\ [Next]_vars => IInv'
<1> SUFFICES ASSUME IInv, [Next]_vars PROVE IInv'
  OBVIOUS
<1>1. CASE UNCHANGED vars
  <2> USE <1>1 DEF vars, IInv
  <2>1. TypeOK' /\ AgentOwned' /\ Flagged' /\ ThresholdsReported'
    BY DEF TypeOK, AgentOwned, Flagged, ThresholdsReported, Supervising, Holding
  <2>2. ShutdownHandled' /\ LockHandled'
    BY DEF ShutdownHandled, LockHandled, Supervising, Holding, Pending
  <2> QED BY <2>1, <2>2
<1>2. CASE AgentStep
  BY <1>2, AgentKeepsIInv DEF AgentStep
<1>3. CASE SupervisorStep
  BY <1>3, ControlKeepsIInv, ReadLineKeepsIInv, HandlingKeepsIInv DEF SupervisorStep
<1>4. CASE Failure
  BY <1>4, ControlKeepsIInv DEF Failure
<1>5. CASE User
  BY <1>5, ControlKeepsIInv, InputKeepsIInv DEF User
<1>6. CASE ThresholdPasses
  BY <1>6, ThresholdKeepsIInv
<1>7. CASE Boot
  BY <1>7, ControlKeepsIInv
<1> QED BY <1>1, <1>2, <1>3, <1>4, <1>5, <1>6, <1>7 DEF Next

(***************************************************************************)
(* The inductive invariant holds in every reachable state.                 *)
(***************************************************************************)
THEOREM InvariantHolds == Spec => []IInv
<1> QED BY InitIInv, NextKeepsIInv, PTL DEF Spec

(***************************************************************************)
(* Agent, pipe and supervisor stay within their types.                     *)
(***************************************************************************)
THEOREM TypeCorrect == Spec => []TypeOK
<1>1. IInv => TypeOK
  BY DEF IInv
<1> QED BY <1>1, InvariantHolds, PTL

(***************************************************************************)
(* handle_event, the agent and the restarts together: whatever died,       *)
(* failed or changed hands before, an idle session is locked and an idle   *)
(* machine is not on, unless readline has read the event ahead.            *)
(***************************************************************************)
THEOREM PolicyKept == Spec => []PolicyInTime
<1>1. ASSUME IInv, Waiting
      PROVE  /\ idle = Lock =>
                  locked \/ Contains(buffer, "LOCK") \/ Contains(buffer, "POWER_OFF")
             /\ idle >= Shutdown => Contains(buffer, "POWER_OFF")
  <2> USE <1>1 DEF IInv
  <2>1. Supervising /\ ~Holding /\ active = session /\ agent = "running" /\ pipe = <<>>
    BY DEF Waiting, Supervising, Holding
  <2>2. "POWER_OFF" \in flags => Contains(buffer, "POWER_OFF")
    BY <2>1, ContainsNone DEF ShutdownHandled, Pending
  <2>3. "LOCK" \in flags => locked \/ Contains(buffer, "LOCK")
    BY <2>1, ContainsNone DEF LockHandled, Pending
  <2>4. idle = Lock => "LOCK" \in flags \/ "POWER_OFF" \in flags
    BY <2>1 DEF ThresholdsReported, TypeOK
  <2>5. idle >= Shutdown => "POWER_OFF" \in flags
    BY <2>1 DEF ThresholdsReported
  <2> QED BY <2>2, <2>3, <2>4, <2>5
<1>2. IInv => PolicyInTime
  BY <1>1 DEF PolicyInTime
<1> QED BY <1>2, InvariantHolds, PTL
=============================================================================
