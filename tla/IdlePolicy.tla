------------------------------ MODULE IdlePolicy ------------------------------
(***************************************************************************)
(* The idle policy of the workstation: an unprivileged agent in the        *)
(* employee's session writes events to a pipe, a root supervisor reads     *)
(* them line by line and locks the session or powers the machine off.      *)
(*                                                                         *)
(* Time is the idle level of the active session: how many of the two       *)
(* thresholds have passed without input.  A threshold is at least a minute *)
(* (read_config) and everything the two programs do takes seconds, so it   *)
(* passes only while both are waiting.  A session whose environment is not *)
(* ready counts as one that is not active yet.                             *)
(***************************************************************************)
EXTENDS Naturals, Sequences, SequencesExt

CONSTANTS
  Sessions,   \* the identifiers of the employee's sessions
  NoSession

VARIABLES
  power,    \* "on" or "off"
  active,   \* the eligible session, or NoSession
  idle,     \* its idle level
  locked,   \* whether it is locked
  agent,    \* the state of the agent process
  seen,     \* initialIdle: the level that the agent read as it started
  flags,    \* which of LOCK and POWER_OFF the agent has emitted
  armed,    \* whether KIdleTime reports the next input to the agent
  pipe,     \* lines the agent wrote and the supervisor has not read
  buffer,   \* lines read from the pipe that readline has not returned
  spc,      \* the next step of the supervisor
  session,  \* the session it supervises
  line      \* the event it handles

user == <<power, active, idle, locked>>
agentVars == <<agent, seen, flags, armed>>
supervisor == <<buffer, spc, session, line>>
vars == <<power, active, idle, locked, agent, seen, flags, armed, pipe, buffer, spc, session, line>>

Lock == 1
Shutdown == 2
Overdue == 3   \* as long again as it takes to shut down

Actions == {"LOCK", "POWER_OFF"}
Events == Actions \cup {"READY", "RESUMED", "log"}
Alive == {"spawned", "warned", "ready", "running"}

ASSUME NoSessionAssumption == NoSession \notin Sessions

Init ==
  /\ power = "on" /\ active = NoSession /\ idle = 0 /\ locked = FALSE
  /\ agent = "none" /\ seen = 0 /\ flags = {} /\ armed = FALSE
  /\ pipe = <<>> /\ buffer = <<>>
  /\ spc = "find" /\ session = NoSession /\ line = "log"

-----------------------------------------------------------------------------
(***************************************************************************)
(* The agent.                                                              *)
(***************************************************************************)
Emit(event) == pipe' = Append(pipe, event)

\* The supervisor reads the agent's standard error through the same pipe.
AgentWarns ==
  /\ agent = "spawned" /\ agent' = "warned"
  /\ Emit("log")
  /\ UNCHANGED <<user, seen, flags, armed, supervisor>>

AgentReady ==
  /\ agent \in {"spawned", "warned"} /\ agent' = "ready"
  /\ seen' = idle
  /\ Emit("READY")
  /\ UNCHANGED <<user, flags, armed, supervisor>>

ReportShutdown == flags' = flags \cup {"POWER_OFF"} /\ Emit("POWER_OFF") /\ UNCHANGED armed

ReportLock == flags' = flags \cup {"LOCK"} /\ Emit("LOCK") /\ armed' = TRUE

ReportNothing == UNCHANGED <<flags, armed, pipe>>

\* An agent that starts late reports the threshold that has already passed.
AgentInitial ==
  /\ agent = "ready" /\ agent' = "running"
  /\ \/ seen >= Shutdown /\ ReportShutdown
     \/ seen = Lock /\ ReportLock
     \/ seen < Lock /\ ReportNothing
  /\ UNCHANGED <<user, seen, supervisor>>

AgentDies ==
  /\ agent \in Alive /\ agent' = "dead"
  /\ UNCHANGED <<user, seen, flags, armed, pipe, supervisor>>

Reported(level) ==
  \/ level = Shutdown /\ "POWER_OFF" \in flags
  \/ level = Lock /\ "LOCK" \in flags
  \/ level > Shutdown

TimeoutReached(level) ==
  \/ level = Shutdown /\ "POWER_OFF" \notin flags /\ ReportShutdown
  \/ level = Lock /\ "LOCK" \notin flags /\ ReportLock
  \/ Reported(level) /\ ReportNothing

\* Input reaches the agent of the session it is made in.
Resumed ==
  IF agent = "running" /\ armed /\ active' = session
  THEN flags' = {} /\ armed' = FALSE /\ Emit("RESUMED")
  ELSE ReportNothing

-----------------------------------------------------------------------------
(***************************************************************************)
(* The user, the clock and logind.                                         *)
(***************************************************************************)
Input ==
  /\ power = "on" /\ active # NoSession
  /\ idle' = 0
  /\ locked' \in {locked, FALSE}
  /\ UNCHANGED active /\ Resumed
  /\ UNCHANGED <<power, agent, seen, supervisor>>

\* Another session, or the same again, is logged in to or switched to, by input.
Activate ==
  /\ power = "on"
  /\ \E s \in Sessions \ {active} : active' = s
  /\ idle' = 0 /\ locked' = FALSE
  /\ Resumed
  /\ UNCHANGED <<power, agent, seen, supervisor>>

Leave ==
  /\ power = "on" /\ active # NoSession /\ active' = NoSession
  /\ UNCHANGED <<power, idle, locked, agentVars, pipe, supervisor>>

\* The supervisor is in select(), with nothing to read and nothing to give up.
Waiting ==
  /\ power = "on" /\ active # NoSession
  /\ spc = "select" /\ session = active /\ agent = "running" /\ pipe = <<>>

ThresholdPasses ==
  /\ Waiting /\ idle < Overdue
  /\ idle' = idle + 1
  /\ TimeoutReached(idle')
  /\ UNCHANGED <<power, active, locked, agent, seen, supervisor>>

\* The next boot starts with the login screen.
Boot ==
  /\ power = "off" /\ power' = "on"
  /\ active' = NoSession /\ idle' = 0 /\ locked' = FALSE
  /\ agent' = "none" /\ seen' = 0 /\ flags' = {} /\ armed' = FALSE
  /\ pipe' = <<>> /\ buffer' = <<>>
  /\ spc' = "find" /\ session' = NoSession /\ line' = "log"

-----------------------------------------------------------------------------
(***************************************************************************)
(* The supervisor.                                                         *)
(***************************************************************************)
\* verified_session: the session is still the active one of the employee.
Verified == active = session

FindSession ==
  /\ spc = "find" /\ active # NoSession
  /\ session' = active /\ spc' = "spawn"
  /\ UNCHANGED <<user, agentVars, pipe, buffer, line>>

SpawnAgent ==
  /\ spc = "spawn" /\ spc' = "poll"
  /\ agent' = "spawned" /\ flags' = {} /\ armed' = FALSE
  /\ pipe' = <<>> /\ buffer' = <<>>
  /\ UNCHANGED <<user, seen, session, line>>

Poll ==
  /\ spc = "poll"
  /\ spc' = IF agent = "dead" THEN "end" ELSE "select"
  /\ UNCHANGED <<user, agentVars, pipe, buffer, session, line>>

\* Bug: ten quiet seconds are no reason to look at the session.
SelectTimeoutUnchecked ==
  /\ spc = "select" /\ pipe = <<>> /\ agent # "dead"
  /\ spc' = "poll"
  /\ UNCHANGED <<user, agentVars, pipe, buffer, session, line>>

SelectTimeout ==
  /\ spc = "select" /\ pipe = <<>> /\ agent # "dead"
  /\ spc' = IF Verified THEN "poll" ELSE "end"
  /\ UNCHANGED <<user, agentVars, pipe, buffer, session, line>>

\* Bug: the end of the pipe is not told from a line.
ReadLineNoEnd ==
  /\ spc = "select" /\ (pipe # <<>> \/ agent = "dead")
  /\ \/ buffer # <<>> /\ line' = Head(buffer) /\ buffer' = Tail(buffer) /\ UNCHANGED pipe
     \/ /\ buffer = <<>> /\ pipe # <<>>
        /\ line' = Head(pipe) /\ buffer' = Tail(pipe) /\ pipe' = <<>>
     \/ buffer = <<>> /\ pipe = <<>> /\ line' = "" /\ UNCHANGED <<pipe, buffer>>
  /\ spc' = "handle"
  /\ UNCHANGED <<user, agentVars, session>>

(***************************************************************************)
(* select() reports the pipe, or its end.  readline() takes everything     *)
(* that is in the pipe and returns one line of it; the rest is returned by *)
(* the calls that follow, but select() does not see it.                    *)
(***************************************************************************)
ReadLine ==
  /\ spc = "select" /\ (pipe # <<>> \/ agent = "dead")
  /\ \/ /\ buffer # <<>>
        /\ line' = Head(buffer) /\ buffer' = Tail(buffer)
        /\ spc' = "handle" /\ UNCHANGED pipe
     \/ /\ buffer = <<>> /\ pipe # <<>>
        /\ line' = Head(pipe) /\ buffer' = Tail(pipe) /\ pipe' = <<>>
        /\ spc' = "handle"
     \/ /\ buffer = <<>> /\ pipe = <<>>
        /\ spc' = "end" /\ UNCHANGED <<pipe, buffer, line>>
  /\ UNCHANGED <<user, agentVars, session>>

HandleEvent ==
  /\ spc = "handle"
  /\ spc' = IF line \notin Actions THEN "poll" ELSE IF Verified THEN "act" ELSE "end"
  /\ UNCHANGED <<user, agentVars, pipe, buffer, session, line>>

\* Bug: a failed lock-session is logged and forgotten.
LockFailsIgnored ==
  /\ spc = "act" /\ line = "LOCK"
  /\ spc' = "poll"
  /\ UNCHANGED <<user, agentVars, pipe, buffer, session, line>>

\* The session may have gone, or been switched away from, since it was verified.
LockSession ==
  /\ spc = "act" /\ line = "LOCK"
  /\ \/ Verified /\ locked' = TRUE /\ spc' = "poll"
     \/ ~Verified /\ UNCHANGED locked /\ spc' \in {"poll", "end"}
  /\ UNCHANGED <<power, active, idle, agentVars, pipe, buffer, session, line>>

LockFails ==
  /\ spc = "act" /\ line = "LOCK"
  /\ spc' = "end"
  /\ UNCHANGED <<user, agentVars, pipe, buffer, session, line>>

\* The shutdown that systemctl queues takes the supervisor and the agent down too.
PowerOff ==
  /\ spc = "act" /\ line = "POWER_OFF"
  /\ power' = "off" /\ spc' = "down" /\ agent' = "none"
  /\ UNCHANGED <<active, idle, locked, seen, flags, armed, pipe, buffer, session, line>>

PowerOffFails ==
  /\ spc = "act" /\ line = "POWER_OFF"
  /\ spc' = "end"
  /\ UNCHANGED <<user, agentVars, pipe, buffer, session, line>>

\* The agent is terminated and, after two seconds, the session looked for again.
TerminateAgent ==
  /\ spc = "end" /\ spc' = "find"
  /\ agent' = "none"
  /\ UNCHANGED <<user, seen, flags, armed, pipe, buffer, session, line>>

\* A command that times out, a stop or a kill ends the service and its agent.
SupervisorDies ==
  /\ spc # "down" /\ spc' = "down"
  /\ agent' = "none"
  /\ UNCHANGED <<user, seen, flags, armed, pipe, buffer, session, line>>

\* Restart=always.
ServiceRestarts ==
  /\ power = "on" /\ spc = "down" /\ spc' = "find"
  /\ UNCHANGED <<user, agentVars, pipe, buffer, session, line>>

-----------------------------------------------------------------------------
AgentStep == AgentWarns \/ AgentReady \/ AgentInitial

SupervisorStep ==
  \/ FindSession \/ SpawnAgent \/ Poll \/ SelectTimeout \/ ReadLine \/ HandleEvent
  \/ LockSession \/ PowerOff \/ TerminateAgent \/ ServiceRestarts

Failure == AgentDies \/ LockFails \/ PowerOffFails \/ SupervisorDies

User == Input \/ Activate \/ Leave

Next ==
  \/ AgentStep \/ SupervisorStep \/ Failure
  \/ User \/ ThresholdPasses
  \/ Boot

Spec == Init /\ [][Next]_vars

\* Both programs run on, and systemd restarts the service.
FairSpec == Spec /\ WF_vars(AgentStep) /\ WF_vars(SupervisorStep)

-----------------------------------------------------------------------------
(***************************************************************************)
(* Properties.                                                             *)
(***************************************************************************)
TypeOK ==
  /\ power \in {"on", "off"}
  /\ active \in Sessions \cup {NoSession} /\ session \in Sessions \cup {NoSession}
  /\ idle \in 0..Overdue /\ seen \in 0..Overdue
  /\ locked \in BOOLEAN /\ armed \in BOOLEAN
  /\ agent \in Alive \cup {"none", "dead"}
  /\ flags \subseteq Actions
  /\ pipe \in Seq(Events) /\ buffer \in Seq(Events) /\ line \in Events
  /\ spc \in {"find", "spawn", "poll", "select", "handle", "act", "end", "down"}

(***************************************************************************)
(* Whoever died, failed, resumed or switched sessions before: when both    *)
(* programs wait, a session that has been idle for the first threshold is  *)
(* locked, and a machine that has been idle for the second is not on.  The *)
(* one exception is an event that readline has read ahead.                 *)
(***************************************************************************)
PolicyInTime ==
  Waiting =>
    /\ idle = Lock => locked \/ Contains(buffer, "LOCK") \/ Contains(buffer, "POWER_OFF")
    /\ idle >= Shutdown => Contains(buffer, "POWER_OFF")

(***************************************************************************)
(* Unless something fails or the user comes and goes again and again, the  *)
(* active session is supervised for good, whichever session was before.    *)
(***************************************************************************)
Supervised == session = active /\ agent = "running" /\ spc # "down"

SupervisionSettles ==
  \/ []<><<Failure \/ Activate \/ Leave>>_vars
  \/ []<><<Boot>>_vars
  \/ <>[](active = NoSession \/ power = "off")
  \/ <>[]Supervised
=============================================================================
