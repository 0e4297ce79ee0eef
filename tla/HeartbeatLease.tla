--------------------------- MODULE HeartbeatLease ---------------------------
(***************************************************************************)
(* The lease between an Android client and the server's registry, in whole *)
(* time units.  A session joins over HTTP, sends one heartbeat at a time   *)
(* (a delay of HeartbeatDelay, then a blocking call), and ends by a leave  *)
(* call, or silently when the process or its activity dies.  A call may be *)
(* lost, may be answered by a reply that is lost, and may reach the server *)
(* long after its caller gave up.  The reaper runs on its own.             *)
(*                                                                         *)
(* Client side: ListeningScreen.kt (httpJoin, the heartbeat loop,          *)
(* httpHeartbeat, httpLeave); server side: ClientRegistry and the three    *)
(* /udp handlers of server.rs.                                             *)
(***************************************************************************)
EXTENDS ClientRegistry

CONSTANTS
  HeartbeatDelay, \* delay(5000) of the heartbeat loop
  CallTime        \* longest a call of the client takes, answered or failed

ASSUME LeaseAssumption ==
  /\ HeartbeatDelay \in Nat
  /\ CallTime \in Nat

VARIABLES
  session,  \* per id: what its client is doing, and for how long
  since,    \* per id: time since its join came, or since its client began the last
            \* answered heartbeat; ticks count to Timeout (a history variable)
  inFlight  \* per id: calls abandoned by the client, not yet at the server

clientVars == <<session, since, inFlight>>
vars == <<registryVars, clientVars>>

Phases == {"idle", "joining", "delay", "calling", "ok", "notFound",
           "leaving", "gone"}
Calls == {"heartbeat", "leave"}

\* The phases of a blocking HTTP call.
Calling == {"joining", "calling", "ok", "notFound", "leaving"}

TypeOK ==
  /\ RegistryTypeOK
  /\ session \in [Ids -> [at : Phases, for : Nat]]
  /\ since \in [Ids -> Nat]
  /\ inFlight \in [Ids -> SUBSET Calls]

Init ==
  /\ RegistryInit
  /\ session = [i \in Ids |-> [at |-> "idle", for |-> 0]]
  /\ since = [i \in Ids |-> 0]
  /\ inFlight = [i \in Ids |-> {}]

Enter(id, phase) == session' = [session EXCEPT ![id] = [at |-> phase, for |-> 0]]
\* The call goes on: the server has acted, the reply is under way.
Answered(id, phase) == session' = [session EXCEPT ![id].at = phase]

\* The client stops waiting for a heartbeat that has not arrived: it arrives
\* later, or never.
Abandon(id) ==
  inFlight' = IF session[id].at = "calling"
              THEN [inFlight EXCEPT ![id] = @ \cup {"heartbeat"}]
              ELSE inFlight

-----------------------------------------------------------------------------
\* httpJoin reaches udp_join_handler, which registers the client: the wait for
\* the lock is part of the call.  (A join so late that its client gave up is
\* one whose reply is lost.)
JoinArrives(id) ==
  /\ session[id].at = "idle"
  /\ \E waited \in 0 .. LockWait :
       /\ waited <= CallTime
       /\ Join(id, waited)
       /\ session' = [session EXCEPT ![id] = [at |-> "joining", for |-> waited]]
       /\ since' = [since EXCEPT ![id] = waited]
  /\ UNCHANGED inFlight

\* The reply arrives: the session is committed and the heartbeat loop starts.
JoinReply(id) ==
  /\ session[id].at = "joining"
  /\ Enter(id, "delay")
  /\ UNCHANGED <<registryVars, since, inFlight>>

\* The reply is lost: httpJoin fails and the client knows no id to leave with.
JoinReplyLost(id) ==
  /\ session[id].at = "joining"
  /\ Enter(id, "gone")
  /\ UNCHANGED <<registryVars, since, inFlight>>

-----------------------------------------------------------------------------
HeartbeatStart(id) ==
  /\ session[id] = [at |-> "delay", for |-> HeartbeatDelay]
  /\ Enter(id, "calling")
  /\ UNCHANGED <<registryVars, since, inFlight>>

\* udp_heartbeat_handler: NO_CONTENT for a known client, NOT_FOUND for others.
HeartbeatArrives(id) ==
  /\ session[id].at = "calling"
  /\ Heartbeat(id)
  /\ Answered(id, IF Known(id) THEN "ok" ELSE "notFound")
  /\ UNCHANGED <<since, inFlight>>

HeartbeatOk(id) ==
  /\ session[id].at = "ok"
  /\ Enter(id, "delay")
  /\ since' = [since EXCEPT ![id] = session[id].for]
  /\ UNCHANGED <<registryVars, inFlight>>

\* httpHeartbeat returns false: no answer in time, or NOT_FOUND.  The loop
\* only logs it: it neither retries nor joins again.
HeartbeatFails(id) ==
  /\ session[id].at \in {"calling", "ok", "notFound"}
  /\ Enter(id, "delay")
  /\ Abandon(id)
  /\ UNCHANGED <<registryVars, since>>

-----------------------------------------------------------------------------
\* The user disconnects: the heartbeat loop ends with isConnected and
\* httpLeave is called once.  A heartbeat under way goes on by itself.
Disconnect(id) ==
  /\ session[id].at \in {"delay", "calling", "ok", "notFound"}
  /\ Enter(id, "leaving")
  /\ Abandon(id)
  /\ UNCHANGED <<registryVars, since>>

LeaveArrives(id) ==
  /\ session[id].at = "leaving"
  /\ Leave(id)
  /\ Enter(id, "gone")
  /\ UNCHANGED <<since, inFlight>>

\* httpLeave fails: logged, never retried; the call arrives later or
\* never.
LeaveFails(id) ==
  /\ session[id].at = "leaving"
  /\ Enter(id, "gone")
  /\ inFlight' = [inFlight EXCEPT ![id] = @ \cup {"leave"}]
  /\ UNCHANGED <<registryVars, since>>

\* The process is killed, or the activity goes away and its heartbeats with it.
Vanish(id) ==
  /\ session[id].at \in {"joining", "delay", "calling", "ok", "notFound"}
  /\ Enter(id, "gone")
  /\ Abandon(id)
  /\ UNCHANGED <<registryVars, since>>

\* A call its client gave up on reaches the server after all.
LateHeartbeat(id) ==
  /\ "heartbeat" \in inFlight[id]
  /\ Heartbeat(id)
  /\ inFlight' = [inFlight EXCEPT ![id] = @ \ {"heartbeat"}]
  /\ UNCHANGED <<session, since>>

LateLeave(id) ==
  /\ "leave" \in inFlight[id]
  /\ Leave(id)
  /\ inFlight' = [inFlight EXCEPT ![id] = @ \ {"leave"}]
  /\ UNCHANGED <<session, since>>

Reap ==
  /\ ReaperWake \/ ReaperSweep
  /\ UNCHANGED clientVars

-----------------------------------------------------------------------------
\* No client call outlasts CallTime and no delay outlasts HeartbeatDelay.
MayWait(s) ==
  /\ s.at \in Calling => s.for < CallTime
  /\ s.at = "delay" => s.for < HeartbeatDelay

Timed(s) == s.at \in Calling \cup {"delay"}

\* The phases of a client that heartbeats.
Active == {"joining", "delay", "calling", "ok", "notFound"}

\* A time unit passes for every thread that sleeps or waits.
Tick ==
  /\ \A id \in Ids : MayWait(session[id])
  /\ AgeClients
  /\ session' = [id \in Ids |->
       IF Timed(session[id]) THEN [session[id] EXCEPT !.for = @ + 1] ELSE session[id]]
  /\ since' = [id \in Ids |->
       IF session[id].at \in Active /\ since[id] < Timeout THEN since[id] + 1 ELSE since[id]]
  /\ UNCHANGED inFlight

ClientStep(id) ==
  \/ JoinArrives(id) \/ JoinReply(id) \/ JoinReplyLost(id)
  \/ HeartbeatStart(id) \/ HeartbeatArrives(id) \/ HeartbeatOk(id) \/ HeartbeatFails(id)
  \/ Disconnect(id) \/ LeaveArrives(id) \/ LeaveFails(id) \/ Vanish(id)
  \/ LateHeartbeat(id) \/ LateLeave(id)

Next == (\E id \in Ids : ClientStep(id)) \/ Reap \/ Tick

Spec == Init /\ [][Next]_vars

-----------------------------------------------------------------------------
\* The lease: a client whose last answered call was begun less than a timeout
\* ago is in the registry, so the pacer streams to it, however slow that call
\* was, however many heartbeats failed since, and wherever the reaper is.
LeaseHeld ==
  \A id \in Ids :
    session[id].at \in Active /\ since[id] < Timeout => id \in clients
=============================================================================
