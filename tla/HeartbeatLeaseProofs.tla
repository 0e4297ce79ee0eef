------------------------ MODULE HeartbeatLeaseProofs ------------------------
(***************************************************************************)
(* What HeartbeatLease guarantees for every set of ids and every timing    *)
(* constant: its types, the bound on dead clients, the lease and that no   *)
(* client comes back.                                                      *)
(***************************************************************************)
EXTENDS HeartbeatLease, TLAPS

\* What makes LeaseHeld inductive: the registration is no older than the
\* client's own clock says, and after an answer, than the call it answers.
RegisteredFor(id, time) == time < Timeout => id \in clients /\ age[id] <= time

LeaseInvOf(id) ==
  /\ session[id].at \in Active => RegisteredFor(id, since[id])
  /\ session[id].at = "ok" => RegisteredFor(id, session[id].for)
  /\ "leave" \in inFlight[id] => session[id].at = "gone"

LeaseInv == \A id \in Ids : LeaseInvOf(id)

-----------------------------------------------------------------------------
\* The registry actions and the session phases, expanded in the proofs below.
USE DEF Phases, Calls, Calling

-----------------------------------------------------------------------------
\* Every variable keeps its type: in particular only drawn ids are registered.
THEOREM TypeCorrect == Spec => []TypeOK
<1>1. Init => TypeOK
  BY LeaseAssumption DEF Init, TypeOK, RegistryInit, RegistryTypeOK
<1>2. TypeOK /\ [Next]_vars => TypeOK'
  <2> SUFFICES ASSUME TypeOK, [Next]_vars PROVE TypeOK'
    OBVIOUS
  <2> USE RegistryAssumption, LeaseAssumption DEF TypeOK, RegistryTypeOK, Abandon
  <2>1. ASSUME NEW id \in Ids, ClientStep(id) PROVE TypeOK'
    <3>1. CASE JoinArrives(id)
      BY <3>1 DEF JoinArrives, Join, Enter
    <3>2. CASE JoinReply(id) \/ JoinReplyLost(id) \/ HeartbeatStart(id)
      BY <3>2 DEF JoinReply, JoinReplyLost, HeartbeatStart, Enter, registryVars
    <3>3. CASE HeartbeatArrives(id)
      BY <3>3 DEF HeartbeatArrives, Heartbeat, Known, Answered
    <3>4. CASE HeartbeatOk(id)
      BY <3>4 DEF HeartbeatOk, Enter, registryVars
    <3>5. CASE HeartbeatFails(id)
      <4>1. inFlight' \in [Ids -> SUBSET Calls]
        BY <3>5 DEF HeartbeatFails
      <4>2. QED
        BY <3>5, <4>1 DEF HeartbeatFails, Enter, registryVars
    <3>6. CASE Disconnect(id) \/ Vanish(id)
      <4>1. inFlight' \in [Ids -> SUBSET Calls]
        BY <3>6 DEF Disconnect, Vanish
      <4>2. QED
        BY <3>6, <4>1 DEF Disconnect, Vanish, Enter, registryVars
    <3>7. CASE LeaveArrives(id) \/ LateLeave(id)
      BY <3>7 DEF LeaveArrives, LateLeave, Leave, Enter
    <3>8. CASE LeaveFails(id)
      BY <3>8 DEF LeaveFails, Enter, registryVars
    <3>9. CASE LateHeartbeat(id)
      BY <3>9 DEF LateHeartbeat, Heartbeat, Known
    <3>10. QED
      BY <2>1, <3>1, <3>2, <3>3, <3>4, <3>5, <3>6, <3>7, <3>8, <3>9 DEF ClientStep
  <2>2. CASE Reap
    BY <2>2 DEF Reap, ReaperWake, ReaperSweep, clientVars
  <2>3. CASE Tick
    BY <2>3 DEF Tick, AgeClients, Timed
  <2>4. CASE UNCHANGED vars
    BY <2>4 DEF vars, registryVars, clientVars
  <2>5. QED
    BY <2>1, <2>2, <2>3, <2>4 DEF Next
<1>3. QED
  BY <1>1, <1>2, PTL DEF Spec

-----------------------------------------------------------------------------
\* How old a registered client can be, by where the reaper is.
StaleInv ==
  /\ reaper.for <= (IF reaper.at = "sleep" THEN LongestSleep ELSE LockWait)
  /\ \A id \in clients :
       age[id] <= Timeout - 1 + LockWait + reaper.for
                  + (IF reaper.at = "sweep" THEN LongestSleep ELSE 0)

\* No client that stopped heartbeating is streamed to for longer than the
\* timeout, one round of the reaper and two waits for the lock.
THEOREM Staleness == Spec => []StaleBounded
<1> USE RegistryAssumption
<1>1. Init => StaleInv
  BY DEF Init, RegistryInit, StaleInv, LongestSleep
<1>2. TypeOK /\ StaleInv /\ [Next]_vars => StaleInv'
  <2> SUFFICES ASSUME TypeOK, StaleInv, [Next]_vars PROVE StaleInv'
    OBVIOUS
  <2> USE DEF TypeOK, RegistryTypeOK, StaleInv, LongestSleep
  <2>1. ASSUME NEW id \in Ids, NEW waited \in 0 .. LockWait,
               Join(id, waited) \/ Heartbeat(id) \/ Leave(id)
        PROVE StaleInv'
    BY <2>1 DEF Join, Heartbeat, Leave
  <2>2. CASE UNCHANGED registryVars
    BY <2>2 DEF registryVars
  <2>3. ASSUME NEW id \in Ids, ClientStep(id) PROVE StaleInv'
    BY <2>1, <2>2, <2>3 DEF ClientStep, JoinArrives, JoinReply, JoinReplyLost,
       HeartbeatStart, HeartbeatArrives, HeartbeatOk, HeartbeatFails, Disconnect,
       LeaveArrives, LeaveFails, Vanish, LateHeartbeat, LateLeave
  <2>4. CASE ReaperWake
    BY <2>4 DEF ReaperWake
  <2>5. CASE ReaperSweep
    BY <2>5 DEF ReaperSweep, Fresh, AgeAtWake
  <2>6. CASE AgeClients
    BY <2>6 DEF AgeClients, ReaperMayWait
  <2>7. QED
    BY <2>2, <2>3, <2>4, <2>5, <2>6 DEF Next, Reap, Tick, vars
<1>3. TypeOK /\ StaleInv => StaleBounded
  BY DEF TypeOK, RegistryTypeOK, StaleInv, StaleBounded, OldestAge, LongestSleep
<1>4. QED
  BY <1>1, <1>2, <1>3, TypeCorrect, PTL DEF Spec
-----------------------------------------------------------------------------
LEMMA LeaseStep ==
  ASSUME TypeOK, LeaseInv, [Next]_vars
  PROVE  LeaseInv'
<1> USE RegistryAssumption, LeaseAssumption DEF TypeOK, RegistryTypeOK
<1> SUFFICES ASSUME NEW id \in Ids PROVE LeaseInvOf(id)'
  BY DEF LeaseInv
<1>h. LeaseInvOf(id)
  BY DEF LeaseInv
<1> USE DEF Abandon, LeaseInvOf, RegisteredFor, Active
\* A step of another client leaves this one's registration and session alone.
<1>1. ASSUME NEW other \in Ids, other # id, ClientStep(other) PROVE  LeaseInvOf(id)'
  <2>1. /\ session'[id] = session[id] /\ since'[id] = since[id]
        /\ inFlight'[id] = inFlight[id]
        /\ age'[id] = age[id] /\ (id \in clients' <=> id \in clients)
    BY <1>1 DEF ClientStep, JoinArrives, JoinReply, JoinReplyLost, HeartbeatStart,
       HeartbeatArrives, HeartbeatOk, HeartbeatFails, Disconnect, LeaveArrives,
       LeaveFails, Vanish, LateHeartbeat, LateLeave, Abandon, Enter, Answered, Join, Heartbeat,
       Leave, Known, registryVars
  <2>2. QED
    BY <2>1, <1>h
<1>2. ASSUME ClientStep(id) PROVE  LeaseInvOf(id)'
  <2>1. CASE JoinArrives(id)
    BY <2>1, <1>h DEF JoinArrives, Join
  <2>2. CASE JoinReply(id) \/ HeartbeatStart(id) \/ HeartbeatFails(id)
    BY <2>2, <1>h DEF JoinReply, HeartbeatStart, HeartbeatFails, Enter, registryVars
  \* A known client is touched: its registration starts again at age zero.
  <2>3. CASE HeartbeatArrives(id)
    BY <2>3, <1>h DEF HeartbeatArrives, Heartbeat, Known, Answered
  <2>4. CASE HeartbeatOk(id)
    BY <2>4, <1>h DEF HeartbeatOk, Enter, registryVars
  <2>5. CASE JoinReplyLost(id) \/ Disconnect(id) \/ LeaveFails(id) \/ Vanish(id)
    BY <2>5, <1>h DEF JoinReplyLost, Disconnect, LeaveFails, Vanish, Enter, registryVars
  <2>6. CASE LeaveArrives(id) \/ LateLeave(id)
    BY <2>6, <1>h DEF LeaveArrives, LateLeave, Leave, Enter
  <2>7. CASE LateHeartbeat(id)
    BY <2>7, <1>h DEF LateHeartbeat, Heartbeat, Known
  <2>8. QED
    BY <1>2, <2>1, <2>2, <2>3, <2>4, <2>5, <2>6, <2>7 DEF ClientStep
<1>3. CASE Reap
  <2>1. CASE ReaperWake
    BY <2>1, <1>3, <1>h DEF Reap, ReaperWake, clientVars
  \* The sweep keeps what its own clock still finds younger than the timeout.
  <2>2. CASE ReaperSweep
    <3>1. id \in clients /\ age[id] < Timeout => id \in clients'
      BY <2>2 DEF ReaperSweep, Fresh, AgeAtWake
    <3>2. QED
      BY <2>2, <3>1, <1>3, <1>h DEF Reap, ReaperSweep, clientVars
  <2>3. QED
    BY <1>3, <2>1, <2>2 DEF Reap
<1>4. CASE Tick
  BY <1>4, <1>h DEF Tick, AgeClients, Timed
<1>5. CASE UNCHANGED vars
  BY <1>5, <1>h DEF vars, registryVars, clientVars
<1>6. QED
  BY <1>1, <1>2, <1>3, <1>4, <1>5 DEF Next

\* A client is registered as long as its own clock says less than a timeout has
\* passed since it began the last heartbeat that was answered: for any timing of
\* its calls, of their replies and of the reaper.
THEOREM Lease == Spec => []LeaseHeld
<1>1. Init => LeaseInv
  BY DEF Init, LeaseInv, LeaseInvOf, Active
<1>2. TypeOK /\ LeaseInv /\ [Next]_vars => LeaseInv'
  BY LeaseStep
<1>3. LeaseInv => LeaseHeld
  BY DEF LeaseInv, LeaseInvOf, LeaseHeld, RegisteredFor
<1>4. QED
  BY <1>1, <1>2, <1>3, TypeCorrect, PTL DEF Spec

-----------------------------------------------------------------------------
\* A client that left or was reaped never comes back: a late heartbeat or
\* leave finds no entry, and a join draws a new id.
THEOREM Gone == Spec => NoResurrection
<1>1. TypeOK /\ [Next]_vars =>
        [\A id \in used : id \notin clients => id \notin clients']_registryVars
  BY DEF TypeOK, RegistryTypeOK, Next, ClientStep, JoinArrives, JoinReply, JoinReplyLost,
     HeartbeatStart, HeartbeatArrives, HeartbeatOk, HeartbeatFails, Disconnect,
     LeaveArrives, LeaveFails, Vanish, LateHeartbeat, LateLeave, Reap, Tick, Join,
     Heartbeat, Leave, ReaperWake, ReaperSweep, AgeClients, registryVars, vars
<1>2. QED
  BY <1>1, TypeCorrect, PTL DEF Spec, NoResurrection
=============================================================================
