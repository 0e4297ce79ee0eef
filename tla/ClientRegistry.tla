--------------------------- MODULE ClientRegistry ---------------------------
(***************************************************************************)
(* The server's table of native UDP clients (src/client_registry.rs) and   *)
(* the thread that reaps the stale ones.                                   *)
(*                                                                         *)
(* One action per method of ClientRegistry.  Every method holds the write  *)
(* lock for its whole effect, so each is one step.  Two of them read the   *)
(* clock BEFORE they wait for the lock: join, whose client is then inserted*)
(* with the age that the wait gave it, and reap_stale, which is two steps. *)
(*                                                                         *)
(* A Client's last_seen instant is kept as the whole time units since it:  *)
(* age[id] is now - last_seen.  The actions leave time alone: a module     *)
(* that composes this one calls AgeClients when its clock ticks.           *)
(***************************************************************************)
EXTENDS Naturals

CONSTANTS
  Ids,        \* the client ids rand_id can draw
  Timeout,    \* heartbeat_timeout_secs, in time units
  ReapPeriod, \* the reaper thread's sleep between two sweeps
  LockWait    \* longest wait of a thread for the registry's lock

ASSUME RegistryAssumption ==
  /\ Timeout \in Nat \ {0}
  /\ ReapPeriod \in Nat \ {0}
  /\ LockWait \in Nat

VARIABLES
  clients,    \* ids in the HashMap
  age,        \* now - last_seen of each registered client
  used,       \* every id ever drawn
  reaper      \* where the reaper thread is, and for how long it has been there

registryVars == <<clients, age, used, reaper>>

RegistryTypeOK ==
  /\ clients \subseteq used
  /\ used \subseteq Ids
  /\ age \in [Ids -> Nat]
  /\ reaper \in [at : {"sleep", "sweep"}, for : Nat]

RegistryInit ==
  /\ clients = {}
  /\ age = [i \in Ids |-> 0]
  /\ used = {}
  /\ reaper = [at |-> "sleep", for |-> 0]

-----------------------------------------------------------------------------
\* join: insert a client under an id never drawn before (64 random bits).  Its
\* last_seen was taken before the wait for the lock.
Join(id, waited) ==
  /\ id \notin used
  /\ used' = used \cup {id}
  /\ clients' = clients \cup {id}
  /\ age' = [age EXCEPT ![id] = waited]
  /\ UNCHANGED reaper

\* Seeded bug: heartbeat finds the client but does not store the new instant.
HeartbeatWithoutTouch(id) == UNCHANGED registryVars

\* Seeded bug: heartbeat inserts a client it does not find.
HeartbeatUpserts(id) ==
  /\ clients' = clients \cup {id}
  /\ age' = [age EXCEPT ![id] = 0]
  /\ UNCHANGED <<used, reaper>>

\* heartbeat: touch last_seen of a registered client, ignore any other id.
\* Its result is Known(id).
Known(id) == id \in clients

Heartbeat(id) ==
  /\ age' = IF Known(id) THEN [age EXCEPT ![id] = 0] ELSE age
  /\ UNCHANGED <<clients, used, reaper>>

\* leave: remove the client if it is there.
Leave(id) ==
  /\ clients' = clients \ {id}
  /\ UNCHANGED <<age, used, reaper>>

-----------------------------------------------------------------------------
\* The reaper sleeps, and before and after a sweep it counts the clients, which
\* needs the lock.
LongestSleep == ReapPeriod + 2 * LockWait

\* The reaper thread has slept and counted: reap_stale takes `now`.
ReaperWake ==
  /\ reaper.at = "sleep" /\ reaper.for >= ReapPeriod
  /\ reaper' = [at |-> "sweep", for |-> 0]
  /\ UNCHANGED <<clients, age, used>>

\* The age of a client as of the instant the reaper took: an instant in that
\* one's future counts as zero (duration_since saturates).
AgeAtWake(id) == IF age[id] < reaper.for THEN 0 ELSE age[id] - reaper.for

\* Seeded bug: a client is kept at the very timeout.
FreshUpToTimeout(id) == AgeAtWake(id) <= Timeout

Fresh(id) == AgeAtWake(id) < Timeout

\* Seeded bug: the table is rebuilt from every id that looks fresh.
SweepOfAllIds ==
  /\ reaper.at = "sweep"
  /\ clients' = {id \in Ids : Fresh(id)}
  /\ reaper' = [at |-> "sleep", for |-> 0]
  /\ UNCHANGED <<age, used>>

\* reap_stale gets the lock and retains the fresh clients.
ReaperSweep ==
  /\ reaper.at = "sweep"
  /\ clients' = {id \in clients : Fresh(id)}
  /\ reaper' = [at |-> "sleep", for |-> 0]
  /\ UNCHANGED <<age, used>>

-----------------------------------------------------------------------------
\* The reaper neither oversleeps nor waits for the lock beyond LockWait.
ReaperMayWait ==
  \/ reaper.at = "sleep" /\ reaper.for < LongestSleep
  \/ reaper.at = "sweep" /\ reaper.for < LockWait

\* One time unit passes for the registry.
AgeClients ==
  /\ ReaperMayWait
  /\ age' = [i \in Ids |-> IF i \in clients THEN age[i] + 1 ELSE age[i]]
  /\ reaper' = [reaper EXCEPT !.for = @ + 1]
  /\ UNCHANGED <<clients, used>>

\* The oldest a registered client can be: just fresh at a sweep that waited
\* LockWait for the lock, then a sleep and another wait.
OldestAge == Timeout - 1 + LongestSleep + 2 * LockWait

\* A dead client is not streamed to for ever: no registered client has been
\* silent for longer than the timeout, one round of the reaper and its waits.
StaleBounded == \A id \in clients : age[id] <= OldestAge

\* A client that left or was reaped stays out, however late its heartbeats
\* are handled: heartbeat and leave never insert.
NoResurrection == [][\A id \in used : id \notin clients => id \notin clients']_registryVars
=============================================================================
