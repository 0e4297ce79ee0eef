-------------------------- MODULE ListenPageProofs --------------------------
(***************************************************************************)
(* What the listen page and the server guarantee for any number of calls   *)
(* of connect(): the count of the server's WebRTC peers, types, that the   *)
(* page is never stuck, and that calls that follow one another leave       *)
(* nothing open and send candidates to the peer they are meant for.        *)
(***************************************************************************)
EXTENDS ListenPage, TLAPS

\* What makes CountFollows inductive: a cleanup task is there only for its own
\* peer's loss, and a peer listed while it was down is on the list until a later
\* task runs.
PeerInv ==
  /\ PeerTypeOK
  /\ early \subseteq peers
  /\ \A k \in Offers : cleanups[k] > 0 => k \in lost
  /\ CountFollows

-----------------------------------------------------------------------------
\* What makes the invariants inductive.  A call's connections are made at their
\* step, and its request is sent at the last await;
CallsInOrder ==
  /\ \A a \in Connects :
       /\ a > calls => task[a] = "none"
       /\ task[a] \in {"none", "info", "ready", "worklet"} => conn[a] = [at |-> "none", by |-> None]
       /\ session[a] = "opening" => task[a] = "ready"
       /\ offered[a] # None => task[a] \in {"offer", "done"}
       /\ handler[a] # "none" => offered[a] # None
  /\ wt # None => session[wt] # "none"
  /\ pc # None => conn[pc].at # "none"

\* a page left with a closed WebTransport is trying WebRTC, or will retry;
ClosedRetried ==
  listening /\ wt # None /\ session[wt] = "closed" =>
    \/ timer
    \/ \E a \in Connects : task[a] \in {"gather", "offer"}
    \/ pc # None /\ conn[pc].at = "answered"

\* and without overlap the last call is the only one at work, at the page and
\* at the server: it finds in the globals what it put there.
HoldsItsOwn(a) ==
  /\ task[a] = "info" => wt = None /\ pc = None
  /\ task[a] \in {"ready", "worklet"} => wt = a /\ pc = None
  /\ task[a] \in {"gather", "offer"} => pc = a /\ conn[a] = [at |-> "new", by |-> None]
  /\ task[a] = "offer" => offered[a] = a

LastCallOnly ==
  ~overlap =>
    /\ pc \in {None, calls}
    /\ \A a \in Connects :
         /\ Busy(a) => a = calls /\ listening /\ HoldsItsOwn(a)
         /\ handler[a] \in {"answering", "listed"} => a = calls
         /\ handler[a] = "answered" /\ a = calls => lastPeer = a

PageInv ==
  /\ PeerInv /\ TypeOK /\ CallsInOrder
  /\ ClosedRetried /\ NeverStuck
  /\ SequentialClean /\ LastCallOnly

-----------------------------------------------------------------------------
\* What one offer's handler, its peer and its cleanup tasks do keeps the
\* invariant.  The page appears only as what leaves the server alone.

LEMMA HandlerKeeps ==
  ASSUME PeerInv, NEW k \in Offers,
         HandleOffer(k) \/ OfferFails(k) \/ ListPeer(k) \/ StoreLast(k) \/ CancelOffer(k)
  PROVE  PeerInv'
<1> USE PeerAssumption
<1> USE DEF PeerInv, PeerTypeOK, CountFollows, HandlerGoes, HandlerSteps, Ended
<1>1. CASE HandleOffer(k)
  BY <1>1 DEF HandleOffer
<1>2. CASE Freed(k)
  <2>1. k \notin peers /\ k \notin early
    BY <1>2 DEF Freed
  <2> QED BY <1>2, <2>1 DEF Freed
<1>3. CASE ListPeer(k)
  <2>1. k \notin peers /\ lastPeer # k
    BY <1>3 DEF ListPeer
  <2> QED BY <1>3, <2>1 DEF ListPeer
<1>4. CASE StoreLast(k)
  BY <1>4 DEF StoreLast
<1>5. CASE /\ HandlerGoes(k, {"listed"}, "cancelled")
           /\ UNCHANGED <<down, lost, peers, cleanups, lastPeer, early>>
  BY <1>5
<1> QED BY <1>1, <1>2, <1>3, <1>4, <1>5 DEF OfferFails, CancelOffer

LEMMA LossKeeps ==
  ASSUME PeerInv, NEW k \in Offers, IceDrops(k) \/ IceRecovers(k) \/ CleanUp(k)
  PROVE  PeerInv'
<1> USE PeerAssumption
<1> USE DEF PeerInv, PeerTypeOK, CountFollows, HandlerSteps, Ended
<1>1. CASE IceDrops(k)
  BY <1>1 DEF IceDrops
<1>2. CASE CleanUp(k)
  <2>1. k \in lost
    BY <1>2 DEF CleanUp
  <2> QED BY <1>2, <2>1 DEF CleanUp
<1>3. CASE IceRecovers(k)
  BY <1>3 DEF IceRecovers
<1> QED BY <1>1, <1>2, <1>3

LEMMA RestartKeeps ==
  ASSUME PeerInv, ServerRestarts
  PROVE  PeerInv'
BY PeerAssumption
   DEF PeerInv, PeerTypeOK, CountFollows, HandlerSteps, Ended, ServerRestarts

-----------------------------------------------------------------------------
LEMMA PeersInit == Init => PeerInv
BY PeerAssumption
   DEF Init, PeerInit, PeerInv, PeerTypeOK, CountFollows, HandlerSteps, Ended

LEMMA PeersNext == PeerInv /\ [Next]_vars => PeerInv'
<1> SUFFICES ASSUME PeerInv, [Next]_vars PROVE PeerInv'
  OBVIOUS
<1>1. ASSUME UNCHANGED peerVars PROVE PeerInv'
  BY <1>1 DEF peerVars, PeerInv, PeerTypeOK, CountFollows
<1>2. CASE Listen \/ Stop \/ TimerFires
  <2>1. UNCHANGED peerVars
    BY <1>2 DEF Listen, Stop, TimerFires, Connect
  <2> QED BY <1>1, <2>1
<1>3. ASSUME NEW a \in Connects, ConnectStep(a) PROVE PeerInv'
  <2>1. UNCHANGED peerVars
    BY <1>3 DEF ConnectStep, TransportInfo, NoTransport, Ready, NotReady, WorkletReturns,
       WorkletThrows, StartCall, PostOffer, SetAnswer, CallThrows
  <2> QED BY <1>1, <2>1
<1>4. ASSUME NEW a \in Connects, ConnEvent(a) PROVE PeerInv'
  <2>1. UNCHANGED peerVars
    BY <1>4 DEF ConnEvent, SessionEnds, OnClosed, OnIceDisconnected, OnIceFailed
  <2> QED BY <1>1, <2>1
<1>5. ASSUME NEW k \in Offers, OfferArrives(k) \/ OfferDropped(k) PROVE PeerInv'
  BY <1>5, HandlerKeeps DEF OfferArrives, OfferDropped
<1>6. ASSUME NEW k \in Offers, LinkChanges(k) \/ ServerStep(k) PROVE PeerInv'
  BY <1>6, HandlerKeeps, LossKeeps DEF LinkChanges, ServerStep, PeerStep
<1>7. CASE Restart
  BY <1>7, RestartKeeps DEF Restart
<1>8. CASE UNCHANGED vars
  BY <1>1, <1>8 DEF vars
<1> QED BY <1>2, <1>3, <1>4, <1>5, <1>6, <1>7, <1>8 DEF Next

\* Whatever offers, losses, recoveries and cleanups cross, and whatever connection
\* is given up: each served peer is counted until its own loss takes it off, and
\* one that is not connected only until its task has run, but for peers that were
\* down when they were listed.
THEOREM Counted == Spec => []CountFollows
<1>1. PeerInv => CountFollows
  BY DEF PeerInv
<1> QED BY <1>1, PeersInit, PeersNext, PTL DEF Spec

-----------------------------------------------------------------------------
\* The page.  Each lemma goes through the actions once, for one part of PageInv.

LEMMA TypesInit == Init => TypeOK /\ CallsInOrder
<1> SUFFICES ASSUME Init PROVE TypeOK /\ CallsInOrder
  OBVIOUS
<1> USE PageAssumption DEF Init, Connects, None
<1>1. PeerTypeOK /\ \A k \in Offers : handler[k] = "none"
  BY PeersInit DEF PeerInv, PeerInit
<1>2. TypeOK
  <2>1. listening \in BOOLEAN /\ timer \in BOOLEAN /\ overlap \in BOOLEAN
    OBVIOUS
  <2>2. calls \in 0 .. MaxConnects /\ wt \in 0 .. calls /\ pc \in 0 .. calls
    OBVIOUS
  <2>3. /\ task \in [Connects -> Awaits \cup {"none", "done"}]
        /\ session \in [Connects -> {"none", "opening", "open", "closing", "closed", "lost"}]
    OBVIOUS
  <2>4. conn \in [Connects -> [at : {"none", "new", "answered", "failed", "closed"},
                             by : Connects \cup {None}]]
    OBVIOUS
  <2>5. offered \in [Connects -> Connects \cup {None}]
    OBVIOUS
  <2> QED BY <1>1, <2>1, <2>2, <2>3, <2>4, <2>5 DEF TypeOK
<1>3. CallsInOrder
  BY <1>1 DEF CallsInOrder
<1> QED BY <1>2, <1>3

\* What the user and the timer do: a call starts, or the page stops.
LEMMA UserTypes ==
  ASSUME PeerInv', TypeOK, CallsInOrder, Connect \/ Stop
  PROVE  TypeOK' /\ CallsInOrder'
<1> USE PageAssumption DEF Connects, None, Release, ClosedSession, ClosedConn, NoteOverlap
<1>1. CASE Connect
  <2>1. TypeOK'
    <3> USE DEF Connect, TypeOK, PeerInv
    <3>1. listening' \in BOOLEAN /\ timer' \in BOOLEAN /\ overlap' \in BOOLEAN
      BY <1>1
    <3>2. calls' \in 0 .. MaxConnects /\ wt' \in 0 .. calls' /\ pc' \in 0 .. calls'
      BY <1>1
    <3>3. task' \in [Connects -> Awaits \cup {"none", "done"}]
      BY <1>1 DEF Awaits
    <3>4. session' \in [Connects -> {"none", "opening", "open", "closing", "closed", "lost"}]
      BY <1>1
    <3>5. conn' \in [Connects -> [at : {"none", "new", "answered", "failed", "closed"},
                                by : Connects \cup {None}]]
      BY <1>1
    <3> QED BY <1>1, <3>1, <3>2, <3>3, <3>4, <3>5
  <2>2. CallsInOrder'
    BY <1>1 DEF Connect, TypeOK, CallsInOrder, Awaits, peerVars
  <2> QED BY <2>1, <2>2
<1>2. CASE Stop
  <2>1. TypeOK'
    <3> USE DEF Stop, TypeOK, PeerInv
    <3>1. listening' \in BOOLEAN /\ timer' \in BOOLEAN /\ overlap' \in BOOLEAN
      BY <1>2
    <3>2. session' \in [Connects -> {"none", "opening", "open", "closing", "closed", "lost"}]
      BY <1>2
    <3>3. conn' \in [Connects -> [at : {"none", "new", "answered", "failed", "closed"},
                                by : Connects \cup {None}]]
      BY <1>2
    <3> QED BY <1>2, <3>1, <3>2, <3>3
  <2>2. CallsInOrder'
    BY <1>2 DEF Stop, TypeOK, CallsInOrder, Awaits, peerVars
  <2> QED BY <2>1, <2>2
<1> QED BY <1>1, <1>2

LEMMA CallStarts ==
  ASSUME PeerInv', TypeOK, CallsInOrder, NEW a \in Connects,
         StartCall(a, task[a]), task[a] \in {"info", "worklet"}
  PROVE  TypeOK' /\ CallsInOrder'
<1> USE PageAssumption DEF Connects, None, Goes, StartCall, peerVars, PeerInv, TypeOK, CallsInOrder
<1>1. a <= calls /\ conn' = [conn EXCEPT ![a] = [at |-> "new", by |-> None]]
  <2>1. a <= calls
    OBVIOUS
  <2>2. conn[a] = [at |-> "none", by |-> None]
    OBVIOUS
  <2>3. conn' = [conn EXCEPT ![a].at = "new"]
    OBVIOUS
  <2>4. [conn[a] EXCEPT !.at = "new"] = [at |-> "new", by |-> None]
    BY <2>2
  <2> QED BY <2>1, <2>3, <2>4
<1>2. TypeOK'
  BY <1>1 DEF Awaits
<1>3. CallsInOrder'
  BY <1>1 DEF Awaits
<1> QED BY <1>2, <1>3

LEMMA StepTypes ==
  ASSUME PeerInv', TypeOK, CallsInOrder, NEW a \in Connects, ConnectStep(a)
  PROVE  TypeOK' /\ CallsInOrder'
<1> USE PageAssumption DEF Connects, None, Goes, StartCall, ScheduleReconnect, Awaits,
        peerVars, PeerInv, TypeOK, CallsInOrder
<1>1. CASE TransportInfo(a)
  BY <1>1 DEF TransportInfo
<1>2. CASE NoTransport(a)
  <2>1. StartCall(a, task[a])
    BY <1>2 DEF NoTransport
  <2> QED BY <1>2, <2>1, CallStarts DEF NoTransport
<1>3. CASE Ready(a)
  <2>1. TypeOK'
    BY <1>3 DEF Ready
  <2>2. /\ UNCHANGED <<handler, calls, conn, offered, wt, pc>>
        /\ task[a] = "ready" /\ task' = [task EXCEPT ![a] = "worklet"]
        /\ session' = [session EXCEPT ![a] = "open"]
    BY <1>3 DEF Ready
  <2>3. CallsInOrder'
    BY <2>2
  <2> QED BY <2>1, <2>3
<1>4. CASE NotReady(a)
  <2>1. /\ UNCHANGED <<handler, calls, offered, wt, listening, timer, overlap>> /\ pc' = a
        /\ task[a] = "ready" /\ task' = [task EXCEPT ![a] = "gather"]
        /\ session' = [session EXCEPT ![a] = "closed"]
        /\ conn' = [conn EXCEPT ![a].at = "new"]
    BY <1>4 DEF NotReady
  <2>2. conn[a] = [at |-> "none", by |-> None] /\ a <= calls
    BY <2>1
  <2>3. conn' = [conn EXCEPT ![a] = [at |-> "new", by |-> None]]
    <3>1. [conn[a] EXCEPT !.at = "new"] = [at |-> "new", by |-> None]
      BY <2>2
    <3> QED BY <2>1, <3>1
  <2>4. conn' \in [Connects -> [at : {"none", "new", "answered", "failed", "closed"},
                               by : Connects \cup {None}]]
    BY <2>3
  <2>5. TypeOK'
    BY <2>1, <2>2, <2>4
  <2>6. CallsInOrder'
    BY <2>1
  <2> QED BY <2>5, <2>6
<1>5. CASE WorkletReturns(a)
  BY <1>5 DEF WorkletReturns
<1>6. CASE WorkletThrows(a)
  <2>1. StartCall(a, task[a])
    BY <1>6 DEF WorkletThrows
  <2> QED BY <1>6, <2>1, CallStarts DEF WorkletThrows
<1>7. CASE PostOffer(a)
  BY <1>7 DEF PostOffer
<1>8. CASE SetAnswer(a)
  BY <1>8 DEF SetAnswer
<1>9. CASE CallThrows(a)
  BY <1>9 DEF CallThrows
<1> QED BY <1>1, <1>2, <1>3, <1>4, <1>5, <1>6, <1>7, <1>8, <1>9 DEF ConnectStep

LEMMA EventTypes ==
  ASSUME PeerInv', TypeOK, CallsInOrder, NEW a \in Connects, ConnEvent(a)
  PROVE  TypeOK' /\ CallsInOrder'
<1> USE PageAssumption DEF Connects, None, ScheduleReconnect, Awaits,
        peerVars, PeerInv, TypeOK, CallsInOrder
<1>1. CASE SessionEnds(a)
  BY <1>1 DEF SessionEnds
<1>2. CASE OnClosed(a)
  BY <1>2 DEF OnClosed
<1>3. CASE OnIceDisconnected(a)
  BY <1>3 DEF OnIceDisconnected
<1>4. CASE OnIceFailed(a)
  BY <1>4 DEF OnIceFailed
<1> QED BY <1>1, <1>2, <1>3, <1>4 DEF ConnEvent

\* The server leaves the page alone, and starts on a request only if it was
\* sent.
LEMMA ServerTypes ==
  ASSUME PeerInv', TypeOK, CallsInOrder, NEW k \in Offers,
         OfferArrives(k) \/ OfferDropped(k) \/ LinkChanges(k) \/ ServerStep(k)
  PROVE  TypeOK' /\ CallsInOrder'
<1> USE PageAssumption
<1>1. UNCHANGED <<listening, wt, pc, timer, calls, task, session, conn, offered>>
  BY DEF OfferArrives, OfferDropped, LinkChanges, ServerStep, pageVars
<1>2. overlap' \in BOOLEAN
  BY DEF OfferArrives, OfferDropped, LinkChanges, ServerStep, pageVars, TypeOK
<1>3. TypeOK'
  BY <1>1, <1>2 DEF TypeOK, PeerInv
<1>4. \A j \in Offers : handler'[j] # "none" => handler[j] # "none" \/ offered[j] # None
  BY DEF OfferArrives, OfferDropped, LinkChanges, ServerStep, HandleOffer, CancelOffer,
     Freed, IceDrops, IceRecovers, PeerStep, OfferFails, ListPeer, StoreLast, CleanUp,
     HandlerGoes, TypeOK, PeerTypeOK
<1>5. CallsInOrder'
  BY <1>1, <1>4 DEF CallsInOrder
<1> QED BY <1>3, <1>5

LEMMA TypesNext == PeerInv /\ TypeOK /\ CallsInOrder /\ [Next]_vars => TypeOK' /\ CallsInOrder'
<1> SUFFICES ASSUME PeerInv, TypeOK, CallsInOrder, [Next]_vars PROVE TypeOK' /\ CallsInOrder'
  OBVIOUS
<1>1. PeerInv'
  BY PeersNext
<1>2. CASE Listen \/ Stop \/ TimerFires
  BY <1>1, <1>2, UserTypes DEF Listen, TimerFires
<1>3. CASE \E a \in Connects : ConnectStep(a) \/ ConnEvent(a)
  BY <1>1, <1>3, StepTypes, EventTypes
<1>4. CASE \E k \in Offers : OfferArrives(k) \/ OfferDropped(k) \/ LinkChanges(k) \/ ServerStep(k)
  BY <1>1, <1>4, ServerTypes
<1>5. CASE Restart
  <2>1. UNCHANGED pageVars /\ \A j \in Offers : handler'[j] # "none" => handler[j] # "none"
    BY <1>5 DEF Restart, ServerRestarts, PeerInv, PeerTypeOK
  <2> QED BY <1>1, <2>1, PageAssumption DEF TypeOK, CallsInOrder, pageVars, PeerInv
<1>6. CASE UNCHANGED vars
  BY <1>1, <1>6 DEF vars, peerVars, pageVars, TypeOK, CallsInOrder, PeerInv
<1> QED BY <1>2, <1>3, <1>4, <1>5, <1>6 DEF Next

-----------------------------------------------------------------------------
\* A listening page has something to wait for.

LEMMA StuckUser ==
  ASSUME TypeOK, CallsInOrder, ClosedRetried, NeverStuck, Connect \/ Stop
  PROVE  ClosedRetried' /\ NeverStuck'
<1> USE PageAssumption DEF Connects, None, Release, ClosedRetried, NeverStuck
<1>1. CASE Connect
  <2>1. calls + 1 \in Connects /\ task'[calls + 1] = "info" /\ wt' = None
    BY <1>1 DEF Connect, TypeOK
  <2> QED BY <2>1 DEF Busy, Awaits
<1>2. CASE Stop
  BY <1>2 DEF Stop
<1> QED BY <1>1, <1>2

LEMMA StuckStep ==
  ASSUME TypeOK, CallsInOrder, ClosedRetried, NeverStuck, NEW a \in Connects, ConnectStep(a)
  PROVE  ClosedRetried' /\ NeverStuck'
<1> USE PageAssumption DEF Connects, None, Goes, ClosedRetried, NeverStuck, Busy, Awaits
<1>1. CASE TransportInfo(a)
  BY <1>1 DEF TransportInfo, TypeOK
<1>2. CASE NoTransport(a) \/ NotReady(a) \/ WorkletThrows(a)
  <2>1. task'[a] = "gather"
    BY <1>2 DEF NoTransport, NotReady, WorkletThrows, StartCall, TypeOK
  <2> QED BY <2>1
<1>3. CASE Ready(a)
  <2>1. task'[a] = "worklet" /\ session'[a] = "open"
    BY <1>3 DEF Ready, TypeOK
  <2>2. ClosedRetried'
    BY <1>3 DEF Ready, TypeOK
  <2> QED BY <2>1, <2>2
<1>4. CASE WorkletReturns(a)
  <2>1. wt # None /\ UNCHANGED <<listening, wt, pc, timer, session, conn>>
    BY <1>4 DEF WorkletReturns
  <2>2. \A b \in Connects : task[b] \in {"ready", "gather", "offer"} => task'[b] = task[b]
    BY <1>4 DEF WorkletReturns, TypeOK
  <2>3. ClosedRetried'
    BY <2>1, <2>2
  <2>4. CASE session[wt] = "opening"
    BY <2>1, <2>2, <2>4 DEF CallsInOrder, TypeOK
  <2>5. CASE session[wt] = "closed"
    BY <2>1, <2>2, <2>3, <2>5
  <2>6. CASE session[wt] \in {"open", "closing", "lost"}
    BY <2>1, <2>6
  <2>7. session[wt] \in {"opening", "closed", "open", "closing", "lost"}
    BY <2>1 DEF CallsInOrder, TypeOK
  <2> QED BY <2>3, <2>4, <2>5, <2>6, <2>7
<1>5. CASE PostOffer(a)
  <2>1. task'[a] = "offer"
    BY <1>5 DEF PostOffer, TypeOK
  <2> QED BY <2>1
<1>6. CASE SetAnswer(a)
  <2>1. pc' # None /\ conn'[pc'].at = "answered"
    BY <1>6 DEF SetAnswer, TypeOK
  <2> QED BY <2>1
<1>7. CASE CallThrows(a)
  <2>1. listening' => timer'
    BY <1>7 DEF CallThrows, ScheduleReconnect
  <2> QED BY <2>1
<1> QED BY <1>1, <1>2, <1>3, <1>4, <1>5, <1>6, <1>7 DEF ConnectStep

LEMMA StuckEvent ==
  ASSUME TypeOK, CallsInOrder, ClosedRetried, NeverStuck, NEW a \in Connects, ConnEvent(a)
  PROVE  ClosedRetried' /\ NeverStuck'
<1> USE PageAssumption DEF Connects, None, ScheduleReconnect, ClosedRetried, NeverStuck, Busy
<1>1. CASE SessionEnds(a)
  <2>1. /\ UNCHANGED <<listening, wt, pc, timer, task, conn>>
        /\ \A b \in Connects : b # a => session'[b] = session[b]
        /\ session[a] = "open" /\ (wt = a => session'[a] \in {"closing", "lost"})
    BY <1>1 DEF SessionEnds, TypeOK
  <2> QED BY <2>1 DEF TypeOK
<1>2. CASE OnClosed(a)
  <2>1. CASE listening
    BY <1>2, <2>1 DEF OnClosed
  <2>2. CASE ~listening
    BY <1>2, <2>2 DEF OnClosed
  <2> QED BY <2>1, <2>2
<1>3. CASE OnIceDisconnected(a)
  <2>1. UNCHANGED <<listening, wt, pc, task, session, conn>> /\ (timer => timer')
    BY <1>3 DEF OnIceDisconnected
  <2> QED BY <2>1
<1>4. CASE OnIceFailed(a)
  <2>1. /\ UNCHANGED <<listening, wt, pc, task, session>> /\ (timer => timer')
        /\ \A b \in Connects : b # a => conn'[b] = conn[b]
        /\ pc = a => timer' \/ ~listening
    BY <1>4 DEF OnIceFailed, TypeOK
  <2> QED BY <2>1 DEF TypeOK
<1> QED BY <1>1, <1>2, <1>3, <1>4 DEF ConnEvent

LEMMA ServerLeavesPage ==
  ASSUME NEW k \in Offers,
         OfferArrives(k) \/ OfferDropped(k) \/ LinkChanges(k) \/ ServerStep(k)
  PROVE  UNCHANGED <<listening, wt, pc, timer, calls, task, session, conn, offered>>
BY DEF OfferArrives, OfferDropped, LinkChanges, ServerStep, pageVars

LEMMA StuckNext ==
  TypeOK /\ CallsInOrder /\ ClosedRetried /\ NeverStuck /\ [Next]_vars
    => ClosedRetried' /\ NeverStuck'
<1> SUFFICES ASSUME TypeOK, CallsInOrder, ClosedRetried, NeverStuck, [Next]_vars
             PROVE  ClosedRetried' /\ NeverStuck'
  OBVIOUS
<1>1. CASE Listen \/ Stop \/ TimerFires
  BY <1>1, StuckUser DEF Listen, TimerFires
<1>2. CASE \E a \in Connects : ConnectStep(a) \/ ConnEvent(a)
  BY <1>2, StuckStep, StuckEvent
<1>3. CASE \/ \E k \in Offers : OfferArrives(k) \/ OfferDropped(k) \/ LinkChanges(k) \/ ServerStep(k)
           \/ Restart
           \/ UNCHANGED vars
  <2>1. UNCHANGED <<listening, wt, pc, timer, task, session, conn>>
    BY <1>3, ServerLeavesPage DEF Restart, vars, pageVars
  <2> QED BY <2>1 DEF ClosedRetried, NeverStuck, Busy
<1> QED BY <1>1, <1>2, <1>3 DEF Next

-----------------------------------------------------------------------------
\* Without overlap: what the last call put into the globals is what it finds.

LEMMA AloneUser ==
  ASSUME PeerInv, TypeOK, CallsInOrder, SequentialClean, LastCallOnly, Connect \/ Stop
  PROVE  SequentialClean' /\ LastCallOnly'
<1> USE PageAssumption DEF Connects, None, Release, ClosedSession, ClosedConn
<1> SUFFICES ASSUME ~overlap' PROVE SequentialClean' /\ LastCallOnly'
  BY DEF SequentialClean, LastCallOnly
<1>1. ~overlap /\ \A a \in Connects : ~Busy(a) /\ handler[a] \notin {"answering", "listed"}
  BY DEF Connect, Stop, NoteOverlap
<1>2. /\ wt' = None /\ pc' = None /\ UNCHANGED <<peerVars, offered>>
      /\ \A a \in Connects : a # wt => session'[a] = session[a]
      /\ \A a \in Connects : session'[a] \in {"opening", "open"} => session'[a] = session[a] /\ a # wt
      /\ \A a \in Connects : conn'[a] = IF a = pc THEN [at |-> "closed", by |-> None] ELSE conn[a]
  BY DEF Connect, Stop
<1>3. SequentialClean'
  BY <1>1, <1>2 DEF SequentialClean
<1>4. CASE Connect
  <2>1. calls + 1 \in Connects /\ calls' = calls + 1 /\ handler[calls + 1] = "none"
    BY <1>4 DEF Connect, TypeOK, CallsInOrder
  <2>2. /\ listening' /\ task'[calls + 1] = "info"
        /\ \A a \in Connects : a # calls + 1 => task'[a] = task[a]
    BY <1>4, <2>1 DEF Connect, TypeOK
  <2>3. \A a \in Connects : Busy(a)' => a = calls + 1
    BY <1>1, <2>2 DEF Busy
  <2> QED BY <1>1, <1>2, <1>3, <2>1, <2>2, <2>3 DEF LastCallOnly, HoldsItsOwn, peerVars, CallsInOrder, TypeOK
<1>5. CASE Stop
  BY <1>1, <1>2, <1>3, <1>5 DEF Stop, LastCallOnly, peerVars, Busy
<1> QED BY <1>4, <1>5

\* A step of the last call.
LEMMA AloneStep ==
  ASSUME PeerInv, TypeOK, CallsInOrder, SequentialClean, LastCallOnly,
         NEW a \in Connects, ConnectStep(a)
  PROVE  SequentialClean' /\ LastCallOnly'
<1> USE PageAssumption DEF Connects, None
<1> SUFFICES ASSUME ~overlap' PROVE SequentialClean' /\ LastCallOnly'
  BY DEF SequentialClean, LastCallOnly
<1>1. /\ ~overlap /\ Busy(a) /\ UNCHANGED <<peerVars, overlap, calls, listening>>
      /\ \A b \in Connects : b # a => task'[b] = task[b]
  BY DEF ConnectStep, TransportInfo, NoTransport, Ready, NotReady, WorkletReturns, WorkletThrows,
     PostOffer, SetAnswer, CallThrows, StartCall, Goes, Busy, Awaits, TypeOK
<1>2. /\ a = calls /\ listening /\ HoldsItsOwn(a)
      /\ \A b \in Connects : Busy(b) => b = a
  BY <1>1 DEF LastCallOnly
<1>3. \A b \in Connects : b # a => ~Busy(b)'
  BY <1>1, <1>2 DEF Busy
<1>4. ASSUME pc' \in {None, calls}, HoldsItsOwn(a)' PROVE LastCallOnly'
  BY <1>1, <1>2, <1>3, <1>4 DEF LastCallOnly, peerVars
<1> USE DEF Goes, SequentialClean, HoldsItsOwn, TypeOK
<1>5. CASE TransportInfo(a)
  BY <1>1, <1>2, <1>4, <1>5 DEF TransportInfo
<1>6. CASE NoTransport(a) \/ WorkletThrows(a) \/ NotReady(a)
  BY <1>1, <1>2, <1>4, <1>6 DEF NoTransport, WorkletThrows, NotReady, StartCall, CallsInOrder
<1>7. CASE Ready(a)
  BY <1>1, <1>2, <1>4, <1>7 DEF Ready
<1>8. CASE WorkletReturns(a)
  BY <1>1, <1>2, <1>4, <1>8 DEF WorkletReturns, LastCallOnly
<1>9. CASE PostOffer(a)
  BY <1>1, <1>2, <1>4, <1>9 DEF PostOffer
<1>10. CASE SetAnswer(a)
  BY <1>1, <1>2, <1>4, <1>10 DEF SetAnswer
<1>11. CASE CallThrows(a)
  BY <1>1, <1>2, <1>4, <1>11 DEF CallThrows
<1> QED BY <1>5, <1>6, <1>7, <1>8, <1>9, <1>10, <1>11 DEF ConnectStep

LEMMA AloneEvent ==
  ASSUME PeerInv, TypeOK, CallsInOrder, SequentialClean, LastCallOnly,
         NEW a \in Connects, ConnEvent(a)
  PROVE  SequentialClean' /\ LastCallOnly'
<1> USE PageAssumption DEF Connects, None
<1>1. UNCHANGED <<peerVars, overlap, calls, listening, wt, pc, task, offered>>
  BY DEF ConnEvent, SessionEnds, OnClosed, OnIceDisconnected, OnIceFailed
<1>2. \A b \in Connects : session'[b] \in {"opening", "open"} => session'[b] = session[b]
  BY DEF ConnEvent, SessionEnds, OnClosed, OnIceDisconnected, OnIceFailed, TypeOK
<1>3. \A b \in Connects :
        \/ conn'[b] = conn[b]
        \/ conn[b].at = "answered" /\ conn'[b].at = "failed" /\ conn'[b].by = conn[b].by
  BY DEF ConnEvent, SessionEnds, OnClosed, OnIceDisconnected, OnIceFailed, TypeOK
<1>4. SequentialClean'
  BY <1>1, <1>2, <1>3 DEF SequentialClean
<1>5. LastCallOnly'
  BY <1>1, <1>3 DEF LastCallOnly, HoldsItsOwn, Busy, peerVars
<1> QED BY <1>4, <1>5

\* At the server only the request of the last call is worked on.
LEMMA AloneServer ==
  ASSUME PeerInv, TypeOK, CallsInOrder, SequentialClean, LastCallOnly, NEW k \in Offers,
         OfferArrives(k) \/ OfferDropped(k) \/ LinkChanges(k) \/ ServerStep(k)
  PROVE  SequentialClean' /\ LastCallOnly'
<1> USE PageAssumption
<1> SUFFICES ASSUME ~overlap' PROVE SequentialClean' /\ LastCallOnly'
  BY DEF SequentialClean, LastCallOnly
<1>1. UNCHANGED <<listening, wt, pc, timer, calls, task, session, conn, offered>>
  BY ServerLeavesPage
<1>2. ~overlap
  BY DEF OfferArrives, OfferDropped, LinkChanges, ServerStep, pageVars
<1>3. SequentialClean'
  BY <1>1, <1>2 DEF SequentialClean
<1>4. \A a \in Connects : handler'[a] \in {"answering", "listed"} => a = calls
  BY <1>2 DEF OfferArrives, OfferDropped, LinkChanges, ServerStep, HandleOffer, CancelOffer,
     Freed, IceDrops, IceRecovers, PeerStep, OfferFails, ListPeer, StoreLast, CleanUp, HandlerGoes,
     LastCallOnly, CallsInOrder, Busy, Awaits, PeerInv, PeerTypeOK
<1>5. \A a \in Connects : handler'[a] = "answered" /\ a = calls => lastPeer' = a
  BY <1>2 DEF OfferArrives, OfferDropped, LinkChanges, ServerStep, HandleOffer, CancelOffer,
     Freed, IceDrops, IceRecovers, PeerStep, OfferFails, ListPeer, StoreLast, CleanUp, HandlerGoes,
     LastCallOnly, PeerInv, PeerTypeOK
<1> QED BY <1>1, <1>2, <1>3, <1>4, <1>5 DEF LastCallOnly, Busy, HoldsItsOwn

LEMMA AloneNext == PageInv /\ [Next]_vars => SequentialClean' /\ LastCallOnly'
<1> SUFFICES ASSUME PageInv, [Next]_vars PROVE SequentialClean' /\ LastCallOnly'
  OBVIOUS
<1> USE PageAssumption DEF PageInv
<1>1. CASE Listen \/ Stop \/ TimerFires
  BY <1>1, AloneUser DEF Listen, TimerFires
<1>2. CASE \E a \in Connects : ConnectStep(a) \/ ConnEvent(a)
  BY <1>2, AloneStep, AloneEvent
<1>3. CASE \E k \in Offers : OfferArrives(k) \/ OfferDropped(k) \/ LinkChanges(k) \/ ServerStep(k)
  BY <1>3, AloneServer
<1>4. CASE Restart
  <2>1. UNCHANGED pageVars /\ \A a \in Connects : handler'[a] \in {"none", "failed"}
    BY <1>4 DEF Restart, ServerRestarts
  <2> QED BY <2>1 DEF SequentialClean, LastCallOnly, HoldsItsOwn, Busy, pageVars
<1>5. CASE UNCHANGED vars
  BY <1>5 DEF SequentialClean, LastCallOnly, HoldsItsOwn, Busy, vars, pageVars, peerVars
<1> QED BY <1>1, <1>2, <1>3, <1>4, <1>5 DEF Next

-----------------------------------------------------------------------------
LEMMA Page == Spec => []PageInv
<1>1. Init => PageInv
  <2> SUFFICES ASSUME Init PROVE PageInv
    OBVIOUS
  <2>1. ClosedRetried /\ NeverStuck
    BY DEF Init, ClosedRetried, NeverStuck
  <2>2. SequentialClean /\ LastCallOnly
    BY PageAssumption DEF Init, PeerInit, SequentialClean, LastCallOnly, Busy, Awaits
  <2> QED BY <2>1, <2>2, PeersInit, TypesInit DEF PageInv
<1>2. PageInv /\ [Next]_vars => PageInv'
  BY PeersNext, TypesNext, StuckNext, AloneNext DEF PageInv
<1> QED BY <1>1, <1>2, PTL DEF Spec

\* The globals of index.html, its connections and the server's peers keep their
\* types, for any number of calls of connect().
THEOREM PageTypes == Spec => []TypeOK
<1>1. PageInv => TypeOK
  BY DEF PageInv
<1> QED BY <1>1, Page, PTL

\* A page that listens always has a call running, a timer set or a connection
\* whose loss its handlers see, however calls of connect() overlap.
THEOREM Unstuck == Spec => []NeverStuck
<1>1. PageInv => NeverStuck
  BY DEF PageInv
<1> QED BY <1>1, Page, PTL

\* While calls of connect() do not overlap, disconnect() finds in wt and pc all
\* that is open, and each answer is set on the connection that asked for it.
THEOREM Clean == Spec => []SequentialClean
<1>1. PageInv => SequentialClean
  BY DEF PageInv
<1> QED BY <1>1, Page, PTL

\* And last_peer of the server is the peer of the page's connection, so that
\* ice_candidate_handler gives its candidates to the right one.
THEOREM Trickle == Spec => []SequentialTrickle
<1>1. PageInv => SequentialTrickle
  BY PageAssumption DEF PageInv, SequentialClean, LastCallOnly, SequentialTrickle, CandidateGoesTo,
     TypeOK, Connects, None
<1> QED BY <1>1, Page, PTL
=============================================================================
