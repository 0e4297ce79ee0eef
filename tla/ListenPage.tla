----------------------------- MODULE ListenPage -----------------------------
(***************************************************************************)
(* The browser's listen page (src/static/index.html) with the server it    *)
(* connects to.                                                            *)
(*                                                                         *)
(* Each call of connect() is an asynchronous function with a number, which *)
(* its WebTransport, its RTCPeerConnection and its request to /offer also  *)
(* get.  It runs undisturbed between its awaits, and finds in the page's   *)
(* globals whatever other functions, the user, the reconnect timer and the *)
(* connections' event handlers have left there.                            *)
(*                                                                         *)
(* Networks and browsers are external: a fetch may fail, a connection may  *)
(* be lost or recover, at any time.                                        *)
(***************************************************************************)
EXTENDS PeerManager

CONSTANT MaxConnects  \* bound on the calls of connect()

Connects == 1 .. MaxConnects
None == 0

ASSUME PageAssumption ==
  /\ MaxConnects \in Nat
  /\ Offers = Connects /\ NoPeer = None

VARIABLES
  listening, \* isListening
  wt, pc,    \* the globals wt and pc: whose object they hold
  timer,     \* reconnectTimeout is set
  calls,     \* calls of connect() so far
  task,      \* per call: the await it is in
  session,   \* per call: its WebTransport
  conn,      \* per call: its RTCPeerConnection, and the offer it was answered by
  offered,   \* per call: whose description its request to /offer carries
  overlap    \* history: calls, or their requests, have overlapped

pageVars == <<listening, wt, pc, timer, calls, task, session, conn, offered, overlap>>
vars == <<peerVars, pageVars>>

Awaits == {"info", "ready", "worklet", "gather", "offer"}

TypeOK ==
  /\ PeerTypeOK
  /\ listening \in BOOLEAN /\ timer \in BOOLEAN /\ overlap \in BOOLEAN
  /\ calls \in 0 .. MaxConnects
  /\ wt \in 0 .. calls /\ pc \in 0 .. calls
  /\ task \in [Connects -> Awaits \cup {"none", "done"}]
  /\ session \in [Connects -> {"none", "opening", "open", "closing", "closed", "lost"}]
  /\ conn \in [Connects -> [at : {"none", "new", "answered", "failed", "closed"},
                            by : Connects \cup {None}]]
  /\ offered \in [Connects -> Connects \cup {None}]

Init ==
  /\ PeerInit
  /\ listening = FALSE /\ timer = FALSE /\ overlap = FALSE
  /\ calls = 0 /\ wt = None /\ pc = None
  /\ task = [a \in Connects |-> "none"]
  /\ session = [a \in Connects |-> "none"]
  /\ conn = [a \in Connects |-> [at |-> "none", by |-> None]]
  /\ offered = [a \in Connects |-> None]

Busy(a) == task[a] \in Awaits

\* The user or the timer acts while a call is running, or while the server
\* still works on a request that a call has given up.
NoteOverlap ==
  overlap' = (overlap \/ \E a \in Connects :
                Busy(a) \/ handler[a] \in {"answering", "listed"})

-----------------------------------------------------------------------------
\* The synchronous functions: what they leave in the globals.

\* Seeded bug: the WebTransport is forgotten, not closed.
ClosedSessionForgotten == session

\* wt.close(): of an open session `closed` resolves, of one being opened both
\* of its promises are rejected.
ClosedSession ==
  [a \in Connects |->
     IF a # wt THEN session[a]
     ELSE IF session[a] \in {"open", "closing"} THEN "closing" ELSE "closed"]

\* pc.close(): fires no event.
ClosedConn ==
  [a \in Connects |-> IF a = pc THEN [at |-> "closed", by |-> None] ELSE conn[a]]

\* disconnect(), but for isListening.
Release ==
  /\ timer' = FALSE
  /\ session' = ClosedSession
  /\ conn' = ClosedConn
  /\ wt' = None /\ pc' = None

\* connect() up to its first await; it releases the old connection.
Connect ==
  /\ calls < MaxConnects
  /\ calls' = calls + 1
  /\ task' = [task EXCEPT ![calls + 1] = "info"]
  /\ listening' = TRUE
  /\ Release
  /\ NoteOverlap
  /\ UNCHANGED <<peerVars, offered>>

\* Seeded bug: no reconnect is scheduled.
ScheduleNever == UNCHANGED timer

ScheduleReconnect == timer' = (timer \/ listening)

-----------------------------------------------------------------------------
\* The user, and the timer.

\* The button, at Listen; or, at Stop, the transport check box: disconnect()
\* and connect().
Listen == Connect

Stop ==
  /\ listening
  /\ listening' = FALSE
  /\ Release
  /\ NoteOverlap
  /\ UNCHANGED <<peerVars, calls, task, offered>>

TimerFires == timer /\ listening /\ Connect

-----------------------------------------------------------------------------
\* connect(), connectWebTransport() and connectWebRTC() from await to await.

Goes(a, from, to) == task[a] = from /\ task' = [task EXCEPT ![a] = to]

\* connectWebRTC() up to its first await: the old pc is not looked at.
StartCall(a, from) ==
  /\ Goes(a, from, "gather")
  /\ pc' = a
  /\ conn' = [conn EXCEPT ![a].at = "new"]
  /\ UNCHANGED <<peerVars, listening, wt, timer, calls, session, offered, overlap>>

\* Both fetches of /transport-info are answered, the second with the hash: the
\* global wt is a new WebTransport.
TransportInfo(a) ==
  /\ Goes(a, "info", "ready")
  /\ wt' = a
  /\ session' = [session EXCEPT ![a] = "opening"]
  /\ UNCHANGED <<peerVars, listening, pc, timer, calls, conn, offered, overlap>>

\* A fetch fails, the server has no hash yet, or WebRTC is forced.
NoTransport(a) == StartCall(a, "info")

Ready(a) ==
  /\ session[a] = "opening"
  /\ Goes(a, "ready", "worklet")
  /\ session' = [session EXCEPT ![a] = "open"]
  /\ UNCHANGED <<peerVars, listening, wt, pc, timer, calls, conn, offered, overlap>>

\* wt.ready is rejected: the endpoint was never bound, or is not reached, or wt
\* was closed.  The global wt stays set, and WebRTC is tried.
NotReady(a) ==
  /\ Goes(a, "ready", "gather")
  /\ session' = [session EXCEPT ![a] = "closed"]
  /\ pc' = a
  /\ conn' = [conn EXCEPT ![a].at = "new"]
  /\ UNCHANGED <<peerVars, listening, wt, timer, calls, offered, overlap>>

\* The worklet is loaded: the datagrams of whatever wt holds are read.
WorkletReturns(a) ==
  /\ wt # None
  /\ Goes(a, "worklet", "done")
  /\ UNCHANGED <<peerVars, listening, wt, pc, timer, calls, session, conn, offered, overlap>>

\* The AudioContext or the worklet cannot be had, wt or audioCtx is null, or
\* another call reads these datagrams: the exception makes connect() try WebRTC,
\* beside the WebTransport that stays open.
WorkletThrows(a) == StartCall(a, "worklet")

\* Gathered, for at most five seconds: post the description of whatever pc holds.
PostOffer(a) ==
  /\ pc # None
  /\ Goes(a, "gather", "offer")
  /\ offered' = [offered EXCEPT ![a] = pc]
  /\ UNCHANGED <<peerVars, listening, wt, pc, timer, calls, session, conn, overlap>>

\* The answer arrives and is set on whatever pc holds, which must be waiting
\* for one.
SetAnswer(a) ==
  /\ handler[a] = "answered"
  /\ pc # None /\ conn[pc].at = "new"
  /\ Goes(a, "offer", "done")
  /\ conn' = [conn EXCEPT ![pc] = [at |-> "answered", by |-> a]]
  /\ UNCHANGED <<peerVars, listening, wt, pc, timer, calls, session, offered, overlap>>

\* The catch of connectWebRTC(): pc is null or another call's, the fetch fails,
\* or the answer is not OK.
CallThrows(a) ==
  /\ \/ Goes(a, "gather", "done") /\ pc # a
     \/ Goes(a, "offer", "done")
  /\ ScheduleReconnect
  /\ UNCHANGED <<peerVars, listening, wt, pc, calls, session, conn, offered, overlap>>

ConnectStep(a) ==
  \/ TransportInfo(a) \/ NoTransport(a) \/ Ready(a) \/ NotReady(a)
  \/ WorkletReturns(a) \/ WorkletThrows(a)
  \/ PostOffer(a) \/ SetAnswer(a) \/ CallThrows(a)

-----------------------------------------------------------------------------
\* Events of the connections.

\* The WebTransport ends: `closed` resolves when it was closed in order, and is
\* rejected, which is only logged, when it was lost.
SessionEnds(a) ==
  /\ session[a] = "open"
  /\ \E end \in {"closing", IF wt = a THEN "lost" ELSE "closed"} :
       session' = [session EXCEPT ![a] = end]
  /\ UNCHANGED <<peerVars, listening, wt, pc, timer, calls, task, conn, offered, overlap>>

\* The handler of wt.closed, for whichever wt it was installed.
OnClosed(a) ==
  /\ session[a] = "closing"
  /\ session' = [session EXCEPT ![a] = "closed"]
  /\ ScheduleReconnect
  /\ UNCHANGED <<peerVars, listening, wt, pc, calls, task, conn, offered, overlap>>

\* The answer it got is that of the peer made for its own description.
Matched(a) == conn[a].by # None /\ offered[conn[a].by] = a

\* oniceconnectionstatechange, of any connection, looks at the state of pc: only
\* a loss does anything.  "disconnected" may pass; "failed" is final.
OnIceDisconnected(a) ==
  /\ conn[a].at = "answered" /\ Matched(a)
  /\ IF pc = a THEN ScheduleReconnect ELSE UNCHANGED timer
  /\ UNCHANGED <<peerVars, listening, wt, pc, calls, task, session, conn, offered, overlap>>

\* Seeded bug: the handler knows only "disconnected".
OnIceFailedIgnored(a) ==
  /\ conn[a].at = "answered"
  /\ conn' = [conn EXCEPT ![a].at = "failed"]
  /\ UNCHANGED <<peerVars, listening, wt, pc, timer, calls, task, session, offered, overlap>>

OnIceFailed(a) ==
  /\ conn[a].at = "answered"
  /\ conn' = [conn EXCEPT ![a].at = "failed"]
  /\ IF pc # None /\ conn'[pc].at = "failed" THEN ScheduleReconnect ELSE UNCHANGED timer
  /\ UNCHANGED <<peerVars, listening, wt, pc, calls, task, session, offered, overlap>>

ConnEvent(a) == SessionEnds(a) \/ OnClosed(a) \/ OnIceDisconnected(a) \/ OnIceFailed(a)

-----------------------------------------------------------------------------
\* The server.

OfferArrives(k) ==
  /\ offered[k] # None
  /\ HandleOffer(k)
  /\ overlap' = (overlap \/ task[k] = "done")
  /\ UNCHANGED <<listening, wt, pc, timer, calls, task, session, conn, offered>>

\* The request went with its connection.
OfferDropped(k) == task[k] = "done" /\ CancelOffer(k) /\ UNCHANGED pageVars

LinkChanges(k) == (IceDrops(k) \/ IceRecovers(k)) /\ UNCHANGED pageVars
ServerStep(k) == PeerStep(k) /\ UNCHANGED pageVars
Restart == ServerRestarts /\ UNCHANGED pageVars

Next ==
  \/ Listen \/ Stop \/ TimerFires
  \/ \E a \in Connects : ConnectStep(a) \/ ConnEvent(a)
  \/ \E k \in Offers : \/ OfferArrives(k) \/ OfferDropped(k)
                       \/ LinkChanges(k) \/ ServerStep(k)
  \/ Restart

\* Awaits return, with or without an answer, and the timer and the handler fire.
\* Neither the user, the network nor the server needs to do anything.  A call has
\* only a few steps: none can starve another.
Fairness ==
  /\ WF_vars(TimerFires)
  /\ WF_vars(\E a \in Connects : ConnectStep(a))
  /\ WF_vars(\E a \in Connects : OnClosed(a))

Spec == Init /\ [][Next]_vars /\ Fairness

-----------------------------------------------------------------------------
\* A listening page is never left waiting for nothing: a call is running, the
\* timer is set, or the connection it has will report its loss.  The exception
\* is a WebTransport that is lost rather than closed.
NeverStuck ==
  listening =>
    \/ timer
    \/ \E a \in Connects : Busy(a)
    \/ pc # None /\ conn[pc].at = "answered"
    \/ wt # None /\ session[wt] \in {"open", "closing", "lost"}

\* While calls of connect() do not overlap, the page holds what is open, so
\* that Stop closes all of it, and each connection got its own answer.
SequentialClean ==
  ~overlap =>
    /\ \A a \in Connects :
         /\ conn[a].at \in {"new", "answered"} => a = pc
         /\ session[a] \in {"opening", "open"} => a = wt
         /\ conn[a].by # None => conn[a].by = a /\ offered[a] = a
    /\ ~listening => pc = None /\ wt = None

\* What the comment on last_peer says: with sequential connections, a candidate
\* of the page's connection goes to that connection's peer.
SequentialTrickle ==
  ~overlap /\ pc # None /\ conn[pc].by # None /\ handler[conn[pc].by] = "answered"
    => CandidateGoesTo = conn[pc].by

\* A page that goes on listening does not stay without a connection while it
\* may still make one.  The exception is that of NeverStuck.
Receiving ==
  \/ pc # None /\ conn[pc].at = "answered"
  \/ wt # None /\ session[wt] \in {"open", "lost"}

LossRetried == []<>(listening /\ calls < MaxConnects => Receiving)
=============================================================================
