----------------------------- MODULE PeerManager -----------------------------
(***************************************************************************)
(* The server's WebRTC peers and their signalling (src/webrtc.rs,          *)
(* PeerManager; offer_handler and ice_candidate_handler of src/server.rs). *)
(*                                                                         *)
(* Each request to /offer runs its own task and makes one peer, which has  *)
(* the request's number.  ICE is external: what is kept of it is whether   *)
(* it has the peer connected.  It reports a peer's loss to the callback,   *)
(* which spawns a task to take the peer off the list.                      *)
(***************************************************************************)
EXTENDS Naturals

CONSTANTS
  Offers,      \* numbers of the requests to /offer
  NoPeer,
  MaxCleanups  \* bound on a peer's cleanup tasks that have not run yet

ASSUME PeerAssumption ==
  /\ NoPeer \notin Offers
  /\ MaxCleanups \in Nat \ {0}

VARIABLES
  handler,   \* per offer: where offer_handler is
  down,      \* offers whose peer is Disconnected, Failed or Closed
  lost,      \* history: offers whose peer's own cleanup task waits or took it off
  peers,     \* the list of PeerManager
  cleanups,  \* per offer: cleanup tasks spawned and not yet run
  lastPeer,  \* last_peer of AppState
  early      \* history: offers whose peer was down when it was listed

peerVars == <<handler, down, lost, peers, cleanups, lastPeer, early>>

\* The handler has gone: with an error, or dropped with its request.
Ended == {"failed", "cancelled"}
HandlerSteps == {"none", "answering", "listed", "answered"} \cup Ended

PeerTypeOK ==
  /\ handler \in [Offers -> HandlerSteps]
  /\ lost \subseteq Offers /\ down \subseteq Offers
  /\ peers \subseteq {k \in Offers : handler[k] \in {"listed", "answered", "cancelled"}}
  /\ cleanups \in [Offers -> 0 .. MaxCleanups]
  /\ lastPeer \in {k \in Offers : handler[k] = "answered"} \cup {NoPeer}
  /\ early \subseteq down

PeerInit ==
  /\ handler = [k \in Offers |-> "none"]
  /\ lost = {} /\ down = {}
  /\ peers = {}
  /\ cleanups = [k \in Offers |-> 0]
  /\ lastPeer = NoPeer
  /\ early = {}

HandlerGoes(k, from, to) ==
  /\ handler[k] \in from
  /\ handler' = [handler EXCEPT ![k] = to]

\* Seeded bug: the peer is listed before its answer is made.
HandleOfferLists(k) ==
  /\ HandlerGoes(k, {"none"}, "answering")
  /\ peers' = peers \cup {k}
  /\ UNCHANGED <<down, lost, cleanups, lastPeer, early>>

\* The request is read; handle_offer makes a peer with its callback, describes
\* it, which starts ICE, and waits for at most five seconds for its candidates.
HandleOffer(k) ==
  /\ HandlerGoes(k, {"none"}, "answering")
  /\ UNCHANGED <<down, lost, peers, cleanups, lastPeer, early>>

\* Nobody holds the peer: it is freed, and its cleanup tasks find nothing.
Freed(k) ==
  /\ HandlerGoes(k, {"answering"}, "failed")
  /\ lost' = lost \ {k} /\ down' = down \ {k}
  /\ cleanups' = [cleanups EXCEPT ![k] = 0]
  /\ UNCHANGED <<peers, lastPeer, early>>

\* BAD_REQUEST for the SDP, or INTERNAL_SERVER_ERROR for any `?` of handle_offer.
OfferFails(k) == Freed(k)

ListPeer(k) ==
  /\ HandlerGoes(k, {"answering"}, "listed")
  /\ peers' = peers \cup {k}
  /\ early' = early \cup ({k} \cap down)
  /\ UNCHANGED <<down, lost, cleanups, lastPeer>>

\* Seeded bug: the first peer is kept.
StoreFirst(k) ==
  /\ HandlerGoes(k, {"listed"}, "answered")
  /\ lastPeer' = IF lastPeer = NoPeer THEN k ELSE lastPeer
  /\ UNCHANGED <<down, lost, peers, cleanups, early>>

\* Back in offer_handler: store last_peer, and answer.
StoreLast(k) ==
  /\ HandlerGoes(k, {"listed"}, "answered")
  /\ lastPeer' = k
  /\ UNCHANGED <<down, lost, peers, cleanups, early>>

\* The client's connection is gone: the handler is dropped at the await it is in.
CancelOffer(k) ==
  \/ Freed(k)
  \/ /\ HandlerGoes(k, {"listed"}, "cancelled")
     /\ UNCHANGED <<down, lost, peers, cleanups, lastPeer, early>>

-----------------------------------------------------------------------------
\* The peer is on the list or may still get there; a task spawned later finds
\* nothing to take off.
Held(k) == handler[k] = "answering" \/ k \in peers

\* Disconnected, Failed or Closed is reported: spawn a cleanup task.  A peer
\* may be reported again, whether or not it recovered in between.
IceDrops(k) ==
  /\ Held(k) /\ cleanups[k] < MaxCleanups
  /\ lost' = lost \cup {k} /\ down' = down \cup {k}
  /\ cleanups' = [cleanups EXCEPT ![k] = @ + 1]
  /\ UNCHANGED <<handler, peers, lastPeer, early>>

\* A Disconnected peer is Connected again: to the callback that is nothing, and a
\* cleanup task under way takes it off all the same.
IceRecovers(k) ==
  /\ k \in down
  /\ down' = down \ {k}
  /\ early' = early \ {k}
  /\ UNCHANGED <<handler, lost, peers, cleanups, lastPeer>>

\* Seeded bug: retain has its condition inverted.
CleanUpOthers(k) ==
  /\ cleanups[k] > 0
  /\ cleanups' = [cleanups EXCEPT ![k] = @ - 1]
  /\ peers' = peers \cap {k}
  /\ UNCHANGED <<handler, down, lost, lastPeer, early>>

\* The task: retain every other peer.  One that has been freed is not listed.  A
\* peer taken off stays off: that it may recover later shows nowhere.
CleanUp(k) ==
  /\ cleanups[k] > 0
  /\ cleanups' = [cleanups EXCEPT ![k] = @ - 1]
  /\ peers' = peers \ {k}
  /\ early' = early \ {k}
  /\ lost' = IF handler[k] = "answering" /\ cleanups[k] = 1 THEN lost \ {k} ELSE lost
  /\ down' = down \ ({k} \cap peers)
  /\ UNCHANGED <<handler, lastPeer>>

\* Where ice_candidate_handler delivers a candidate, whoever sends it.
CandidateGoesTo == lastPeer

\* The process ends and is started again: all of this was in memory.
ServerRestarts ==
  /\ handler' = [k \in Offers |-> IF handler[k] = "none" THEN "none" ELSE "failed"]
  /\ down' = {} /\ lost' = {} /\ peers' = {} /\ early' = {}
  /\ cleanups' = [k \in Offers |-> 0]
  /\ lastPeer' = NoPeer

PeerStep(k) == OfferFails(k) \/ ListPeer(k) \/ StoreLast(k) \/ CleanUp(k)

-----------------------------------------------------------------------------
\* What /status and /server-info report is the length of the list.  A served
\* peer is counted until a task spawned for its own loss takes it off, and one
\* that is not connected is counted only while such a task is under way; but one
\* that was down when it was listed may be counted for ever: the task that would
\* take it off has already run.  A peer that recovers before its task runs, or
\* after, is connected and not counted.
CountFollows ==
  \A k \in Offers :
    /\ handler[k] \in {"listed", "answered", "cancelled"} /\ k \notin peers => k \in lost
    /\ k \in peers \cap down => cleanups[k] > 0 \/ k \in early
=============================================================================
