---------------------------- MODULE AudioChannel ----------------------------
(***************************************************************************)
(* The broadcast channel between the capture thread and the listeners of   *)
(* the server (created in src/audio.rs; tokio::sync::broadcast is          *)
(* modelled from its use).  A chunk is sent once and read by every         *)
(* listener at its own pace.  A slow listener never holds back the         *)
(* capture: it loses the oldest chunks and its next receive says Lagged.   *)
(*                                                                         *)
(* Captured samples are numbered from 1.  The channel is never closed:     *)
(* main keeps a sender until the process ends.                             *)
(***************************************************************************)
EXTENDS Naturals, Sequences

CONSTANTS
  Listeners,  \* the receivers subscribed to the channel
  Cap,        \* chunks the channel retains (100, which tokio rounds up to 128)
  ChunkSizes, \* samples per capture callback; 0 is the chunk of err_callback
  MaxSamples  \* bound on the samples captured

ASSUME ChannelAssumption ==
  /\ Cap \in Nat \ {0}
  /\ ChunkSizes \subseteq Nat
  /\ MaxSamples \in Nat

VARIABLES
  captured,   \* samples sent so far
  subscribed, \* listeners that hold a receiver
  unread,     \* per listener: retained chunks it has not received, oldest first
  lagged      \* per listener: an unread chunk was overwritten

channelVars == <<captured, subscribed, unread, lagged>>

\* A chunk holds the samples after+1 .. after+len.
Chunks == [after : Nat, len : Nat]
Samples(c) == [i \in 1 .. c.len |-> c.after + i]

ChannelTypeOK ==
  /\ captured \in 0 .. MaxSamples
  /\ subscribed \subseteq Listeners
  /\ unread \in [Listeners -> Seq(Chunks)]
  /\ \A l \in Listeners : Len(unread[l]) <= Cap
  /\ lagged \in [Listeners -> BOOLEAN]

ChannelInit ==
  /\ captured = 0
  /\ subscribed = {}
  /\ unread = [l \in Listeners |-> <<>>]
  /\ lagged = [l \in Listeners |-> FALSE]

-----------------------------------------------------------------------------
Full(l) == Len(unread[l]) = Cap

\* Seeded bug: an unbounded queue per listener.
QueuedAll(l, c) == Append(unread[l], c)

Queued(l, c) == Append(IF Full(l) THEN Tail(unread[l]) ELSE unread[l], c)

\* tx.send from a capture callback.  Its error (no receiver) is ignored.
Publish(n) ==
  /\ n \in ChunkSizes
  /\ captured + n <= MaxSamples
  /\ captured' = captured + n
  /\ unread' = [l \in Listeners |->
       IF l \in subscribed THEN Queued(l, [after |-> captured, len |-> n]) ELSE unread[l]]
  /\ lagged' = [l \in Listeners |-> lagged[l] \/ (l \in subscribed /\ Full(l))]
  /\ UNCHANGED subscribed

\* audio_tx.subscribe: only chunks sent from now on are received.
Subscribe(l) ==
  /\ l \notin subscribed
  /\ subscribed' = subscribed \cup {l}
  /\ UNCHANGED <<captured, unread, lagged>>

\* The receiver is dropped.
Unsubscribe(l) ==
  /\ subscribed' = subscribed \ {l}
  /\ unread' = [unread EXCEPT ![l] = <<>>]
  /\ lagged' = [lagged EXCEPT ![l] = FALSE]
  /\ UNCHANGED captured

\* recv returns Ok(Head(unread[l])).
Receive(l) ==
  /\ unread[l] # <<>> /\ ~lagged[l]
  /\ unread' = [unread EXCEPT ![l] = Tail(@)]
  /\ UNCHANGED <<captured, subscribed, lagged>>

\* recv returns Err(Lagged): the next one returns the oldest retained chunk.
ReceiveLagged(l) ==
  /\ lagged[l]
  /\ lagged' = [lagged EXCEPT ![l] = FALSE]
  /\ UNCHANGED <<captured, subscribed, unread>>

-----------------------------------------------------------------------------
\* Samples sent since the oldest chunk that listener l has yet to receive.
Behind(l) == IF unread[l] = <<>> THEN 0 ELSE captured - Head(unread[l]).after

\* Unread chunks are in capture order and do not overlap.
UnreadOrdered(l) ==
  /\ \A i \in 1 .. Len(unread[l]) : unread[l][i].after + unread[l][i].len <= captured
  /\ \A i, j \in 1 .. Len(unread[l]) :
       i < j => unread[l][i].after + unread[l][i].len <= unread[l][j].after
=============================================================================
