----------------------------- MODULE UdpSender -----------------------------
(***************************************************************************)
(* The native UDP sender (src/udp_sender.rs): an async task pumps captured *)
(* chunks into a mutex-protected PCM buffer, and the udp-pacer thread pops *)
(* one datagram's worth at a time, first cutting the buffer down when it   *)
(* has grown past MaxFrames datagrams.                                     *)
(*                                                                         *)
(* Every hold of the mutex is one step.  What the pacer pops is what the   *)
(* registered clients are sent, so `popped` is the stream they hear.       *)
(***************************************************************************)
EXTENDS AudioChannel

CONSTANTS
  Udp,       \* the pump's receiver
  Frame,     \* MAX_SAMPLES_PER_DATAGRAM
  MaxFrames  \* the backlog cap, in frames (20)

ASSUME UdpAssumption ==
  /\ Udp \in Listeners
  /\ Frame \in Nat \ {0}
  /\ MaxFrames \in Nat \ {0}

VARIABLES
  pcm,     \* pcm_buffer: the samples pumped and not yet popped
  popped,  \* history: the samples popped into datagrams
  skipped  \* history: the backlog cap discarded samples

udpVars == <<pcm, popped, skipped>>

UdpTypeOK ==
  /\ pcm \in Seq(Nat)
  /\ popped \in Seq(Nat)
  /\ skipped \in BOOLEAN

UdpInit ==
  /\ pcm = <<>>
  /\ popped = <<>>
  /\ skipped = FALSE

-----------------------------------------------------------------------------
\* The pump receives a chunk and extends the buffer (an empty one by nothing).
PumpChunk ==
  /\ Receive(Udp)
  /\ pcm' = pcm \o Samples(Head(unread[Udp]))
  /\ UNCHANGED <<popped, skipped>>

\* The chunks lost are only counted in the log.
PumpLagged ==
  /\ ReceiveLagged(Udp)
  /\ UNCHANGED udpVars

Pump == PumpChunk \/ PumpLagged

MaxBuf == Frame * MaxFrames

\* buf.drain(..skip): the oldest samples beyond the cap.
Excess == IF Len(pcm) > MaxBuf THEN Len(pcm) - MaxBuf ELSE 0

\* Seeded bug: the excess is skipped but not removed from the buffer.
PacerFrameKeepsExcess ==
  /\ Len(pcm) >= Frame
  /\ popped' = popped \o SubSeq(pcm, Excess + 1, Excess + Frame)
  /\ pcm' = SubSeq(pcm, Frame + 1, Len(pcm))
  /\ skipped' = (skipped \/ Excess > 0)
  /\ UNCHANGED channelVars

\* Seeded bug: a frame is popped only when more than a frame is there.
PacerFrameAbove ==
  /\ Len(pcm) > Frame
  /\ popped' = popped \o SubSeq(pcm, Excess + 1, Excess + Frame)
  /\ pcm' = SubSeq(pcm, Excess + Frame + 1, Len(pcm))
  /\ skipped' = (skipped \/ Excess > 0)
  /\ UNCHANGED channelVars

\* The pacer cuts the backlog and pops a full frame.
PacerFrame ==
  /\ Len(pcm) >= Frame
  /\ popped' = popped \o SubSeq(pcm, Excess + 1, Excess + Frame)
  /\ pcm' = SubSeq(pcm, Excess + Frame + 1, Len(pcm))
  /\ skipped' = (skipped \/ Excess > 0)
  /\ UNCHANGED channelVars

\* Less than a frame: it leaves the samples for its next look.
PacerStarved ==
  /\ Len(pcm) < Frame
  /\ UNCHANGED <<udpVars, channelVars>>
=============================================================================
