------------------------------ MODULE PacedUdp ------------------------------
(***************************************************************************)
(* UdpSender against the clock, to ask whether the backlog cap ever        *)
(* discards audio when capture and playback run at the same rate.          *)
(*                                                                         *)
(* The time unit is FRAME_DURATION, in which the device takes Frame        *)
(* samples.  It hands them over in bursts of at most MaxBurst; the pump    *)
(* may trail by PumpLag samples and the pacer wake Late units late.        *)
(***************************************************************************)
EXTENDS UdpSender, Integers

CONSTANTS
  MaxBurst, \* most samples the device holds before a callback delivers them
  PumpLag,  \* most samples the pump leaves in the channel as time passes
  Late      \* longest delay of the pacer past next_send

ASSUME PaceAssumption ==
  /\ MaxBurst \in Nat
  /\ PumpLag \in Nat
  /\ Late \in Nat

\* The condition under which the cap only acts on drifting clocks.
CapAmple == (Frame - 1) + MaxBurst + PumpLag + Frame * (1 + Late) <= MaxBuf

VARIABLES
  owed, \* samples the device has taken and not delivered
  due   \* next_send - now of the pacer

paceVars == <<owed, due>>
vars == <<channelVars, udpVars, paceVars>>

TypeOK ==
  /\ ChannelTypeOK
  /\ UdpTypeOK
  /\ owed \in 0 .. MaxBurst
  /\ due \in -Late .. 1

Init ==
  /\ ChannelInit
  /\ UdpInit
  /\ owed = 0
  /\ due = 0

-----------------------------------------------------------------------------
Start ==
  /\ Subscribe(Udp)
  /\ UNCHANGED <<udpVars, paceVars>>

\* A callback delivers samples the device holds (or reports an error).
Deliver(n) ==
  /\ n <= owed
  /\ Publish(n)
  /\ owed' = owed - n
  /\ UNCHANGED <<udpVars, due>>

\* Capture stops (an error, or a switch of device): what it held is gone.
CaptureStops ==
  /\ owed' = 0
  /\ UNCHANGED <<channelVars, udpVars, due>>

PumpStep ==
  /\ Pump
  /\ UNCHANGED paceVars

\* Seeded bug: the next send is scheduled from now, so lateness adds up.
SendFromNow ==
  /\ due <= 0
  /\ PacerFrame
  /\ due' = 1
  /\ UNCHANGED owed

\* Seeded bug: the pacer does not wait for next_send.
SendUnpaced ==
  /\ PacerFrame
  /\ due' = due + 1
  /\ UNCHANGED owed

\* A full frame: next_send += FRAME_DURATION, so a late pacer catches up.
Send ==
  /\ due <= 0
  /\ PacerFrame
  /\ due' = due + 1
  /\ UNCHANGED owed

\* No full frame: next_send = Instant::now() + FRAME_DURATION.
Starve ==
  /\ due <= 0
  /\ PacerStarved
  /\ due' = 1
  /\ UNCHANGED owed

\* Time passes for a device that captures.
Elapse(samples) ==
  /\ Behind(Udp) <= PumpLag
  /\ due > -Late
  /\ owed + samples <= MaxBurst
  /\ owed' = owed + samples
  /\ due' = due - 1
  /\ UNCHANGED <<channelVars, udpVars>>

\* The device captures, or is stopped.
Tick == Elapse(Frame) \/ Elapse(0)

Next ==
  \/ Start
  \/ \E n \in ChunkSizes : Deliver(n)
  \/ CaptureStops \/ PumpStep \/ Send \/ Starve \/ Tick

Spec == Init /\ [][Next]_vars

-----------------------------------------------------------------------------
\* With an ample cap no sample is ever discarded to bound the latency: bursts,
\* a trailing pump and late wake-ups of the pacer are all absorbed.
NothingSkipped == ~skipped

-----------------------------------------------------------------------------
\* What makes it inductive: all the audio between the device and the pacer is
\* bounded by how far the pacer is behind its schedule.
InTransit == owed + Behind(Udp) + Len(pcm)

PaceInv ==
  /\ UnreadOrdered(Udp)
  /\ Udp \notin subscribed => unread[Udp] = <<>>
  /\ owed + Behind(Udp) <= MaxBurst + PumpLag
  /\ InTransit + Frame * due <= (Frame - 1) + MaxBurst + PumpLag + Frame
  /\ NothingSkipped
=============================================================================
