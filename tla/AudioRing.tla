------------------------------ MODULE AudioRing ------------------------------
(***************************************************************************)
(* The ring buffer between the Android engine's network thread and the     *)
(* Oboe callback (writeToRing and onAudioReady of audio_engine.cpp).       *)
(* There is no lock: the threads share two atomic indices and the slots,   *)
(* so every load, store and copy of a sample is a step of its own.         *)
(*                                                                         *)
(* Arriving samples are numbered from 1; 0 is the silence of the prefill.  *)
(***************************************************************************)
EXTENDS Naturals, Sequences

CONSTANTS
  Size,       \* mRingSize
  Target,     \* mTargetBufferSamples at start: the prefill
  Payloads,   \* samples per datagram
  Frames,     \* numFrames per callback
  Whole,      \* fixed point of mFractionalPos and mPlaybackRate: 1.0
  Overlap,    \* may an overflowing write and a callback run at once?
  MaxArrived  \* bound on the samples received

ASSUME RingAssumption ==
  /\ Size \in Nat \ {0, 1}
  /\ Target \in 1 .. Size - 1
  /\ Payloads \subseteq 1 .. Size - 1
  /\ Frames \subseteq Nat \ {0}
  /\ Whole \in Nat \ {0, 1}
  /\ Overlap \in BOOLEAN
  /\ MaxArrived \in Nat

VARIABLES
  writePos, readPos, \* mWritePos and mReadPos
  slots,             \* mRingBuffer
  writer,            \* the network thread: its step and its locals
  reader,            \* the callback: its step and its locals
  frac,              \* mFractionalPos
  arrived,           \* samples received so far
  played,            \* history: the samples the callbacks advanced over
  dropped            \* history: the overflow of all writes

shared == <<writePos, readPos, slots>>
history == <<played, dropped>>
vars == <<shared, writer, reader, frac, arrived, history>>

Positions == 0 .. Size - 1
Fill(w, r) == (w + Size - r) % Size

WriterState ==
  [at : {"idle", "read", "drop", "copy"},
   pos : Positions, freeFrom : Positions, count : Nat, copied : Nat]

ReaderState ==
  [at : {"idle", "read", "play"},
   pos : Nat, available : 0 .. Size - 1, rate : Nat, left : Nat, batch : Seq(0 .. MaxArrived)]

TypeOK ==
  /\ writePos \in Positions /\ readPos \in Positions
  /\ slots \in [Positions -> 0 .. MaxArrived]
  /\ writer \in WriterState
  /\ reader \in ReaderState
  /\ frac \in 0 .. Whole - 1
  /\ arrived \in 0 .. MaxArrived
  /\ played \in Seq(0 .. MaxArrived)
  /\ dropped \in Nat

\* start() has prefilled the ring with silence up to the target.
Init ==
  /\ writePos = Target /\ readPos = 0
  /\ slots = [p \in Positions |-> 0]
  /\ writer = [at |-> "idle", pos |-> 0, freeFrom |-> 0, count |-> 0, copied |-> 0]
  /\ reader = [at |-> "idle", pos |-> 0, available |-> 0, rate |-> Whole, left |-> 0,
               batch |-> <<>>]
  /\ frac = 0
  /\ arrived = 0
  /\ played = <<>>
  /\ dropped = 0

-----------------------------------------------------------------------------
\* The network thread: writeToRing.

\* Seeded bug: the slot that tells full from empty is used.
AvailableAll == Size - Fill(writer.pos, writer.freeFrom)

\* Free slots as the writer sees them, one kept empty to tell full from empty.
Available == Size - 1 - Fill(writer.pos, writer.freeFrom)

Overflow == IF writer.count > Available THEN writer.count - Available ELSE 0

\* A datagram arrives; load mWritePos.  Without Overlap it waits for the
\* callback to end if it finds too little room.
WriteStart(n) ==
  /\ writer.at = "idle"
  /\ arrived + n <= MaxArrived
  /\ Overlap \/ reader.at = "idle" \/ n <= Size - 1 - Fill(writePos, readPos)
  /\ arrived' = arrived + n
  /\ writer' = [writer EXCEPT !.at = "read", !.pos = writePos, !.count = n, !.copied = 0]
  /\ UNCHANGED <<shared, reader, frac, history>>

WriteLoadsRead ==
  /\ writer.at = "read"
  /\ writer' = [writer EXCEPT !.at = "drop", !.freeFrom = readPos]
  /\ UNCHANGED <<shared, reader, frac, arrived, history>>

\* Seeded bug: an overflow is counted, the read position stays.
WriteDropsNothing ==
  /\ writer.at = "drop"
  /\ dropped' = dropped + Overflow
  /\ writer' = [writer EXCEPT !.at = "copy"]
  /\ UNCHANGED <<writePos, readPos, slots, reader, frac, arrived, played>>

\* Drop the oldest samples by advancing the READ position.
WriteDrops ==
  /\ writer.at = "drop"
  /\ readPos' = IF Overflow > 0 THEN (writer.freeFrom + Overflow) % Size ELSE readPos
  /\ dropped' = dropped + Overflow
  /\ writer' = [writer EXCEPT !.at = "copy"]
  /\ UNCHANGED <<writePos, slots, reader, frac, arrived, played>>

\* memcpy, one sample at a time.
WriteCopies ==
  /\ writer.at = "copy" /\ writer.copied < writer.count
  /\ slots' = [slots EXCEPT ![(writer.pos + writer.copied) % Size] =
                 arrived - writer.count + writer.copied + 1]
  /\ writer' = [writer EXCEPT !.copied = @ + 1]
  /\ UNCHANGED <<writePos, readPos, reader, frac, arrived, history>>

WritePublishes ==
  /\ writer.at = "copy" /\ writer.copied = writer.count
  /\ writePos' = (writer.pos + writer.count) % Size
  /\ writer' = [writer EXCEPT !.at = "idle"]
  /\ UNCHANGED <<readPos, slots, reader, frac, arrived, history>>

-----------------------------------------------------------------------------
\* The Oboe callback: onAudioReady.

OverflowingWrite == writer.at # "idle" /\ writer.count > Size - 1 - Fill(writer.pos, readPos)

\* Load mWritePos (kept in pos until mReadPos is loaded).
ReadStart(n) ==
  /\ reader.at = "idle"
  /\ Overlap \/ ~OverflowingWrite
  /\ reader' = [reader EXCEPT !.at = "read", !.pos = writePos, !.left = n, !.batch = <<>>]
  /\ UNCHANGED <<shared, writer, frac, arrived, history>>

\* Rate control: faster above the target, slower below it.
Rates(available) ==
  {Whole} \cup (IF available > Target THEN {Whole + 1} ELSE {})
          \cup (IF available < Target THEN {Whole - 1} ELSE {})

ReadLoadsRead ==
  /\ reader.at = "read"
  /\ \E rate \in Rates(Fill(reader.pos, readPos)) :
       reader' = [reader EXCEPT !.at = "play", !.pos = readPos, !.rate = rate,
                                !.available = Fill(reader.pos, readPos)]
  /\ UNCHANGED <<shared, writer, frac, arrived, history>>

\* One output frame with more than one sample at hand: interpolate between two
\* slots and advance by the whole part of mFractionalPos.
ReadSample ==
  LET passed == (frac + reader.rate) \div Whole IN
  /\ reader.at = "play" /\ reader.left > 0 /\ reader.available > 1
  /\ frac' = (frac + reader.rate) % Whole
  /\ reader' = [reader EXCEPT
       !.left = @ - 1, !.pos = @ + passed, !.available = @ - passed,
       !.batch = @ \o [i \in 1 .. passed |-> slots[(reader.pos + i - 1) % Size]]]
  /\ UNCHANGED <<shared, writer, arrived, history>>

\* Underrun: silence, nothing advances.
ReadSilence ==
  /\ reader.at = "play" /\ reader.left > 0 /\ reader.available <= 1
  /\ reader' = [reader EXCEPT !.left = @ - 1]
  /\ UNCHANGED <<shared, writer, frac, arrived, history>>

\* Seeded bug: the position is stored without wrapping around.
ReadEndUnwrapped ==
  /\ reader.at = "play" /\ reader.left = 0
  /\ readPos' = reader.pos
  /\ played' = played \o reader.batch
  /\ reader' = [reader EXCEPT !.at = "idle"]
  /\ UNCHANGED <<writePos, slots, writer, frac, arrived, dropped>>

\* Store mReadPos, whatever the writer stored there meanwhile.
ReadEnd ==
  /\ reader.at = "play" /\ reader.left = 0
  /\ readPos' = reader.pos % Size
  /\ played' = played \o reader.batch
  /\ reader' = [reader EXCEPT !.at = "idle"]
  /\ UNCHANGED <<writePos, slots, writer, frac, arrived, dropped>>

WriteStep == WriteLoadsRead \/ WriteDrops \/ WriteCopies \/ WritePublishes

Callback ==
  \/ \E n \in Frames : ReadStart(n)
  \/ ReadLoadsRead \/ ReadSample \/ ReadSilence \/ ReadEnd

Next == (\E n \in Payloads : WriteStart(n)) \/ WriteStep \/ Callback

Spec == Init /\ [][Next]_vars

-----------------------------------------------------------------------------
\* The ring implements a bounded queue: what the callback plays is what was at
\* the front, although it is read slot by slot while the writer works.
Contents ==
  [i \in 1 .. Fill(writePos, readPos) |-> slots[(readPos + i - 1) % Size]]

Queue == INSTANCE SampleQueue WITH Capacity <- Size - 1, queue <- Contents

ImplementsQueue == Queue!Spec

\* A sample is lost only to an overflow, which drops no more than the room it
\* lacks: with both threads idle, what arrived was played, dropped or is there.
LostOnlyToOverflow ==
  writer.at = "idle" /\ reader.at = "idle" =>
    Target + arrived <= Len(played) + dropped + Fill(writePos, readPos)
=============================================================================
