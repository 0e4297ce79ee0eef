------------------------- MODULE NetworkThreadProofs -------------------------
(***************************************************************************)
(* What the Android engine's network thread and ring buffer guarantee for  *)
(* any ring, payload and callback size, any number of samples and any      *)
(* range of sequence numbers: types, the count of losses, no sample lost   *)
(* but to an overflow, and that the ring implements SampleQueue.           *)
(***************************************************************************)
EXTENDS NetworkThread, FiniteSetTheorems, SequenceTheorems, TLAPS

\* What makes the safety properties inductive.  Each thread's locals are what
\* it loaded, or follow from it;
LocalsHold ==
  /\ writer.at # "idle" =>
       /\ writer.pos = writePos
       /\ writer.count \in 1 .. Size - 1 /\ writer.count <= arrived
       /\ writer.copied <= writer.count
  /\ reader.at = "read" => reader.pos \in Positions
  /\ reader.at = "play" => reader.rate \in Whole - 1 .. Whole + 1

RingTypes == TypeOK /\ LocalsHold

\* there is room for the write, except for an overflow that no callback sees;
Buffered == Fill(writePos, readPos)

RoomKept ==
  /\ writer.at = "copy" => writer.count + Buffered <= Size - 1
  /\ writer.at # "idle" /\ reader.at # "idle" => writer.count + Buffered <= Size - 1
  /\ writer.at = "drop" =>
       \/ writer.freeFrom = readPos
       \/ /\ writer.count + Fill(writePos, writer.freeFrom) <= Size - 1
          /\ writer.count + Buffered <= Size - 1

\* what a callback has read and has still at hand is at the front of the ring;
FrontRead ==
  /\ reader.at = "read" => Fill(reader.pos, readPos) <= Buffered /\ reader.batch = <<>>
  /\ reader.at = "play" =>
       /\ reader.pos = readPos + Len(reader.batch)
       /\ Len(reader.batch) + reader.available <= Buffered
       /\ \A i \in 1 .. Len(reader.batch) :
            reader.batch[i] = slots[(readPos + i - 1) % Size]

\* and no sample is counted twice or not at all.
Accounted ==
  Target + arrived = Len(played) + dropped + Buffered
                     + (IF writer.at = "idle" THEN 0 ELSE writer.count)

RingInv == RingTypes /\ RoomKept /\ FrontRead /\ Accounted

-----------------------------------------------------------------------------
\* What makes LossCounted inductive: the last number is that of a datagram
\* received, in order that of the newest.
LastReceived ==
  /\ seen = {} => lostPackets = 0 /\ lastSeq = -1
  /\ seen # {} =>
       /\ 0 \in seen
       /\ ~blind => lastSeq >= 0
       /\ \E l \in seen : lastSeq = SeqOf(l) /\ (inOrder => \A j \in seen : j <= l)

LossInv == LastReceived /\ LossCounted

-----------------------------------------------------------------------------

LEMMA Divides ==
  ASSUME NEW x \in Int, NEW w \in Int, w > 0
  PROVE  \E q \in Int : x = w * q + (x % w)
<1>1. x \div w \in Int
  OBVIOUS
<1>2. x = (x \div w) * w + (x % w)
  OBVIOUS
<1> QED BY <1>1, <1>2

LEMMA Sizes ==
  /\ Size \in Nat /\ Size >= 2 /\ Target \in 1 .. Size - 1
  /\ Whole \in Nat /\ Whole >= 2 /\ MaxArrived \in Nat
BY RingAssumption

USE Sizes

-----------------------------------------------------------------------------
\* Positions wrap around once at most.

LEMMA Wraps ==
  ASSUME NEW x \in 0 .. 2 * Size - 1
  PROVE  /\ x % Size \in Positions
         /\ x < Size => x % Size = x
         /\ x >= Size => x % Size = x - Size
         /\ x % Size \in {x, x - Size}
<1>1. CASE x < Size
  <2>1. x \in 0 .. Size - 1
    BY <1>1
  <2>2. x % Size = x
    BY <2>1
  <2> QED BY <2>1, <2>2 DEF Positions
<1>2. CASE x >= Size
  <2>1. x \in Size .. 2 * Size - 1
    BY <1>2
  <2>2. x % Size = x - Size
    BY <2>1
  <2> QED BY <2>1, <2>2 DEF Positions
<1> QED BY <1>1, <1>2

\* The fill level is the way from the read to the write position.
LEMMA Fills ==
  ASSUME NEW w \in Positions, NEW r \in Positions
  PROVE  /\ Fill(w, r) \in 0 .. Size - 1
         /\ w >= r => Fill(w, r) = w - r
         /\ w < r => Fill(w, r) = w + Size - r
         /\ (r + Fill(w, r)) % Size = w
<1>1. w + Size - r \in 0 .. 2 * Size - 1
  BY DEF Positions
<1>2. /\ Fill(w, r) \in 0 .. Size - 1
      /\ w >= r => Fill(w, r) = w - r
      /\ w < r => Fill(w, r) = w + Size - r
  <2>1. Fill(w, r) \in Positions
    BY <1>1, Wraps DEF Fill
  <2>2. w >= r => Fill(w, r) = w + Size - r - Size
    BY <1>1, Wraps DEF Fill, Positions
  <2>3. w < r => Fill(w, r) = w + Size - r
    BY <1>1, Wraps DEF Fill, Positions
  <2> QED BY <2>1, <2>2, <2>3 DEF Positions
<1>3. r + Fill(w, r) \in 0 .. 2 * Size - 1
  BY <1>2 DEF Positions
<1>4. (r + Fill(w, r)) % Size = w
  <2>1. CASE w >= r
    BY <1>2, <1>3, <2>1, Wraps DEF Positions
  <2>2. CASE w < r
    BY <1>2, <1>3, <2>2, Wraps DEF Positions
  <2> QED BY <2>1, <2>2 DEF Positions
<1> QED BY <1>2, <1>4

\* Writing fills it, dropping and playing empty it.
LEMMA Advances ==
  ASSUME NEW w \in Positions, NEW r \in Positions, NEW k \in 0 .. Size - 1
  PROVE  /\ k + Fill(w, r) <= Size - 1 => Fill((w + k) % Size, r) = Fill(w, r) + k
         /\ k <= Fill(w, r) => Fill(w, (r + k) % Size) = Fill(w, r) - k
<1>0. /\ w >= r => Fill(w, r) = w - r
      /\ w < r => Fill(w, r) = w + Size - r
  BY Fills
<1>1. /\ w + k \in 0 .. 2 * Size - 1 /\ r + k \in 0 .. 2 * Size - 1
  BY DEF Positions
<1>2. k + Fill(w, r) <= Size - 1 => Fill((w + k) % Size, r) = Fill(w, r) + k
  <2> DEFINE v == (w + k) % Size
  <2>1. v \in Positions /\ (v = w + k \/ v = (w + k) - Size)
    BY <1>1, Wraps
  <2> HIDE DEF v
  <2>2. /\ v >= r => Fill(v, r) = v - r
        /\ v < r => Fill(v, r) = v + Size - r
    BY <2>1, Fills
  <2>3. k + Fill(w, r) <= Size - 1 => Fill(v, r) = Fill(w, r) + k
    BY <1>0, <2>1, <2>2 DEF Positions
  <2> QED BY <2>3 DEF v
<1>3. k <= Fill(w, r) => Fill(w, (r + k) % Size) = Fill(w, r) - k
  <2> DEFINE q == (r + k) % Size
  <2>1. q \in Positions /\ (q = r + k \/ q = (r + k) - Size)
    BY <1>1, Wraps
  <2> HIDE DEF q
  <2>2. /\ w >= q => Fill(w, q) = w - q
        /\ w < q => Fill(w, q) = w + Size - q
    BY <2>1, Fills
  <2>3. k <= Fill(w, r) => Fill(w, q) = Fill(w, r) - k
    BY <1>0, <2>1, <2>2 DEF Positions
  <2> QED BY <2>3 DEF q
<1> QED BY <1>2, <1>3

\* One frame advances by two samples at most.
LEMMA Passes ==
  ASSUME NEW f \in 0 .. Whole - 1, NEW rate \in Whole - 1 .. Whole + 1
  PROVE  (f + rate) \div Whole \in 0 .. 2 /\ (f + rate) % Whole \in 0 .. Whole - 1
<1>1. f + rate \in 0 .. 2 * Whole
  OBVIOUS
<1>2. (f + rate) \div Whole \in 0 .. 2
  BY <1>1
<1>3. (f + rate) % Whole \in 0 .. Whole - 1
  BY <1>1
<1> QED BY <1>2, <1>3

-----------------------------------------------------------------------------
LEMMA AnyWraps ==
  ASSUME NEW x \in Int
  PROVE  x % Size \in Positions
BY DEF Positions

LEMMA RingFacts ==
  ASSUME RingTypes
  PROVE  /\ writePos \in Positions /\ readPos \in Positions
         /\ Positions = 0 .. Size - 1 /\ arrived \in 0 .. MaxArrived
         /\ writer.at \in {"idle", "read", "drop", "copy"} /\ writer.pos \in Positions
         /\ writer.freeFrom \in Positions /\ writer.count \in Nat /\ writer.copied \in Nat
         /\ reader.at \in {"idle", "read", "play"} /\ reader.pos \in Nat
         /\ reader.available \in 0 .. Size - 1 /\ reader.rate \in Nat /\ reader.left \in Nat
         /\ reader.batch \in Seq(0 .. MaxArrived)
         /\ frac \in 0 .. Whole - 1
         /\ slots \in [Positions -> 0 .. MaxArrived]
         /\ played \in Seq(0 .. MaxArrived) /\ dropped \in Nat
         /\ writer = [at |-> writer.at, pos |-> writer.pos, freeFrom |-> writer.freeFrom,
                      count |-> writer.count, copied |-> writer.copied]
         /\ reader = [at |-> reader.at, pos |-> reader.pos, available |-> reader.available,
                      rate |-> reader.rate, left |-> reader.left, batch |-> reader.batch]
<1>1. writer \in WriterState /\ reader \in ReaderState
  BY DEF RingTypes, TypeOK
<1>2. /\ writer.at \in {"idle", "read", "drop", "copy"} /\ writer.pos \in Positions
      /\ writer.freeFrom \in Positions /\ writer.count \in Nat /\ writer.copied \in Nat
      /\ writer = [at |-> writer.at, pos |-> writer.pos, freeFrom |-> writer.freeFrom,
                   count |-> writer.count, copied |-> writer.copied]
  BY <1>1 DEF WriterState
<1>3. /\ reader.at \in {"idle", "read", "play"} /\ reader.pos \in Nat
      /\ reader.available \in 0 .. Size - 1 /\ reader.rate \in Nat /\ reader.left \in Nat
      /\ reader.batch \in Seq(0 .. MaxArrived)
      /\ reader = [at |-> reader.at, pos |-> reader.pos, available |-> reader.available,
                   rate |-> reader.rate, left |-> reader.left, batch |-> reader.batch]
  BY <1>1 DEF ReaderState
<1> QED BY <1>2, <1>3 DEF RingTypes, TypeOK, Positions

\* A writer of these fields, and a reader of those, is of its type.
LEMMA WriterMade ==
  ASSUME NEW at \in {"idle", "read", "drop", "copy"}, NEW pos \in Positions,
         NEW freeFrom \in Positions, NEW count \in Nat, NEW copied \in Nat
  PROVE  [at |-> at, pos |-> pos, freeFrom |-> freeFrom, count |-> count, copied |-> copied]
           \in WriterState
BY DEF WriterState

LEMMA ReaderMade ==
  ASSUME NEW at \in {"idle", "read", "play"}, NEW pos \in Nat, NEW available \in 0 .. Size - 1,
         NEW rate \in Nat, NEW left \in Nat, NEW batch \in Seq(0 .. MaxArrived)
  PROVE  [at |-> at, pos |-> pos, available |-> available, rate |-> rate, left |-> left,
          batch |-> batch] \in ReaderState
BY DEF ReaderState

\* The steps keep the types, whether or not overflowing writes and callbacks
\* exclude one another.

LEMMA WriterTypes ==
  ASSUME RingTypes, (\E n \in Payloads : WriteStart(n)) \/ WriteStep
  PROVE  RingTypes'
<1> USE DEF shared, history
<1>p. /\ arrived \in 0 .. MaxArrived /\ dropped \in Nat /\ Positions = 0 .. Size - 1
      /\ writePos \in Positions /\ readPos \in Positions
      /\ slots \in [Positions -> 0 .. MaxArrived]
      /\ frac \in 0 .. Whole - 1 /\ played \in Seq(0 .. MaxArrived)
  BY RingFacts
<1>w. /\ writer.at \in {"idle", "read", "drop", "copy"} /\ writer.pos \in Positions
      /\ writer.freeFrom \in Positions /\ writer.count \in Nat /\ writer.copied \in Nat
  BY RingFacts
<1>v. writer = [at |-> writer.at, pos |-> writer.pos, freeFrom |-> writer.freeFrom,
                count |-> writer.count, copied |-> writer.copied]
  BY RingFacts
<1>l. writer.at # "idle" =>
        /\ writer.pos = writePos
        /\ writer.count \in 1 .. Size - 1 /\ writer.count <= arrived
        /\ writer.copied <= writer.count
  BY DEF RingTypes, LocalsHold
<1>r. /\ reader \in ReaderState
      /\ reader.at = "read" => reader.pos \in Positions
      /\ reader.at = "play" => reader.rate \in Whole - 1 .. Whole + 1
  BY DEF RingTypes, LocalsHold, TypeOK
<1>1. CASE \E n \in Payloads : WriteStart(n)
  <2>1. PICK n \in Payloads : WriteStart(n)
    BY <1>1
  <2>2. n \in 1 .. Size - 1
    BY RingAssumption
  <2>3. arrived' = arrived + n /\ arrived + n <= MaxArrived
    BY <2>1 DEF WriteStart
  <2>4. UNCHANGED <<writePos, readPos, slots, reader, frac, played, dropped>>
    BY <2>1 DEF WriteStart
  <2>5. writer' = [at |-> "read", pos |-> writePos, freeFrom |-> writer.freeFrom,
                   count |-> n, copied |-> 0]
    BY <1>v, <2>1 DEF WriteStart
  <2>6. n \in Nat /\ 0 \in Nat
    BY <2>2
  <2>7. writer' \in WriterState
    BY <1>p, <1>w, <2>5, <2>6, WriterMade
  <2>8. arrived' \in 0 .. MaxArrived /\ n <= arrived' /\ 0 <= n
    BY <1>p, <2>2, <2>3
  <2>9. writer'.pos = writePos /\ writer'.count = n /\ writer'.copied = 0
    BY <2>5
  <2> QED BY <1>p, <1>r, <2>2, <2>4, <2>7, <2>8, <2>9 DEF RingTypes, TypeOK, LocalsHold
<1>2. CASE WriteLoadsRead
  <2>1. UNCHANGED <<writePos, readPos, slots, reader, frac, arrived, played, dropped>>
    BY <1>2 DEF WriteLoadsRead
  <2>2. /\ writer.at = "read"
        /\ writer' = [at |-> "drop", pos |-> writer.pos, freeFrom |-> readPos,
                      count |-> writer.count, copied |-> writer.copied]
    BY <1>2, <1>v DEF WriteLoadsRead
  <2>3. writer' \in WriterState
    BY <1>p, <1>w, <2>2, WriterMade
  <2> QED BY <1>p, <1>l, <1>r, <2>1, <2>2, <2>3 DEF RingTypes, TypeOK, LocalsHold
<1>3. CASE WriteDrops
  <2>1. UNCHANGED <<writePos, slots, reader, frac, arrived, played>>
    BY <1>3 DEF WriteDrops
  <2>2. /\ readPos' = IF Overflow > 0 THEN (writer.freeFrom + Overflow) % Size ELSE readPos
        /\ dropped' = dropped + Overflow
    BY <1>3 DEF WriteDrops
  <2>3. /\ writer.at = "drop"
        /\ writer' = [at |-> "copy", pos |-> writer.pos, freeFrom |-> writer.freeFrom,
                      count |-> writer.count, copied |-> writer.copied]
    BY <1>3, <1>v DEF WriteDrops
  <2>4. Overflow \in Nat
    <3>1. Available \in Nat
      <4>1. Fill(writer.pos, writer.freeFrom) \in 0 .. Size - 1
        BY <1>w, Fills
      <4> QED BY <4>1 DEF Available
    <3> QED BY <1>w, <3>1 DEF Overflow
  <2>5. readPos' \in Positions
    <3>1. writer.freeFrom + Overflow \in Int
      BY <1>p, <1>w, <2>4
    <3>2. (writer.freeFrom + Overflow) % Size \in Positions
      BY <3>1, AnyWraps
    <3> QED BY <1>p, <2>2, <3>2
  <2>6. dropped' \in Nat
    BY <1>p, <2>2, <2>4
  <2>7. writer' \in WriterState
    BY <1>w, <2>3, WriterMade
  <2> QED BY <1>p, <1>l, <1>r, <2>1, <2>3, <2>5, <2>6, <2>7 DEF RingTypes, TypeOK, LocalsHold
<1>4. CASE WriteCopies
  <2>1. UNCHANGED <<writePos, readPos, reader, frac, arrived, played, dropped>>
    BY <1>4 DEF WriteCopies
  <2>2. writer.at = "copy" /\ writer.copied < writer.count
    BY <1>4 DEF WriteCopies
  <2>3. slots' = [slots EXCEPT ![(writer.pos + writer.copied) % Size] =
                    arrived - writer.count + writer.copied + 1]
    BY <1>4 DEF WriteCopies
  <2>4. writer' = [at |-> "copy", pos |-> writer.pos, freeFrom |-> writer.freeFrom,
                   count |-> writer.count, copied |-> writer.copied + 1]
    BY <1>4, <1>v DEF WriteCopies
  <2>5. writer.copied + 1 \in Nat /\ writer.copied + 1 <= writer.count
    BY <1>w, <2>2
  <2>6. writer' \in WriterState
    BY <1>w, <2>4, <2>5, WriterMade
  <2>7. arrived - writer.count + writer.copied + 1 \in 0 .. MaxArrived
    BY <1>p, <1>w, <1>l, <2>2
  <2>8. slots' \in [Positions -> 0 .. MaxArrived]
    BY <1>p, <2>3, <2>7
  <2>9. LocalsHold'
    BY <1>l, <1>r, <2>1, <2>2, <2>4, <2>5 DEF LocalsHold
  <2> QED BY <1>p, <1>r, <2>1, <2>6, <2>8, <2>9 DEF RingTypes, TypeOK
<1>5. CASE WritePublishes
  <2>1. UNCHANGED <<readPos, slots, reader, frac, arrived, played, dropped>>
    BY <1>5 DEF WritePublishes
  <2>2. writePos' \in Positions
    <3>1. writer.pos + writer.count \in Int
      BY <1>p, <1>w
    <3>2. (writer.pos + writer.count) % Size \in Positions
      BY <3>1, AnyWraps
    <3> QED BY <1>5, <3>2 DEF WritePublishes
  <2>3. writer' = [at |-> "idle", pos |-> writer.pos, freeFrom |-> writer.freeFrom,
                   count |-> writer.count, copied |-> writer.copied]
    BY <1>5, <1>v DEF WritePublishes
  <2>4. writer' \in WriterState
    BY <1>w, <2>3, WriterMade
  <2> QED BY <1>p, <1>r, <2>1, <2>2, <2>3, <2>4 DEF RingTypes, TypeOK, LocalsHold
<1> QED BY <1>1, <1>2, <1>3, <1>4, <1>5 DEF WriteStep

LEMMA ReaderTypes ==
  ASSUME RingTypes, Callback
  PROVE  RingTypes'
<1> USE DEF shared, history
<1>p. /\ arrived \in 0 .. MaxArrived /\ dropped \in Nat /\ Positions = 0 .. Size - 1
      /\ writePos \in Positions /\ readPos \in Positions
      /\ slots \in [Positions -> 0 .. MaxArrived]
      /\ frac \in 0 .. Whole - 1 /\ played \in Seq(0 .. MaxArrived)
  BY RingFacts
<1>w. /\ writer \in WriterState
      /\ writer.at # "idle" =>
           /\ writer.pos = writePos
           /\ writer.count \in 1 .. Size - 1 /\ writer.count <= arrived
           /\ writer.copied <= writer.count
  BY DEF RingTypes, LocalsHold, TypeOK
<1>r. /\ reader.at \in {"idle", "read", "play"} /\ reader.pos \in Nat
      /\ reader.available \in 0 .. Size - 1 /\ reader.rate \in Nat /\ reader.left \in Nat
  BY RingFacts
<1>b. reader.batch \in Seq(0 .. MaxArrived)
  BY RingFacts
<1>v. reader = [at |-> reader.at, pos |-> reader.pos, available |-> reader.available,
                rate |-> reader.rate, left |-> reader.left, batch |-> reader.batch]
  BY RingFacts
<1>l. /\ reader.at = "read" => reader.pos \in Positions
      /\ reader.at = "play" => reader.rate \in Whole - 1 .. Whole + 1
  BY DEF RingTypes, LocalsHold
<1>1. CASE \E n \in Frames : ReadStart(n)
  <2>1. PICK n \in Frames : ReadStart(n)
    BY <1>1
  <2>2. UNCHANGED <<writePos, readPos, slots, writer, frac, arrived, played, dropped>>
    BY <2>1 DEF ReadStart
  <2>3. reader' = [at |-> "read", pos |-> writePos, available |-> reader.available,
                   rate |-> reader.rate, left |-> n, batch |-> <<>>]
    BY <1>v, <2>1 DEF ReadStart
  <2>4. <<>> \in Seq(0 .. MaxArrived) /\ n \in Nat /\ writePos \in Nat
    BY <1>p, RingAssumption
  <2>5. reader' \in ReaderState
    BY <1>r, <2>3, <2>4, ReaderMade
  <2> QED BY <1>p, <1>w, <2>2, <2>3, <2>5 DEF RingTypes, TypeOK, LocalsHold
<1>2. CASE ReadLoadsRead
  <2>1. PICK rate \in Rates(Fill(reader.pos, readPos)) :
          reader' = [reader EXCEPT !.at = "play", !.pos = readPos, !.rate = rate,
                                   !.available = Fill(reader.pos, readPos)]
    BY <1>2 DEF ReadLoadsRead
  <2>2. reader.at = "read" /\ UNCHANGED <<writePos, readPos, slots, writer, frac, arrived, played, dropped>>
    BY <1>2 DEF ReadLoadsRead
  <2>3. Fill(reader.pos, readPos) \in 0 .. Size - 1
    BY <1>p, <1>l, <2>2, Fills
  <2>4. rate \in Whole - 1 .. Whole + 1
    BY DEF Rates
  <2>5. reader' = [at |-> "play", pos |-> readPos, available |-> Fill(reader.pos, readPos),
                   rate |-> rate, left |-> reader.left, batch |-> reader.batch]
    BY <1>v, <2>1
  <2>6. rate \in Nat /\ readPos \in Nat
    BY <1>p, <2>4
  <2>7. reader' \in ReaderState
    BY <1>r, <1>b, <2>3, <2>5, <2>6, ReaderMade
  <2> QED BY <1>p, <1>w, <2>2, <2>4, <2>5, <2>7 DEF RingTypes, TypeOK, LocalsHold
<1>3. CASE ReadSample
  <2> DEFINE passed == (frac + reader.rate) \div Whole
             new == [i \in 1 .. passed |-> slots[(reader.pos + i - 1) % Size]]
  <2>1. /\ UNCHANGED <<writePos, readPos, slots, writer, arrived, played, dropped>>
        /\ reader.at = "play" /\ reader.left > 0 /\ reader.available > 1
        /\ frac' = (frac + reader.rate) % Whole
    BY <1>3 DEF ReadSample
  <2>2. passed \in 0 .. 2 /\ frac' \in 0 .. Whole - 1
    BY <1>p, <1>l, <2>1, Passes
  <2>3. reader' = [at |-> "play", pos |-> reader.pos + passed,
                   available |-> reader.available - passed, rate |-> reader.rate,
                   left |-> reader.left - 1, batch |-> reader.batch \o new]
    <3> HIDE DEF new
    <3> QED BY <1>v, <1>3 DEF ReadSample, new
  <2>4. \A i \in 1 .. passed : slots[(reader.pos + i - 1) % Size] \in 0 .. MaxArrived
    <3> HIDE DEF passed
    <3> TAKE i \in 1 .. passed
    <3>1. reader.pos + i - 1 \in Int
      BY <1>r, <2>2
    <3>2. (reader.pos + i - 1) % Size \in Positions
      BY <3>1, AnyWraps
    <3> DEFINE at == (reader.pos + i - 1) % Size
    <3> HIDE DEF at
    <3>3. at \in Positions
      BY <3>2 DEF at
    <3>4. slots[at] \in 0 .. MaxArrived
      BY <1>p, <3>3
    <3> QED BY <3>4 DEF at
  <2>5. new \in Seq(0 .. MaxArrived)
    <3> HIDE DEF passed
    <3>1. passed \in Nat
      BY <2>2
    <3> QED BY <2>4, <3>1
  <2> HIDE DEF passed, new
  <2>6. reader.batch \o new \in Seq(0 .. MaxArrived)
    BY <1>b, <2>5, ConcatProperties
  <2>7. /\ reader.pos + passed \in Nat /\ reader.available - passed \in 0 .. Size - 1
        /\ reader.left - 1 \in Nat
    BY <1>r, <2>1, <2>2
  <2>8. reader' \in ReaderState
    BY <1>r, <2>3, <2>6, <2>7, ReaderMade
  <2> QED BY <1>p, <1>w, <1>l, <2>1, <2>2, <2>3, <2>8 DEF RingTypes, TypeOK, LocalsHold
<1>4. CASE ReadSilence
  <2>1. /\ UNCHANGED <<writePos, readPos, slots, writer, frac, arrived, played, dropped>>
        /\ reader.at = "play" /\ reader.left > 0
    BY <1>4 DEF ReadSilence
  <2>2. reader' = [at |-> "play", pos |-> reader.pos, available |-> reader.available,
                   rate |-> reader.rate, left |-> reader.left - 1, batch |-> reader.batch]
    BY <1>4, <1>v DEF ReadSilence
  <2>3. reader.left - 1 \in Nat
    BY <1>r, <2>1
  <2>4. reader' \in ReaderState
    BY <1>r, <1>b, <2>2, <2>3, ReaderMade
  <2> QED BY <1>p, <1>w, <1>l, <2>1, <2>2, <2>4 DEF RingTypes, TypeOK, LocalsHold
<1>5. CASE ReadEnd
  <2>1. /\ UNCHANGED <<writePos, slots, writer, frac, arrived, dropped>>
        /\ readPos' = reader.pos % Size /\ played' = played \o reader.batch
    BY <1>5 DEF ReadEnd
  <2>2. reader' = [at |-> "idle", pos |-> reader.pos, available |-> reader.available,
                   rate |-> reader.rate, left |-> reader.left, batch |-> reader.batch]
    BY <1>5, <1>v DEF ReadEnd
  <2>3. reader' \in ReaderState
    BY <1>r, <1>b, <2>2, ReaderMade
  <2>4. readPos' \in Positions
    <3>1. reader.pos \in Int
      BY <1>r
    <3>2. reader.pos % Size \in Positions
      BY <3>1, AnyWraps
    <3> QED BY <2>1, <3>2
  <2>5. played' \in Seq(0 .. MaxArrived)
    BY <1>p, <1>b, <2>1, ConcatProperties
  <2> QED BY <1>p, <1>w, <2>1, <2>2, <2>3, <2>4, <2>5 DEF RingTypes, TypeOK, LocalsHold
<1> QED BY <1>1, <1>2, <1>3, <1>4, <1>5 DEF Callback

-----------------------------------------------------------------------------
\* A slot that is written is none of those that are buffered.
LEMMA Apart ==
  ASSUME NEW w \in Positions, NEW r \in Positions, NEW i \in Nat, NEW c \in Nat,
         i < Fill(w, r), c + Fill(w, r) < Size
  PROVE  (w + c) % Size # (r + i) % Size
<1>1. /\ w \in 0 .. Size - 1 /\ r \in 0 .. Size - 1
      /\ Fill(w, r) \in 0 .. Size - 1
      /\ w >= r => Fill(w, r) = w - r
      /\ w < r => Fill(w, r) = w + Size - r
  BY Fills DEF Positions
<1>2. w + c \in 0 .. 2 * Size - 1 /\ r + i \in 0 .. 2 * Size - 1
  BY <1>1
<1> DEFINE v == (w + c) % Size
           q == (r + i) % Size
<1>3. v \in Positions /\ (v = w + c \/ v = (w + c) - Size)
  BY <1>2, Wraps
<1>4. q \in Positions /\ (q = r + i \/ q = (r + i) - Size)
  BY <1>2, Wraps
<1> HIDE DEF v, q
<1>5. v # q
  BY <1>1, <1>3, <1>4 DEF Positions
<1> QED BY <1>5 DEF v, q

LEMMA AddWraps ==
  ASSUME NEW r \in Positions, NEW k \in Nat, NEW i \in Nat, k + i < Size
  PROVE  (((r + k) % Size) + i) % Size = (r + (k + i)) % Size
<1>1. r \in 0 .. Size - 1 /\ r + k \in 0 .. 2 * Size - 1 /\ r + (k + i) \in 0 .. 2 * Size - 1
  BY DEF Positions
<1> DEFINE v == (r + k) % Size
           u == (v + i) % Size
           q == (r + (k + i)) % Size
<1>2. v \in Positions /\ (v = r + k \/ v = (r + k) - Size)
  BY <1>1, Wraps
<1>3. q \in Positions /\ (q = r + (k + i) \/ q = (r + (k + i)) - Size)
  BY <1>1, Wraps
<1> HIDE DEF v, q
<1>4. v + i \in 0 .. 2 * Size - 1
  BY <1>2 DEF Positions
<1>5. u \in Positions /\ (u = v + i \/ u = (v + i) - Size)
  BY <1>4, Wraps
<1> HIDE DEF u
<1>6. u = q
  BY <1>1, <1>2, <1>3, <1>5 DEF Positions
<1> QED BY <1>6 DEF u, v, q

\* The numbers in play.
LEMMA Levels ==
  ASSUME RingInv
  PROVE  /\ Buffered \in 0 .. Size - 1 /\ arrived \in Nat /\ dropped \in Nat
         /\ Len(played) \in Nat /\ Len(reader.batch) \in Nat
         /\ writer.count \in Nat /\ writer.copied \in Nat
         /\ writer.at # "idle" => writer.pos = writePos /\ writer.count \in 1 .. Size - 1
BY RingFacts, Fills, LenProperties DEF RingInv, RingTypes, LocalsHold, Buffered

-----------------------------------------------------------------------------
\* What the three steps that move a position do to the fill level.

LEMMA PublishFills ==
  ASSUME RingInv, WritePublishes
  PROVE  /\ writer.count \in 1 .. Size - 1 /\ writePos' = (writePos + writer.count) % Size
         /\ writer.count + Buffered <= Size - 1 /\ Buffered' = Buffered + writer.count
<1>1. /\ writer.pos = writePos /\ writer.count \in 1 .. Size - 1
      /\ writer.count + Buffered <= Size - 1
  BY DEF WritePublishes, RingInv, RingTypes, LocalsHold, RoomKept
<1>2. writePos' = (writePos + writer.count) % Size /\ readPos' = readPos
  BY <1>1 DEF WritePublishes
<1>3. writePos \in Positions /\ readPos \in Positions
  BY RingFacts DEF RingInv
<1>4. Fill((writePos + writer.count) % Size, readPos) = Fill(writePos, readPos) + writer.count
  BY <1>1, <1>3, Advances DEF Buffered
<1> QED BY <1>1, <1>2, <1>4 DEF Buffered

\* An overflow finds the callback idle, and drops what lacks of room.
LEMMA DropsFill ==
  ASSUME RingInv, WriteDrops
  PROVE  /\ Overflow \in 0 .. Buffered
         /\ Overflow > 0 => reader.at = "idle"
         /\ readPos' = (readPos + Overflow) % Size
         /\ Buffered' = Buffered - Overflow
         /\ writer.count + Buffered' <= Size - 1
<1> DEFINE F == Fill(writePos, writer.freeFrom)
<1>1. /\ writePos \in Positions /\ readPos \in Positions /\ writer.freeFrom \in Positions
      /\ readPos \in 0 .. Size - 1
  BY RingFacts DEF RingInv
<1>2. /\ writer.at = "drop" /\ writer.pos = writePos /\ writer.count \in 1 .. Size - 1
  BY DEF WriteDrops, RingInv, RingTypes, LocalsHold
<1>3. F \in 0 .. Size - 1 /\ Buffered \in 0 .. Size - 1
  BY <1>1, Fills DEF Buffered
<1>4. Overflow = IF writer.count > Size - 1 - F THEN writer.count - (Size - 1 - F) ELSE 0
  BY <1>2 DEF Overflow, Available
<1>5. \/ writer.freeFrom = readPos
      \/ writer.count + F <= Size - 1 /\ writer.count + Buffered <= Size - 1
  BY <1>2 DEF RingInv, RoomKept
<1>6. writer.freeFrom = readPos => F = Buffered
  BY DEF Buffered
<1> HIDE DEF F
<1>7. Overflow \in 0 .. Buffered
  BY <1>2, <1>3, <1>4, <1>5, <1>6
<1>8. Overflow > 0 => writer.freeFrom = readPos /\ writer.count + Buffered > Size - 1
  BY <1>2, <1>3, <1>4, <1>5, <1>6
<1>9. Overflow > 0 => reader.at = "idle"
  BY <1>2, <1>3, <1>8 DEF RingInv, RoomKept
<1>10. readPos' = (readPos + Overflow) % Size /\ writePos' = writePos
  <2>1. CASE Overflow > 0
    BY <1>8, <2>1 DEF WriteDrops
  <2>2. CASE Overflow = 0
    <3>1. (readPos + 0) % Size = readPos
      <4>1. readPos + 0 \in 0 .. 2 * Size - 1 /\ readPos + 0 < Size /\ readPos + 0 = readPos
        BY <1>1
      <4> QED BY <4>1, Wraps
    <3> QED BY <2>2, <3>1 DEF WriteDrops
  <2> QED BY <1>3, <1>7, <2>1, <2>2
<1>11. Buffered' = Buffered - Overflow
  <2>1. Overflow \in 0 .. Size - 1 /\ Overflow <= Fill(writePos, readPos)
    BY <1>3, <1>7 DEF Buffered
  <2>2. Fill(writePos, (readPos + Overflow) % Size) = Fill(writePos, readPos) - Overflow
    BY <1>1, <2>1, Advances
  <2> QED BY <1>10, <2>2 DEF Buffered
<1>12. writer.count + Buffered' <= Size - 1
  BY <1>2, <1>3, <1>4, <1>5, <1>6, <1>11
<1> QED BY <1>7, <1>9, <1>10, <1>11, <1>12

LEMMA EndEmpties ==
  ASSUME RingInv, ReadEnd
  PROVE  /\ Len(reader.batch) \in 0 .. Buffered
         /\ readPos' = (readPos + Len(reader.batch)) % Size
         /\ Buffered' = Buffered - Len(reader.batch)
<1>1. writePos \in Positions /\ readPos \in Positions /\ reader.available \in 0 .. Size - 1
  BY RingFacts DEF RingInv
<1>2. Buffered \in 0 .. Size - 1 /\ Len(reader.batch) \in Nat
  BY Levels
<1>3. reader.pos = readPos + Len(reader.batch) /\ Len(reader.batch) + reader.available <= Buffered
  BY DEF ReadEnd, RingInv, FrontRead
<1>4. Len(reader.batch) \in 0 .. Buffered
  BY <1>1, <1>2, <1>3
<1>5. readPos' = (readPos + Len(reader.batch)) % Size /\ writePos' = writePos
  BY <1>3 DEF ReadEnd
<1>6. Len(reader.batch) \in 0 .. Size - 1
  BY <1>2, <1>4
<1>7. Fill(writePos, (readPos + Len(reader.batch)) % Size)
        = Fill(writePos, readPos) - Len(reader.batch)
  BY <1>1, <1>4, <1>6, Advances DEF Buffered
<1> QED BY <1>4, <1>5, <1>7 DEF Buffered

-----------------------------------------------------------------------------
\* What is buffered is not overwritten,
LEMMA CopiesApart ==
  ASSUME RingInv, WriteCopies
  PROVE  \A i \in 1 .. Buffered :
           slots'[(readPos + i - 1) % Size] = slots[(readPos + i - 1) % Size]
<1>1. /\ writePos \in Positions /\ readPos \in Positions
      /\ slots \in [Positions -> 0 .. MaxArrived]
      /\ writer.copied \in Nat /\ writer.count \in Nat
  BY RingFacts DEF RingInv
<1>2. /\ writer.pos = writePos /\ writer.copied < writer.count
      /\ writer.count + Buffered <= Size - 1
  BY DEF WriteCopies, RingInv, RingTypes, LocalsHold, RoomKept
<1>3. Buffered \in 0 .. Size - 1
  BY Levels
<1> TAKE i \in 1 .. Buffered
<1> DEFINE to == (writePos + writer.copied) % Size
           from == (readPos + (i - 1)) % Size
<1>4. to # from
  <2>1. i - 1 \in Nat /\ i - 1 < Fill(writePos, readPos)
    BY <1>3 DEF Buffered
  <2>2. writer.copied + Fill(writePos, readPos) < Size
    BY <1>1, <1>2, <1>3 DEF Buffered
  <2> QED BY <1>1, <2>1, <2>2, Apart
<1>5. from \in Positions
  <2>1. readPos + (i - 1) \in Int
    BY <1>1, <1>3 DEF Positions
  <2> QED BY <2>1, AnyWraps
<1>6. slots' = [slots EXCEPT ![to] = arrived - writer.count + writer.copied + 1]
  BY <1>2 DEF WriteCopies
<1> HIDE DEF to, from
<1>7. slots'[from] = slots[from]
  BY <1>1, <1>4, <1>5, <1>6
<1>8. from = (readPos + i - 1) % Size
  BY DEF from
<1> QED BY <1>7, <1>8

\* and a callback goes on where it is.
LEMMA SampleFront ==
  ASSUME RingInv, ReadSample
  PROVE  FrontRead'
<1> DEFINE passed == (frac + reader.rate) \div Whole
           new == [i \in 1 .. passed |-> slots[(reader.pos + i - 1) % Size]]
<1>1. /\ readPos \in Positions /\ reader.available \in 0 .. Size - 1
      /\ reader.batch \in Seq(0 .. MaxArrived) /\ frac \in 0 .. Whole - 1
      /\ slots \in [Positions -> 0 .. MaxArrived]
      /\ reader = [at |-> reader.at, pos |-> reader.pos, available |-> reader.available,
                   rate |-> reader.rate, left |-> reader.left, batch |-> reader.batch]
  BY RingFacts DEF RingInv
<1>2. /\ reader.at = "play" /\ reader.available > 1
      /\ UNCHANGED <<writePos, readPos, slots>>
  BY DEF ReadSample, shared
<1>3. /\ reader.rate \in Whole - 1 .. Whole + 1
      /\ reader.pos = readPos + Len(reader.batch)
      /\ Len(reader.batch) + reader.available <= Buffered
      /\ \A i \in 1 .. Len(reader.batch) : reader.batch[i] = slots[(readPos + i - 1) % Size]
  BY <1>2 DEF RingInv, RingTypes, LocalsHold, FrontRead
<1>4. passed \in 0 .. 2
  BY <1>1, <1>3, Passes
<1>5. /\ reader'.at = "play" /\ reader'.pos = reader.pos + passed
      /\ reader'.available = reader.available - passed
      /\ reader'.batch = reader.batch \o new
  <2> HIDE DEF new
  <2> QED BY <1>1, <1>2 DEF ReadSample, new
<1> HIDE DEF passed
<1>6. Len(reader.batch) \in Nat /\ Buffered \in 0 .. Size - 1
  BY Levels
<1>p. reader.pos \in Int
  BY <1>1, <1>3, <1>6 DEF Positions
<1>7. new \in Seq(0 .. MaxArrived) /\ Len(new) = passed
  <2>1. \A i \in 1 .. passed : slots[(reader.pos + i - 1) % Size] \in 0 .. MaxArrived
    <3> TAKE i \in 1 .. passed
    <3>1. reader.pos + i - 1 \in Int
      BY <1>4, <1>p
    <3> DEFINE at == (reader.pos + i - 1) % Size
    <3>2. at \in Positions
      BY <3>1, AnyWraps
    <3> HIDE DEF at
    <3>3. slots[at] \in 0 .. MaxArrived
      BY <1>1, <3>2
    <3> QED BY <3>3 DEF at
  <2>2. passed \in Nat
    BY <1>4
  <2> QED BY <2>1, <2>2
<1>8. \A i \in 1 .. passed : new[i] = slots[(reader.pos + i - 1) % Size]
  OBVIOUS
<1> HIDE DEF new
<1>9. /\ Len(reader'.batch) = Len(reader.batch) + passed
      /\ \A i \in 1 .. Len(reader.batch) + passed :
           reader'.batch[i] = IF i <= Len(reader.batch) THEN reader.batch[i]
                              ELSE new[i - Len(reader.batch)]
  <2>1. /\ Len(reader.batch \o new) = Len(reader.batch) + Len(new)
        /\ \A i \in 1 .. Len(reader.batch) + Len(new) :
             (reader.batch \o new)[i] = IF i <= Len(reader.batch) THEN reader.batch[i]
                                       ELSE new[i - Len(reader.batch)]
    BY <1>1, <1>7, ConcatProperties
  <2> QED BY <1>5, <1>7, <2>1
<1>n. /\ readPos \in Int /\ reader.pos = readPos + Len(reader.batch)
      /\ Len(reader.batch) + reader.available <= Buffered
  BY <1>1, <1>3 DEF Positions
<1>10. \A i \in 1 .. Len(reader'.batch) : reader'.batch[i] = slots[(readPos + i - 1) % Size]
  <2> TAKE i \in 1 .. Len(reader'.batch)
  <2>1. CASE i <= Len(reader.batch)
    <3>1. i \in 1 .. Len(reader.batch)
      BY <1>4, <1>6, <1>9, <2>1
    <3> QED BY <1>3, <1>4, <1>6, <1>9, <3>1
  <2>2. CASE ~(i <= Len(reader.batch))
    <3>1. i \in 1 .. Len(reader.batch) + passed
      BY <1>9
    <3>2. i - Len(reader.batch) \in 1 .. passed
      BY <1>4, <1>6, <2>2, <3>1
    <3>3. PICK j \in 1 .. passed : j = i - Len(reader.batch)
      BY <3>2
    <3>4. reader'.batch[i] = slots[(reader.pos + j - 1) % Size]
      BY <1>8, <1>9, <2>2, <3>1, <3>3
    <3>5. reader.pos = readPos + Len(reader.batch) /\ readPos \in Int /\ Len(reader.batch) \in Int
      BY <1>6, <1>n
    <3>6. i \in Int /\ j \in Int
      BY <1>4, <1>6, <3>1
    <3>7. reader.pos + j - 1 = readPos + i - 1
      <4>1. reader.pos \in Int
        BY <3>5
      <4>2. \A p, q, l \in Int : q = p + l => q + (i - l) - 1 = p + i - 1
        BY <3>6
      <4>3. reader.pos + (i - Len(reader.batch)) - 1 = readPos + i - 1
        BY <3>5, <4>1, <4>2
      <4> QED BY <3>3, <4>3
    <3> QED BY <3>4, <3>7
  <2> QED BY <2>1, <2>2
<1>11. /\ reader'.pos = readPos + Len(reader'.batch)
       /\ Len(reader'.batch) + reader'.available <= Buffered
  <2>1. reader.available \in Int
    BY <1>1
  <2>2. /\ reader.pos + passed = readPos + (Len(reader.batch) + passed)
        /\ Len(reader.batch) + passed + (reader.available - passed) <= Buffered
    BY <1>4, <1>6, <1>n, <2>1
  <2> QED BY <1>5, <1>9, <2>2
<1>12. Buffered' = Buffered
  BY <1>2 DEF Buffered
<1> QED BY <1>2, <1>5, <1>10, <1>11, <1>12 DEF FrontRead

-----------------------------------------------------------------------------
\* The steps of the network thread keep the room, what a callback has read, and
\* the account.
LEMMA WriterKeeps ==
  ASSUME RingInv, ~Overlap, (\E n \in Payloads : WriteStart(n)) \/ WriteStep
  PROVE  (RoomKept /\ FrontRead /\ Accounted)'
<1> USE DEF shared, history
<1>v. writer = [at |-> writer.at, pos |-> writer.pos, freeFrom |-> writer.freeFrom,
                count |-> writer.count, copied |-> writer.copied]
  BY RingFacts DEF RingInv
<1>l. /\ Buffered \in 0 .. Size - 1 /\ arrived \in Nat /\ dropped \in Nat
      /\ Len(played) \in Nat /\ Len(reader.batch) \in Nat
      /\ writer.count \in Nat /\ writer.copied \in Nat
      /\ writer.at # "idle" => writer.pos = writePos /\ writer.count \in 1 .. Size - 1
  BY Levels
<1>1. CASE \E n \in Payloads : WriteStart(n)
  <2>1. PICK n \in Payloads : WriteStart(n)
    BY <1>1
  <2>2. n \in 1 .. Size - 1
    BY RingAssumption
  <2>3. /\ writer.at = "idle" /\ arrived' = arrived + n
        /\ reader.at = "idle" \/ n <= Size - 1 - Buffered
    BY <2>1 DEF WriteStart, Buffered
  <2>4. UNCHANGED <<writePos, readPos, slots, reader, played, dropped, Buffered>>
    BY <2>1 DEF WriteStart, Buffered
  <2>5. writer'.at = "read" /\ writer'.count = n
    BY <1>v, <2>1 DEF WriteStart
  <2>6. RoomKept'
    BY <1>l, <2>2, <2>3, <2>4, <2>5 DEF RoomKept
  <2>7. FrontRead'
    BY <2>4 DEF RingInv, FrontRead, Buffered
  <2>8. Accounted'
    BY <1>l, <2>2, <2>3, <2>4, <2>5 DEF RingInv, Accounted
  <2> QED BY <2>6, <2>7, <2>8
<1>2. CASE WriteLoadsRead
  <2>1. UNCHANGED <<writePos, readPos, slots, reader, arrived, played, dropped, Buffered>>
    BY <1>2 DEF WriteLoadsRead, Buffered
  <2>2. /\ writer.at = "read" /\ writer'.at = "drop"
        /\ writer'.count = writer.count /\ writer'.freeFrom = readPos
    BY <1>2, <1>v DEF WriteLoadsRead
  <2>3. RoomKept'
    BY <2>1, <2>2 DEF RingInv, RoomKept
  <2>4. FrontRead'
    BY <2>1 DEF RingInv, FrontRead, Buffered
  <2>5. Accounted'
    BY <2>1, <2>2 DEF RingInv, Accounted
  <2> QED BY <2>3, <2>4, <2>5
<1>3. CASE WriteDrops
  <2>1. /\ UNCHANGED <<writePos, slots, reader, arrived, played>>
        /\ dropped' = dropped + Overflow /\ writer.at = "drop"
    BY <1>3 DEF WriteDrops
  <2>2. writer'.at = "copy" /\ writer'.count = writer.count
    BY <1>3, <1>v DEF WriteDrops
  <2>3. /\ Overflow \in 0 .. Buffered
        /\ Overflow > 0 => reader.at = "idle"
        /\ Buffered' = Buffered - Overflow
        /\ writer.count + Buffered' <= Size - 1
    BY <1>3, DropsFill
  <2>4. RoomKept'
    BY <2>2, <2>3 DEF RoomKept
  <2>5. FrontRead'
    <3>1. CASE Overflow > 0
      BY <2>1, <2>3, <3>1 DEF FrontRead
    <3>2. CASE Overflow = 0
      <4>1. readPos' = readPos /\ Buffered' = Buffered
        BY <1>3, <2>1, <3>2 DEF WriteDrops, Buffered
      <4> QED BY <2>1, <4>1 DEF RingInv, FrontRead, Fill
    <3> QED BY <1>l, <2>3, <3>1, <3>2
  <2>6. Accounted'
    BY <1>l, <2>1, <2>2, <2>3 DEF RingInv, Accounted
  <2> QED BY <2>4, <2>5, <2>6
<1>4. CASE WriteCopies
  <2>1. UNCHANGED <<writePos, readPos, reader, arrived, played, dropped, Buffered>>
    BY <1>4 DEF WriteCopies, Buffered
  <2>2. /\ writer.at = "copy" /\ writer.copied < writer.count
        /\ writer'.at = "copy" /\ writer'.count = writer.count
    BY <1>4, <1>v DEF WriteCopies
  <2>3. RoomKept'
    BY <2>1, <2>2 DEF RingInv, RoomKept
  <2>4. Accounted'
    BY <2>1, <2>2 DEF RingInv, Accounted
  <2>5. FrontRead'
    <3>1. \A i \in 1 .. Buffered : slots'[(readPos + i - 1) % Size] = slots[(readPos + i - 1) % Size]
      BY <1>4, CopiesApart DEF RingInv
    <3>2. reader.at = "play" => Len(reader.batch) <= Buffered
      <4>1. reader.available \in 0 .. Size - 1
        BY RingFacts DEF RingInv
      <4> QED BY <1>l, <4>1 DEF RingInv, FrontRead
    <3>3. reader.at = "play" =>
            \A i \in 1 .. Len(reader.batch) :
              reader.batch[i] = slots'[(readPos + i - 1) % Size]
      <4> SUFFICES ASSUME reader.at = "play", NEW i \in 1 .. Len(reader.batch)
                   PROVE  reader.batch[i] = slots'[(readPos + i - 1) % Size]
        OBVIOUS
      <4>1. i \in 1 .. Buffered
        BY <1>l, <3>2
      <4>2. reader.batch[i] = slots[(readPos + i - 1) % Size]
        BY DEF RingInv, FrontRead
      <4> QED BY <3>1, <4>1, <4>2
    <3> QED BY <2>1, <3>3 DEF RingInv, FrontRead, Fill
  <2> QED BY <2>3, <2>4, <2>5
<1>5. CASE WritePublishes
  <2>1. UNCHANGED <<readPos, slots, reader, arrived, played, dropped>>
    BY <1>5 DEF WritePublishes
  <2>2. writer.at = "copy" /\ writer'.at = "idle"
    BY <1>5, <1>v DEF WritePublishes
  <2>3. /\ writer.count \in 1 .. Size - 1 /\ writer.count + Buffered <= Size - 1
        /\ Buffered' = Buffered + writer.count
    BY <1>5, PublishFills
  <2>4. RoomKept'
    BY <2>2 DEF RoomKept
  <2>5. FrontRead'
    <3>1. /\ reader.available \in Nat
          /\ reader.at = "read" => Fill(reader.pos, readPos) \in Int
      BY RingFacts, Fills DEF RingInv, RingTypes, LocalsHold
    <3>2. Buffered <= Buffered'
      BY <1>l, <2>3
    <3>3. reader.at = "read" => Fill(reader.pos, readPos) <= Buffered'
      BY <1>l, <2>3, <3>1, <3>2 DEF RingInv, FrontRead
    <3>4. reader.at = "play" => Len(reader.batch) + reader.available <= Buffered'
      BY <1>l, <2>3, <3>1, <3>2 DEF RingInv, FrontRead
    <3> QED BY <2>1, <3>3, <3>4 DEF RingInv, FrontRead, Fill
  <2>6. Accounted'
    BY <1>l, <2>1, <2>2, <2>3 DEF RingInv, Accounted
  <2> QED BY <2>4, <2>5, <2>6
<1> QED BY <1>1, <1>2, <1>3, <1>4, <1>5 DEF WriteStep

LEMMA ReaderKeeps ==
  ASSUME RingInv, ~Overlap, Callback
  PROVE  (RoomKept /\ FrontRead /\ Accounted)'
<1> USE DEF shared, history
<1>v. reader = [at |-> reader.at, pos |-> reader.pos, available |-> reader.available,
                rate |-> reader.rate, left |-> reader.left, batch |-> reader.batch]
  BY RingFacts DEF RingInv
<1>l. /\ Buffered \in 0 .. Size - 1 /\ arrived \in Nat /\ dropped \in Nat
      /\ Len(played) \in Nat /\ Len(reader.batch) \in Nat
      /\ writer.count \in Nat /\ writer.copied \in Nat
      /\ writer.at # "idle" => writer.pos = writePos /\ writer.count \in 1 .. Size - 1
  BY Levels
<1>1. CASE \E n \in Frames : ReadStart(n)
  <2>1. PICK n \in Frames : ReadStart(n)
    BY <1>1
  <2>2. UNCHANGED <<writePos, readPos, slots, writer, arrived, played, dropped, Buffered>>
    BY <2>1 DEF ReadStart, Buffered
  <2>3. reader'.at = "read" /\ reader'.pos = writePos /\ reader'.batch = <<>>
    BY <1>v, <2>1 DEF ReadStart
  <2>4. writer.at # "idle" => ~(writer.count > Size - 1 - Buffered)
    BY <1>l, <2>1 DEF ReadStart, OverflowingWrite, Buffered
  <2>5. writer.at # "idle" => writer.count + Buffered <= Size - 1
    BY <1>l, <2>4
  <2>6. RoomKept'
    BY <2>2, <2>5 DEF RingInv, RoomKept, Fill
  <2>7. FrontRead'
    BY <1>l, <2>2, <2>3 DEF FrontRead, Buffered
  <2>8. Accounted'
    BY <2>2 DEF RingInv, Accounted
  <2> QED BY <2>6, <2>7, <2>8
<1>2. CASE ReadLoadsRead
  <2>1. /\ UNCHANGED <<writePos, readPos, slots, writer, arrived, played, dropped, Buffered>>
        /\ reader.at = "read"
    BY <1>2 DEF ReadLoadsRead, Buffered
  <2>2. /\ reader'.at = "play" /\ reader'.pos = readPos
        /\ reader'.available = Fill(reader.pos, readPos) /\ reader'.batch = reader.batch
    BY <1>2, <1>v DEF ReadLoadsRead
  <2>3. Fill(reader.pos, readPos) <= Buffered /\ reader.batch = <<>>
    BY <2>1 DEF RingInv, FrontRead
  <2>4. readPos \in Nat /\ Fill(reader.pos, readPos) \in Nat
    <3>1. readPos \in Positions /\ readPos \in 0 .. Size - 1
      BY RingFacts DEF RingInv
    <3>2. reader.pos \in Positions
      BY <2>1 DEF RingInv, RingTypes, LocalsHold
    <3>3. Fill(reader.pos, readPos) \in 0 .. Size - 1
      BY <3>1, <3>2, Fills
    <3> QED BY <3>1, <3>3
  <2>5. Len(reader'.batch) = 0
    BY <2>2, <2>3
  <2>6. /\ reader'.pos = readPos + Len(reader'.batch)
        /\ Len(reader'.batch) + reader'.available <= Buffered
        /\ 1 .. Len(reader'.batch) = {}
    BY <2>2, <2>3, <2>4, <2>5
  <2>7. FrontRead'
    BY <2>1, <2>2, <2>6 DEF FrontRead
  <2>8. RoomKept' /\ Accounted'
    BY <2>1, <2>2 DEF RingInv, RoomKept, Accounted, Fill
  <2> QED BY <2>7, <2>8
<1>3. CASE ReadSample
  <2>1. UNCHANGED <<writePos, readPos, slots, writer, arrived, played, dropped, Buffered>>
    BY <1>3 DEF ReadSample, Buffered
  <2>2. RoomKept' /\ Accounted'
    <3>1. reader.at = "play"
      BY <1>3 DEF ReadSample
    <3> QED BY <2>1, <3>1 DEF RingInv, RoomKept, Accounted, Fill
  <2>3. FrontRead'
    BY <1>3, SampleFront
  <2> QED BY <2>2, <2>3
<1>4. CASE ReadSilence
  <2>1. /\ UNCHANGED <<writePos, readPos, slots, writer, arrived, played, dropped, Buffered>>
        /\ reader.at = "play"
    BY <1>4 DEF ReadSilence, Buffered
  <2>2. /\ reader'.at = "play" /\ reader'.pos = reader.pos
        /\ reader'.available = reader.available /\ reader'.batch = reader.batch
    BY <1>4, <1>v DEF ReadSilence
  <2>3. FrontRead'
    BY <2>1, <2>2 DEF RingInv, FrontRead
  <2>4. RoomKept' /\ Accounted'
    BY <2>1, <2>2 DEF RingInv, RoomKept, Accounted, Fill
  <2> QED BY <2>3, <2>4
<1>5. CASE ReadEnd
  <2>1. /\ UNCHANGED <<writePos, slots, writer, arrived, dropped>>
        /\ reader.at = "play" /\ played' = played \o reader.batch
    BY <1>5 DEF ReadEnd
  <2>2. reader'.at = "idle"
    BY <1>5, <1>v DEF ReadEnd
  <2>3. /\ Len(reader.batch) \in 0 .. Buffered /\ Buffered' = Buffered - Len(reader.batch)
    BY <1>5, EndEmpties
  <2>4. Len(played') = Len(played) + Len(reader.batch)
    <3>1. played \in Seq(0 .. MaxArrived) /\ reader.batch \in Seq(0 .. MaxArrived)
      BY RingFacts DEF RingInv
    <3> QED BY <2>1, <3>1, ConcatProperties
  <2>5. RoomKept'
    <3>1. writer.at # "idle" => writer.count + Buffered <= Size - 1
      BY <2>1 DEF RingInv, RoomKept
    <3>2. writer.at # "idle" => writer.count + Buffered' <= Size - 1
      BY <1>l, <2>3, <3>1
    <3>3. writer.at = "drop" => writer.count + Fill(writePos, writer.freeFrom) <= Size - 1
      BY <3>1 DEF RingInv, RoomKept, Buffered
    <3> QED BY <2>1, <2>2, <3>2, <3>3 DEF RoomKept, Fill
  <2>6. FrontRead'
    BY <2>2 DEF FrontRead
  <2>7. Accounted'
    BY <1>l, <2>1, <2>3, <2>4 DEF RingInv, Accounted
  <2> QED BY <2>5, <2>6, <2>7
<1> QED BY <1>1, <1>2, <1>3, <1>4, <1>5 DEF Callback

-----------------------------------------------------------------------------
LEMMA RingStart == Init => RingInv
<1> SUFFICES ASSUME Init PROVE RingInv
  OBVIOUS
<1>1. /\ writePos = Target /\ readPos = 0 /\ frac = 0 /\ arrived = 0
      /\ played = <<>> /\ dropped = 0 /\ slots = [p \in Positions |-> 0]
      /\ writer = [at |-> "idle", pos |-> 0, freeFrom |-> 0, count |-> 0, copied |-> 0]
      /\ reader = [at |-> "idle", pos |-> 0, available |-> 0, rate |-> Whole, left |-> 0,
                   batch |-> <<>>]
  BY DEF Init
<1>2. /\ Target \in Positions /\ 0 \in Positions /\ 0 \in 0 .. Size - 1
      /\ 0 \in 0 .. MaxArrived /\ 0 \in 0 .. Whole - 1 /\ Whole \in Nat
      /\ <<>> \in Seq(0 .. MaxArrived)
  BY DEF Positions
<1>3. writer \in WriterState
  BY <1>1, <1>2, WriterMade
<1>4. reader \in ReaderState
  BY <1>1, <1>2, ReaderMade
<1>5. RingTypes
  BY <1>1, <1>2, <1>3, <1>4 DEF RingTypes, TypeOK, LocalsHold
<1>6. Fill(Target, 0) = Target
  BY <1>2, Fills
<1>7. Accounted
  <2>1. Len(played) = 0 /\ Buffered = Target
    BY <1>1, <1>6 DEF Buffered
  <2> QED BY <1>1, <2>1 DEF Accounted
<1> QED BY <1>1, <1>5, <1>7 DEF RingInv, RoomKept, FrontRead

LEMMA RingKept == ~Overlap /\ RingInv /\ [Next]_vars => RingInv'
<1> SUFFICES ASSUME ~Overlap, RingInv, [Next]_vars PROVE RingInv'
  OBVIOUS
<1>1. CASE (\E n \in Payloads : WriteStart(n)) \/ WriteStep
  BY <1>1, WriterTypes, WriterKeeps DEF RingInv
<1>2. CASE Callback
  BY <1>2, ReaderTypes, ReaderKeeps DEF RingInv
<1>3. CASE UNCHANGED vars
  <2>1. RingTypes'
    BY <1>3 DEF vars, shared, history, RingInv, RingTypes, TypeOK, LocalsHold
  <2>2. RoomKept' /\ FrontRead' /\ Accounted'
    BY <1>3 DEF vars, shared, history, RingInv, RoomKept, FrontRead, Accounted, Buffered, Fill
  <2> QED BY <2>1, <2>2 DEF RingInv
<1> QED BY <1>1, <1>2, <1>3 DEF Next

-----------------------------------------------------------------------------
\* The ring as a queue.
QueueShape ==
  /\ Buffered \in 0 .. Size - 1
  /\ Contents \in Seq(0 .. MaxArrived) /\ Len(Contents) = Buffered
  /\ \A i \in 1 .. Buffered : Contents[i] = slots[(readPos + i - 1) % Size]

LEMMA ContentsSeq == RingInv => QueueShape
<1> SUFFICES ASSUME RingInv PROVE QueueShape
  OBVIOUS
<1>1. Buffered \in 0 .. Size - 1
  BY Levels
<1>2. slots \in [Positions -> 0 .. MaxArrived] /\ readPos \in Positions
  BY RingFacts DEF RingInv
<1>3. \A i \in 1 .. Buffered : slots[(readPos + i - 1) % Size] \in 0 .. MaxArrived
  <2> TAKE i \in 1 .. Buffered
  <2>1. readPos + i - 1 \in Int
    BY <1>1, <1>2 DEF Positions
  <2> DEFINE at == (readPos + i - 1) % Size
  <2>2. at \in Positions
    BY <2>1, AnyWraps
  <2> HIDE DEF at
  <2>3. slots[at] \in 0 .. MaxArrived
    BY <1>2, <2>2
  <2> QED BY <2>3 DEF at
<1>4. Contents = [i \in 1 .. Buffered |-> slots[(readPos + i - 1) % Size]] /\ Buffered \in Nat
  BY <1>1 DEF Contents, Buffered
<1> QED BY <1>1, <1>3, <1>4 DEF QueueShape

LEMMA ContentsNext == RingInv' => QueueShape'
BY ContentsSeq, PTL

LEMMA IsSubSeq ==
  ASSUME NEW S, NEW s \in Seq(S), NEW t \in Seq(S),
         NEW m \in Nat, NEW n \in Nat, m >= 1, n <= Len(s), Len(t) = n - m + 1,
         \A i \in 1 .. Len(t) : t[i] = s[m + i - 1]
  PROVE  t = SubSeq(s, m, n)
<1>1. Len(s) \in Nat /\ Len(t) \in Nat
  BY LenProperties
<1>2. \A i \in m .. n : s[i] \in S
  <2> TAKE i \in m .. n
  <2>1. i \in 1 .. Len(s)
    BY <1>1
  <2> QED BY <2>1, LenProperties
<1>3. /\ SubSeq(s, m, n) \in Seq(S) /\ Len(SubSeq(s, m, n)) = Len(t)
      /\ \A i \in 1 .. n - m + 1 : SubSeq(s, m, n)[i] = s[m + i - 1]
  <2>1. /\ SubSeq(s, m, n) \in Seq(S)
        /\ Len(SubSeq(s, m, n)) = IF m <= n THEN n - m + 1 ELSE 0
        /\ \A i \in 1 .. n - m + 1 : SubSeq(s, m, n)[i] = s[m + i - 1]
    BY <1>2, SubSeqProperties
  <2>2. (IF m <= n THEN n - m + 1 ELSE 0) = Len(t)
    BY <1>1
  <2> QED BY <2>1, <2>2
<1>4. \A i \in 1 .. Len(t) : t[i] = SubSeq(s, m, n)[i]
  BY <1>3
<1> QED BY <1>3, <1>4, SeqEqual

\* Advancing the read position drops from the front.
LEMMA FrontGone ==
  ASSUME RingInv, RingInv', slots' = slots, NEW k \in 0 .. Buffered,
         readPos' = (readPos + k) % Size, Buffered' = Buffered - k
  PROVE  Contents' = SubSeq(Contents, k + 1, Len(Contents))
<1>1. Buffered \in 0 .. Size - 1 /\ readPos \in Positions
  BY Levels, RingFacts DEF RingInv
<1>2. /\ Contents \in Seq(0 .. MaxArrived) /\ Len(Contents) = Buffered
      /\ \A i \in 1 .. Buffered : Contents[i] = slots[(readPos + i - 1) % Size]
  BY ContentsSeq DEF QueueShape
<1>3. /\ Contents' \in Seq(0 .. MaxArrived) /\ Len(Contents') = Buffered'
      /\ \A i \in 1 .. Buffered' : Contents'[i] = slots'[(readPos' + i - 1) % Size]
  BY ContentsNext DEF QueueShape
<1>4. \A i \in 1 .. Len(Contents') : Contents'[i] = Contents[(k + 1) + i - 1]
  <2> TAKE i \in 1 .. Len(Contents')
  <2>1. /\ i \in 1 .. Buffered - k /\ k + i \in 1 .. Buffered
        /\ k \in Nat /\ i - 1 \in Nat /\ k + (i - 1) < Size
    BY <1>1, <1>3
  <2>2. (((readPos + k) % Size) + (i - 1)) % Size = (readPos + (k + (i - 1))) % Size
    BY <1>1, <2>1, AddWraps
  <2>3. /\ readPos' + i - 1 = ((readPos + k) % Size) + (i - 1)
        /\ readPos + (k + i) - 1 = readPos + (k + (i - 1))
        /\ (k + 1) + i - 1 = k + i
    <3>1. readPos \in Int /\ k \in Int /\ i \in Int
      BY <1>1, <2>1 DEF Positions
    <3> QED BY <3>1
  <2>4. Contents'[i] = slots[(readPos + (k + i) - 1) % Size]
    BY <1>3, <2>1, <2>2, <2>3
  <2> QED BY <1>2, <2>1, <2>3, <2>4
<1>5. k + 1 \in Nat /\ Buffered \in Nat /\ Buffered - k = Buffered - (k + 1) + 1
  BY <1>1
<1> QED BY <1>2, <1>3, <1>4, <1>5, IsSubSeq

\* Advancing the write position appends.
LEMMA BackGrows ==
  ASSUME RingInv, RingInv', slots' = slots, readPos' = readPos, Buffered <= Buffered'
  PROVE  SubSeq(Contents', 1, Len(Contents)) = Contents
<1>1. Buffered \in 0 .. Size - 1 /\ Buffered' \in 0 .. Size - 1
  BY ContentsSeq, ContentsNext DEF QueueShape
<1>2. /\ Contents \in Seq(0 .. MaxArrived) /\ Len(Contents) = Buffered
      /\ \A i \in 1 .. Buffered : Contents[i] = slots[(readPos + i - 1) % Size]
  BY ContentsSeq DEF QueueShape
<1>3. /\ Contents' \in Seq(0 .. MaxArrived) /\ Len(Contents') = Buffered'
      /\ \A i \in 1 .. Buffered' : Contents'[i] = slots'[(readPos' + i - 1) % Size]
  BY ContentsNext DEF QueueShape
<1>4. \A i \in 1 .. Len(Contents) : Contents[i] = Contents'[1 + i - 1]
  <2> TAKE i \in 1 .. Len(Contents)
  <2>1. i \in 1 .. Buffered /\ i \in 1 .. Buffered' /\ 1 + i - 1 = i
    BY <1>1, <1>2
  <2> QED BY <1>2, <1>3, <2>1
<1>5. Buffered \in Nat /\ Buffered = Buffered - 1 + 1
  BY <1>1
<1>6. Len(Contents) <= Len(Contents') /\ Len(Contents) = Len(Contents) - 1 + 1
  BY <1>1, <1>2, <1>3
<1> QED BY <1>2, <1>3, <1>4, <1>5, <1>6, IsSubSeq

-----------------------------------------------------------------------------
\* Every step of the two threads is a step of the queue or none.

LEMMA QueueStutters ==
  ASSUME UNCHANGED <<writePos, readPos, slots, played>>
  PROVE  UNCHANGED Queue!vars
BY DEF Queue!vars, Contents, Fill

LEMMA QueueArrives ==
  ASSUME RingInv, RingInv', WritePublishes
  PROVE  Queue!Arrive
<1>1. slots' = slots /\ readPos' = readPos /\ played' = played
  BY DEF WritePublishes, history
<1>2. /\ writer.count \in 1 .. Size - 1 /\ Buffered' = Buffered + writer.count
      /\ writer.count + Buffered <= Size - 1
  BY PublishFills
<1>3. /\ Buffered \in 0 .. Size - 1 /\ Len(Contents) = Buffered /\ Len(Contents') = Buffered'
  BY ContentsSeq, ContentsNext DEF QueueShape
<1>4. Buffered <= Buffered'
  BY <1>2, <1>3
<1>5. SubSeq(Contents', 1, Len(Contents)) = Contents
  BY <1>1, <1>4, BackGrows
<1>6. Len(Contents') > Len(Contents) /\ Len(Contents') <= Size - 1
  BY <1>2, <1>3
<1> QED BY <1>1, <1>5, <1>6 DEF Queue!Arrive

LEMMA QueueDrops ==
  ASSUME RingInv, RingInv', WriteDrops
  PROVE  Queue!DropOldest \/ UNCHANGED Queue!vars
<1>1. slots' = slots /\ writePos' = writePos /\ played' = played
  BY DEF WriteDrops
<1>2. /\ Overflow \in 0 .. Buffered /\ readPos' = (readPos + Overflow) % Size
      /\ Buffered' = Buffered - Overflow
  BY DropsFill
<1>3. Buffered \in 0 .. Size - 1 /\ Len(Contents) = Buffered
  BY ContentsSeq DEF QueueShape
<1>4. CASE Overflow > 0
  <2>1. Contents' = SubSeq(Contents, Overflow + 1, Len(Contents))
    BY <1>1, <1>2, FrontGone
  <2>2. Overflow \in 1 .. Len(Contents)
    BY <1>2, <1>3, <1>4
  <2> QED BY <1>1, <2>1, <2>2 DEF Queue!DropOldest
<1>5. CASE Overflow = 0
  <2>1. readPos' = readPos
    BY <1>5 DEF WriteDrops
  <2> QED BY <1>1, <2>1, QueueStutters
<1> QED BY <1>2, <1>3, <1>4, <1>5

LEMMA QueuePlays ==
  ASSUME RingInv, RingInv', ReadEnd
  PROVE  Queue!Play \/ UNCHANGED Queue!vars
<1> DEFINE k == Len(reader.batch)
<1>1. /\ slots' = slots /\ writePos' = writePos /\ played' = played \o reader.batch
      /\ reader.at = "play"
  BY DEF ReadEnd
<1>2. k \in 0 .. Buffered /\ readPos' = (readPos + k) % Size /\ Buffered' = Buffered - k
  BY EndEmpties
<1>3. /\ Buffered \in 0 .. Size - 1
      /\ Contents \in Seq(0 .. MaxArrived) /\ Len(Contents) = Buffered
      /\ \A i \in 1 .. Buffered : Contents[i] = slots[(readPos + i - 1) % Size]
  BY ContentsSeq DEF QueueShape
<1>4. /\ reader.batch \in Seq(0 .. MaxArrived) /\ played \in Seq(0 .. MaxArrived)
      /\ readPos \in 0 .. Size - 1
  BY RingFacts DEF RingInv
<1>5. \A i \in 1 .. k : reader.batch[i] = slots[(readPos + i - 1) % Size]
  BY <1>1 DEF RingInv, FrontRead
<1>6. CASE k > 0
  <2>1. Contents' = SubSeq(Contents, k + 1, Len(Contents))
    BY <1>1, <1>2, FrontGone
  <2>2. \A i \in 1 .. k : reader.batch[i] = Contents[1 + i - 1]
    <3> TAKE i \in 1 .. k
    <3>1. i \in 1 .. Buffered /\ 1 + i - 1 = i
      BY <1>2, <1>3
    <3> QED BY <1>3, <1>5, <3>1
  <2>3. reader.batch = SubSeq(Contents, 1, k)
    <3>1. k \in Nat /\ k <= Len(Contents) /\ k = k - 1 + 1 /\ 1 \in Nat /\ 1 >= 1
      BY <1>2, <1>3
    <3> QED BY <1>3, <1>4, <2>2, <3>1, IsSubSeq
  <2>4. k \in 1 .. Len(Contents)
    BY <1>2, <1>3, <1>6
  <2>5. played' = played \o SubSeq(Contents, 1, k)
    BY <1>1, <2>3
  <2> HIDE DEF k
  <2> QED BY <2>1, <2>4, <2>5 DEF Queue!Play
<1>7. CASE k = 0
  <2>1. reader.batch = <<>>
    BY <1>4, <1>7, EmptySeq
  <2>2. played' = played
    BY <1>1, <1>4, <2>1
  <2>3. readPos' = readPos
    <3>1. readPos + k = readPos /\ readPos < Size /\ readPos \in 0 .. 2 * Size - 1
      BY <1>4, <1>7
    <3> QED BY <1>2, <3>1, Wraps
  <2> QED BY <1>1, <2>2, <2>3, QueueStutters
<1> QED BY <1>2, <1>3, <1>6, <1>7

LEMMA QueueStep == RingInv /\ RingInv' /\ [Next]_vars => [Queue!Next]_(Queue!vars)
<1> SUFFICES ASSUME RingInv, RingInv', [Next]_vars PROVE [Queue!Next]_(Queue!vars)
  OBVIOUS
<1> USE DEF shared, history
<1>1. CASE \E n \in Payloads : WriteStart(n)
  BY <1>1, QueueStutters DEF WriteStart
<1>2. CASE WriteLoadsRead
  BY <1>2, QueueStutters DEF WriteLoadsRead
<1>3. CASE WriteDrops
  BY <1>3, QueueDrops DEF Queue!Next
<1>4. CASE WriteCopies
  <2>1. UNCHANGED <<writePos, readPos, played, Buffered>>
    BY <1>4 DEF WriteCopies, Buffered
  <2>2. \A i \in 1 .. Buffered : slots'[(readPos + i - 1) % Size] = slots[(readPos + i - 1) % Size]
    BY <1>4, CopiesApart
  <2>3. Contents' = Contents
    BY <2>1, <2>2 DEF Contents, Buffered
  <2> QED BY <2>1, <2>3 DEF Queue!vars
<1>5. CASE WritePublishes
  BY <1>5, QueueArrives DEF Queue!Next
<1>6. CASE \E n \in Frames : ReadStart(n)
  BY <1>6, QueueStutters DEF ReadStart
<1>7. CASE ReadLoadsRead
  BY <1>7, QueueStutters DEF ReadLoadsRead
<1>8. CASE ReadSample
  BY <1>8, QueueStutters DEF ReadSample
<1>9. CASE ReadSilence
  BY <1>9, QueueStutters DEF ReadSilence
<1>10. CASE ReadEnd
  BY <1>10, QueuePlays DEF Queue!Next
<1>11. CASE UNCHANGED vars
  BY <1>11, QueueStutters DEF vars
<1> QED BY <1>1, <1>2, <1>3, <1>4, <1>5, <1>6, <1>7, <1>8, <1>9, <1>10, <1>11
        DEF Next, WriteStep, Callback

LEMMA QueueStart == Init => Queue!Init
<1> SUFFICES ASSUME Init PROVE Queue!Init
  OBVIOUS
<1>1. writePos = Target /\ readPos = 0 /\ slots = [p \in Positions |-> 0] /\ played = <<>>
  BY DEF Init
<1>2. Target \in Positions /\ 0 \in Positions /\ Target - 0 = Target /\ Target >= 0
  BY DEF Positions
<1>3. Fill(writePos, readPos) = Target
  BY <1>1, <1>2, Fills
<1>4. \A i \in 1 .. Target : slots[(readPos + i - 1) % Size] = 0
  <2> TAKE i \in 1 .. Target
  <2>1. readPos + i - 1 \in Int
    BY <1>1
  <2>2. (readPos + i - 1) % Size \in Positions
    BY <2>1, AnyWraps
  <2> QED BY <1>1, <2>2
<1>5. Contents = [i \in 1 .. Target |-> 0]
  BY <1>3, <1>4 DEF Contents
<1>6. Contents \in Seq({0}) /\ Len(Contents) = Target
  <2>1. Target \in Nat
    OBVIOUS
  <2> QED BY <1>5, <2>1
<1> QED BY <1>1, <1>6 DEF Queue!Init

-----------------------------------------------------------------------------
\* What the network thread does to the ring is a step of the ring.
LEMMA NetSteps == [NetNext]_allVars => [Next]_vars
BY DEF NetNext, allVars, Next, Receive

LEMMA RingHolds == ~Overlap => (NetSpec => []RingInv)
<1> SUFFICES ASSUME ~Overlap PROVE NetSpec => []RingInv
  OBVIOUS
<1>1. NetInit => RingInv
  BY RingStart DEF NetInit
<1>2. RingInv /\ [NetNext]_allVars => RingInv'
  BY RingKept, NetSteps
<1> QED BY <1>1, <1>2, PTL DEF NetSpec

\* Unless an overflowing write meets a callback, the ring buffer is a bounded
\* queue: what the callback plays is what was at its front, in the order of
\* arrival, and what is dropped for lack of room is the oldest (writeToRing
\* and onAudioReady).
THEOREM Implements == ~Overlap => (NetSpec => ImplementsQueue)
<1> SUFFICES ASSUME ~Overlap PROVE NetSpec => ImplementsQueue
  OBVIOUS
<1>1. NetInit => Queue!Init
  BY QueueStart DEF NetInit
<1>2. RingInv /\ RingInv' /\ [NetNext]_allVars => [Queue!Next]_(Queue!vars)
  BY QueueStep, NetSteps
<1>3. NetSpec => []RingInv
  BY RingHolds
<1> QED BY <1>1, <1>2, <1>3, PTL DEF NetSpec, ImplementsQueue, Queue!Spec

\* Unless an overflowing write meets a callback, a sample received is played,
\* dropped by an overflow or still in the ring.
THEOREM Kept == ~Overlap => (NetSpec => []LostOnlyToOverflow)
<1>1. RingInv => LostOnlyToOverflow
  <2> SUFFICES ASSUME RingInv, writer.at = "idle", reader.at = "idle"
               PROVE  Target + arrived <= Len(played) + dropped + Fill(writePos, readPos)
    BY DEF LostOnlyToOverflow
  <2>1. Buffered \in Int /\ arrived \in Nat /\ dropped \in Nat /\ Len(played) \in Nat
    BY Levels
  <2>2. Target + arrived = Len(played) + dropped + Buffered + 0
    BY DEF RingInv, Accounted
  <2>3. Target + arrived <= Len(played) + dropped + Buffered
    BY <2>1, <2>2
  <2> QED BY <2>3 DEF Buffered
<1> QED BY <1>1, RingHolds, PTL

-----------------------------------------------------------------------------
\* Types.

LEMMA Halves ==
  /\ Half \in Nat /\ Half >= 1 /\ 2 * Half \in Nat /\ 2 * Half >= 1
  /\ FirstSeq \in Nat /\ GapLimit \in Nat
  /\ Numbers \subseteq Int /\ IsFiniteSet(Numbers)
  /\ \A j, k \in Numbers : j .. k \subseteq Numbers /\ k - j <= Half
BY NetworkAssumption

LEMMA SignedRange ==
  ASSUME NEW n \in Int
  PROVE  Signed(n) \in -Half .. Half - 1
<1> DEFINE m == (n + Half) % (2 * Half)
<1>1. m \in 0 .. 2 * Half - 1
  <2> DEFINE w == 2 * Half
  <2>1. w \in Nat /\ w >= 1 /\ n + Half \in Int
    BY Halves
  <2> HIDE DEF w
  <2>2. (n + Half) % w \in 0 .. w - 1
    BY <2>1
  <2> QED BY <2>2 DEF w
<1> HIDE DEF m
<1>2. m - Half \in -Half .. Half - 1
  BY <1>1, Halves
<1> QED BY <1>2 DEF Signed, m

LEMMA SeqRange ==
  ASSUME NEW k \in Int
  PROVE  SeqOf(k) \in -Half .. Half - 1
BY SignedRange, Halves DEF SeqOf

LEMMA RingTypesKept == RingTypes /\ [Next]_vars => RingTypes'
<1> SUFFICES ASSUME RingTypes, [Next]_vars PROVE RingTypes'
  OBVIOUS
<1>1. CASE UNCHANGED vars
  BY <1>1 DEF vars, shared, history, RingTypes, TypeOK, LocalsHold
<1> QED BY <1>1, WriterTypes, ReaderTypes DEF Next

LEMMA LostIsNat ==
  ASSUME NEW k \in Int, lastSeq \in Int
  PROVE  Lost(k) \in Nat
<1>1. Gap(k) \in Int
  <2>1. SeqOf(k) - lastSeq - 1 \in Int
    BY SeqRange, Halves
  <2> QED BY <2>1, SignedRange, Halves DEF Gap
<1> QED BY <1>1 DEF Lost

\* The variables of the ring and of the network thread have their types,
\* whether or not an overflowing write may meet a callback: the positions stay
\* in the ring whatever the two threads store (networkThread, writeToRing and
\* onAudioReady).
THEOREM NetTypes == NetSpec => []NetTypeOK
<1> DEFINE I == RingTypes /\ NetTypeOK
<1>1. NetInit => I
  <2>1. Init => RingTypes
    BY RingStart DEF RingInv
  <2>2. -1 \in -Half .. Half - 1 /\ 0 \in Nat
    BY Halves
  <2> QED BY <2>1, <2>2 DEF NetInit, NetTypeOK, RingTypes
<1>2. I /\ [NetNext]_allVars => I'
  <2> SUFFICES ASSUME I, [NetNext]_allVars PROVE I'
    OBVIOUS
  <2>1. RingTypes'
    BY NetSteps, RingTypesKept
  <2>2. TypeOK'
    BY <2>1 DEF RingTypes
  <2>3. ASSUME NEW k \in Numbers, NEW n \in Payloads, Receive(k, n)
        PROVE  NetTypeOK'
    <3>1. k \in Int /\ lastSeq \in Int /\ lostPackets \in Nat
      BY Halves DEF NetTypeOK
    <3>2. lostPackets' \in Nat
      BY <2>3, <3>1, LostIsNat DEF Receive
    <3>3. lastSeq' \in -Half .. Half - 1
      BY <2>3, <3>1, SeqRange DEF Receive
    <3>4. seen' \subseteq Numbers
      BY <2>3 DEF Receive, NetTypeOK
    <3>5. inOrder' \in BOOLEAN /\ blind' \in BOOLEAN
      BY <2>3 DEF Receive, NetTypeOK
    <3> QED BY <2>2, <3>2, <3>3, <3>4, <3>5 DEF NetTypeOK
  <2>4. CASE UNCHANGED netVars
    <3>1. UNCHANGED <<lastSeq, lostPackets, seen, inOrder, blind>>
      BY <2>4 DEF netVars
    <3>2. /\ lastSeq \in -Half .. Half - 1 /\ lostPackets \in Nat
          /\ seen \subseteq Numbers /\ inOrder \in BOOLEAN /\ blind \in BOOLEAN
      BY DEF NetTypeOK
    <3> QED BY <2>1, <2>2, <3>1, <3>2 DEF NetTypeOK
  <2> QED BY <2>1, <2>3, <2>4 DEF NetNext, allVars
<1> QED BY <1>1, <1>2, PTL DEF NetSpec

-----------------------------------------------------------------------------
\* The count of losses.

\* A number that fits is its own signed value,
LEMMA SignedSame ==
  ASSUME NEW x \in -Half .. Half - 1
  PROVE  Signed(x) = x
<1> DEFINE w == 2 * Half
<1>1. x + Half \in 0 .. w - 1 /\ w \in Nat /\ w >= 1 /\ x \in Int /\ Half \in Int
  BY Halves
<1> HIDE DEF w
<1>2. (x + Half) % w = x + Half
  BY <1>1
<1>3. (x + Half) - Half = x
  BY <1>1
<1> QED BY <1>2, <1>3 DEF Signed, w

\* and a number apart from it by a multiple of the range.
LEMMA SignedApart ==
  ASSUME NEW n \in Int
  PROVE  \E q \in Int : n = Signed(n) + (2 * Half) * q
<1> DEFINE w == 2 * Half
<1>1. w \in Nat /\ w >= 1 /\ n + Half \in Int /\ Half \in Int
  BY Halves
<1> HIDE DEF w
<1> DEFINE m == (n + Half) % w
<1>p. w \in Int /\ w > 0
  BY <1>1
<1>2. \E q \in Int : n + Half = w * q + m
  BY <1>1, <1>p, Divides DEF m
<1>3. PICK q \in Int : n + Half = w * q + m
  BY <1>2
<1>4. m \in Int
  BY <1>1
<1> HIDE DEF m
<1> DEFINE p == w * q
<1>5. p \in Int /\ n + Half = p + m
  BY <1>1, <1>3
<1> HIDE DEF p
<1>7. n = (m - Half) + p
  BY <1>1, <1>4, <1>5
<1> QED BY <1>7 DEF Signed, m, p, w

LEMMA SmallMultiple ==
  ASSUME NEW w \in Nat, w >= 1, NEW d \in Int, -w < w * d, w * d < w
  PROVE  d = 0
<1>1. ~(d >= 1)
  OBVIOUS
<1>2. ~(d <= -1)
  OBVIOUS
<1> QED BY <1>1, <1>2

LEMMA SignedIs ==
  ASSUME NEW n \in Int, NEW x \in -Half .. Half - 1, NEW q \in Int, n = x + (2 * Half) * q
  PROVE  Signed(n) = x
<1> DEFINE w == 2 * Half
           y == Signed(n)
<1>1. w \in Nat /\ w >= 1 /\ y \in -Half .. Half - 1 /\ Half \in Nat /\ w = Half + Half
  BY Halves, SignedRange
<1>2. PICK p \in Int : n = y + w * p
  BY SignedApart
<1> HIDE DEF w, y
<1>3. n = x + w * q
  BY DEF w
<1>4. w * p \in Int /\ w * q \in Int /\ w * p - w * q = w * (p - q)
  BY <1>1
<1>5. w * (p - q) = x - y
  <2> DEFINE u == w * p
             v == w * q
             d == w * (p - q)
  <2>1. u \in Int /\ v \in Int /\ u - v = d /\ n = y + u /\ n = x + v
    BY <1>2, <1>3, <1>4
  <2> HIDE DEF u, v, d
  <2>2. d = x - y
    BY <1>1, <2>1
  <2> QED BY <2>2 DEF d
<1>6. p - q = 0
  <2> DEFINE e == p - q
  <2>1. e \in Int /\ w * e = x - y
    BY <1>5
  <2> HIDE DEF e
  <2>2. -w < w * e /\ w * e < w
    BY <1>1, <2>1
  <2>3. e = 0
    BY <1>1, <2>1, <2>2, SmallMultiple
  <2> QED BY <2>3 DEF e
<1>7. x = y
  <2>1. w * (p - q) = 0
    BY <1>1, <1>6
  <2> QED BY <1>1, <1>5, <2>1
<1> QED BY <1>7 DEF y

\* In order, the gap after datagram l is what is between, on either side of the
\* edge where numbers turn negative.
LEMMA GapInOrder ==
  ASSUME NEW l \in Numbers, NEW k \in Numbers, l < k, lastSeq = SeqOf(l)
  PROVE  Gap(k) = k - l - 1
<1> DEFINE w == 2 * Half
           a == SeqOf(l)
           b == SeqOf(k)
<1>1. /\ l \in Int /\ k \in Int /\ k - l <= Half
      /\ Half \in Nat /\ Half >= 1 /\ FirstSeq \in Nat /\ w \in Nat
  BY Halves
<1>2. a \in Int /\ b \in Int
  BY <1>1, SeqRange
<1>3. PICK q \in Int : FirstSeq + l = a + w * q
  <2>1. FirstSeq + l \in Int
    BY <1>1
  <2> QED BY <2>1, SignedApart DEF SeqOf
<1>4. PICK p \in Int : FirstSeq + k = b + w * p
  <2>1. FirstSeq + k \in Int
    BY <1>1
  <2> QED BY <2>1, SignedApart DEF SeqOf
<1>g. Gap(k) = Signed(b - a - 1)
  BY DEF Gap
<1> HIDE DEF w, a, b
<1>5. w * p \in Int /\ w * q \in Int /\ w * q - w * p = w * (q - p) /\ w * (q - p) \in Int
  BY <1>1
<1>6. b - a - 1 = (k - l - 1) + w * (q - p)
  <2> DEFINE u == w * p
             v == w * q
             d == w * (q - p)
  <2>1. u \in Int /\ v \in Int /\ d \in Int /\ v - u = d /\ FirstSeq + l = a + v
        /\ FirstSeq + k = b + u
    BY <1>3, <1>4, <1>5
  <2> HIDE DEF u, v, d
  <2>2. b - a - 1 = (k - l - 1) + d
    BY <1>1, <1>2, <2>1
  <2> QED BY <2>2 DEF d
<1>7. k - l - 1 \in -Half .. Half - 1
  BY <1>1
<1>8. Signed(b - a - 1) = k - l - 1
  <2>1. b - a - 1 \in Int /\ q - p \in Int
    BY <1>2
  <2>2. b - a - 1 = (k - l - 1) + (2 * Half) * (q - p)
    BY <1>6 DEF w
  <2> QED BY <1>7, <2>1, <2>2, SignedIs
<1> QED BY <1>g, <1>8

\* Numbers no more than half the range apart are told apart by their sequence
\* numbers, as long as those are in the lower half.
LEMMA SeqDistance ==
  ASSUME NEW j \in Numbers, NEW k \in Numbers, SeqOf(j) >= 0, SeqOf(k) >= 0
  PROVE  SeqOf(k) - SeqOf(j) = k - j
<1> DEFINE w == 2 * Half
           a == SeqOf(j)
           b == SeqOf(k)
<1>1. /\ j \in Int /\ k \in Int /\ k - j <= Half /\ j - k <= Half
      /\ Half \in Nat /\ Half >= 1 /\ FirstSeq \in Nat
  BY Halves
<1>2. a \in 0 .. Half - 1 /\ b \in 0 .. Half - 1
  BY <1>1, SeqRange
<1>3. PICK q \in Int : FirstSeq + j = a + w * q
  <2>1. FirstSeq + j \in Int
    BY <1>1
  <2> QED BY <2>1, SignedApart DEF SeqOf
<1>4. PICK p \in Int : FirstSeq + k = b + w * p
  <2>1. FirstSeq + k \in Int
    BY <1>1
  <2> QED BY <2>1, SignedApart DEF SeqOf
<1>5. w \in Nat /\ w = 2 * Half
  BY <1>1
<1> HIDE DEF w, a, b
<1>6. w * p \in Int /\ w * q \in Int /\ w * (p - q) \in Int
  BY <1>5
<1>7. k - j = (b - a) + (w * p - w * q)
  <2> DEFINE u == w * p
             v == w * q
  <2>1. /\ u \in Int /\ v \in Int /\ FirstSeq + j = a + v /\ FirstSeq + k = b + u
        /\ a \in Int /\ b \in Int
    BY <1>2, <1>3, <1>4, <1>6
  <2> HIDE DEF u, v
  <2>2. k - j = (b - a) + (u - v)
    BY <1>1, <2>1
  <2> QED BY <2>2 DEF u, v
<1>8. w * p - w * q = w * (p - q)
  BY <1>5
<1>9. -w < w * (p - q) /\ w * (p - q) < w
  BY <1>1, <1>2, <1>5, <1>6, <1>7, <1>8
<1>10. w * (p - q) = 0
  <2> DEFINE d == p - q
  <2>1. d \in Int
    OBVIOUS
  <2>2. -w < w * d /\ w * d < w
    BY <1>9
  <2> HIDE DEF d
  <2>3. d = 0
    <3>1. ~(d >= 1)
      BY <1>5, <2>1, <2>2
    <3>2. ~(d <= -1)
      BY <1>5, <2>1, <2>2
    <3> QED BY <2>1, <3>1, <3>2
  <2>4. w * d = 0
    BY <1>5, <2>3
  <2> QED BY <2>4 DEF d
<1>11. b - a = k - j
  BY <1>1, <1>2, <1>6, <1>7, <1>8, <1>10
<1> QED BY <1>11 DEF a, b

\* After datagram l, datagram k counts those between them.
LEMMA LostBetween ==
  ASSUME NEW l \in Numbers, NEW k \in Numbers, lastSeq = SeqOf(l), lastSeq >= 0,
         SeqOf(k) >= 0, Gap(k) < GapLimit
  PROVE  Lost(k) = IF k > l + 1 THEN k - l - 1 ELSE 0
<1>1. l \in Int /\ k \in Int /\ Half \in Nat
  BY Halves
<1>2. SeqOf(l) \in 0 .. Half - 1 /\ SeqOf(k) \in 0 .. Half - 1
  BY <1>1, SeqRange
<1>3. SeqOf(k) - SeqOf(l) = k - l
  BY SeqDistance
<1>4. SeqOf(k) - SeqOf(l) - 1 \in -Half .. Half - 1
  BY <1>1, <1>2
<1>5. Gap(k) = SeqOf(k) - SeqOf(l) - 1
  BY <1>4, SignedSame DEF Gap
<1>6. Gap(k) = k - l - 1
  BY <1>1, <1>2, <1>3, <1>5
<1> QED BY <1>1, <1>6 DEF Lost

LEMMA MissingFinite ==
  IsFiniteSet(Missing) /\ Cardinality(Missing) \in Nat
<1>1. Missing \in SUBSET Numbers
  BY DEF Missing
<1> QED BY <1>1, Halves, FS_Subset, FS_CardinalityType

LEMMA MissingNext ==
  IsFiniteSet(Missing') /\ Cardinality(Missing') \in Nat
<1>1. Missing' \in SUBSET Numbers
  BY DEF Missing
<1> QED BY <1>1, Halves, FS_Subset, FS_CardinalityType

\* When a datagram has come in after others, those now missing were missing, or
\* are between it and any one of those others.
LEMMA MissingGrows ==
  ASSUME NEW k \in Numbers, NEW l \in seen, seen \subseteq Numbers, seen' = seen \cup {k}
  PROVE  Missing' \subseteq Missing \cup (l + 1 .. k - 1)
<1> SUFFICES ASSUME NEW m \in Missing' PROVE m \in Missing \cup (l + 1 .. k - 1)
  OBVIOUS
<1>1. m \in Numbers /\ 0 < m /\ m \notin seen /\ \E j \in seen \cup {k} : m < j
  BY DEF Missing
<1>2. m \in Int /\ k \in Int /\ l \in Int /\ m # l
  BY <1>1, Halves
<1>3. CASE \E j \in seen : m < j
  BY <1>1, <1>3 DEF Missing
<1>4. CASE m < k
  <2>1. CASE m < l
    BY <1>1, <2>1 DEF Missing
  <2>2. CASE l < m
    BY <1>2, <1>4, <2>2
  <2> QED BY <1>2, <2>1, <2>2
<1> QED BY <1>1, <1>3, <1>4

LEMMA CountedFinite ==
  /\ IsFiniteSet(Counted) /\ Cardinality(Counted) \in Nat
  /\ IsFiniteSet(Counted') /\ Cardinality(Counted') \in Nat
<1>1. Counted \in SUBSET Numbers /\ Counted' \in SUBSET Numbers
  BY DEF Counted
<1> QED BY <1>1, Halves, FS_Subset, FS_CardinalityType

\* In order, what comes after the newest datagram l adds those between, if the
\* engine knows l's number and takes the gap for a loss.
Between(l, k) == IF SeqOf(l) >= 0 /\ k - l - 1 < GapLimit THEN l + 1 .. k - 1 ELSE {}

LEMMA CountedInOrder ==
  ASSUME NEW k \in Numbers, NEW l \in seen, seen \subseteq Numbers, seen' = seen \cup {k},
         \A j \in seen : j <= l, l < k
  PROVE  /\ Counted' = Counted \cup Between(l, k)
         /\ Counted \cap Between(l, k) = {}
<1>1. k \in Int /\ l \in Int /\ l .. k \subseteq Numbers /\ k \notin seen
      /\ \A j \in seen : j \in Int
  BY Halves
<1>s. \A j : SeqOf(j)' = SeqOf(j)
  BY DEF SeqOf, Signed
<1>2. ASSUME NEW m \in Counted PROVE m \in Counted' /\ m \notin Between(l, k)
  <2>1. PICK j \in seen, i \in seen :
          /\ j < m /\ m < i /\ seen \cap (j + 1 .. i - 1) = {}
          /\ SeqOf(j) >= 0 /\ i - j - 1 < GapLimit
    BY DEF Counted
  <2>2. m \in Numbers /\ m \in Int /\ i <= l /\ m < l
    BY <1>1, <2>1, Halves DEF Counted
  <2>3. seen' \cap (j + 1 .. i - 1) = {}
    BY <1>1, <2>1, <2>2
  <2>4. j \in seen' /\ i \in seen'
    OBVIOUS
  <2>5. m \in Counted'
    BY <1>s, <2>1, <2>2, <2>3, <2>4 DEF Counted
  <2> QED BY <1>1, <2>2, <2>5 DEF Between
<1>3. ASSUME NEW m \in Between(l, k) PROVE m \in Counted'
  <2>1. /\ m \in l + 1 .. k - 1 /\ SeqOf(l) >= 0 /\ k - l - 1 < GapLimit
    BY DEF Between
  <2>2. m \in Numbers /\ l < m /\ m < k
    BY <1>1, <2>1
  <2>3. seen' \cap (l + 1 .. k - 1) = {}
    BY <1>1
  <2>4. l \in seen' /\ k \in seen'
    OBVIOUS
  <2> QED BY <1>s, <2>1, <2>2, <2>3, <2>4 DEF Counted
<1>4. ASSUME NEW m \in Counted' PROVE m \in Counted \cup Between(l, k)
  <2>1. PICK j \in seen', i \in seen' :
          /\ j < m /\ m < i /\ seen' \cap (j + 1 .. i - 1) = {}
          /\ SeqOf(j) >= 0 /\ i - j - 1 < GapLimit
    BY <1>s DEF Counted
  <2>2. m \in Numbers /\ m \in Int /\ i <= k /\ i \in Int /\ j \in Int
    BY <1>1, Halves DEF Counted
  <2>3. j # k /\ j \in seen
    BY <1>1, <2>1, <2>2
  <2>4. CASE i \in seen
    BY <2>1, <2>2, <2>3, <2>4 DEF Counted
  <2>5. CASE i = k
    <3>1. l \notin j + 1 .. k - 1
      BY <2>1, <2>5
    <3>2. j = l
      BY <1>1, <2>2, <2>3, <3>1
    <3> QED BY <1>1, <2>1, <2>2, <2>5, <3>2 DEF Between
  <2> QED BY <2>4, <2>5
<1> QED BY <1>2, <1>3, <1>4

-----------------------------------------------------------------------------
\* A datagram that comes in after the first,

\* in order: what is counted is what is between;
LEMMA LossOrdered ==
  ASSUME LossInv, NetTypeOK, seen # {}, NEW k \in Numbers, NEW n \in Payloads, Receive(k, n),
         inOrder'
  PROVE  lostPackets' = Cardinality(Counted')
<1>1. /\ inOrder /\ \A j \in seen : j < k
      /\ lostPackets' = lostPackets + Lost(k) /\ seen' = seen \cup {k}
  BY DEF Receive
<1>2. /\ lostPackets = Cardinality(Counted)
      /\ \E l \in seen : lastSeq = SeqOf(l) /\ \A j \in seen : j <= l
  BY <1>1 DEF LossInv, LastReceived, LossCounted
<1>3. PICK l \in seen : lastSeq = SeqOf(l) /\ \A j \in seen : j <= l
  BY <1>2
<1>4. seen \subseteq Numbers /\ k \in Int /\ l \in Int /\ l \in Numbers /\ l < k
  BY <1>1, Halves DEF NetTypeOK
<1>5. /\ Counted' = Counted \cup Between(l, k)
      /\ Counted \cap Between(l, k) = {}
  BY <1>1, <1>3, <1>4, CountedInOrder
<1>6. Gap(k) = k - l - 1
  BY <1>3, <1>4, GapInOrder
<1>7. /\ IsFiniteSet(Between(l, k)) /\ Cardinality(Between(l, k)) = Lost(k)
      /\ Lost(k) \in Nat
  <2>1. CASE SeqOf(l) >= 0 /\ k - l - 1 < GapLimit
    <3>1. l + 1 \in Int /\ k - 1 \in Int
      BY <1>4
    <3>2. /\ IsFiniteSet(l + 1 .. k - 1)
          /\ Cardinality(l + 1 .. k - 1) = IF l + 1 > k - 1 THEN 0 ELSE (k - 1) - (l + 1) + 1
      BY <3>1, FS_Interval
    <3>3. (IF l + 1 > k - 1 THEN 0 ELSE (k - 1) - (l + 1) + 1) = Lost(k) /\ Lost(k) \in Nat
      BY <1>3, <1>4, <1>6, <2>1 DEF Lost
    <3> QED BY <2>1, <3>2, <3>3 DEF Between
  <2>2. CASE ~(SeqOf(l) >= 0 /\ k - l - 1 < GapLimit)
    <3>1. Lost(k) = 0
      BY <1>3, <1>6, <2>2 DEF Lost
    <3>2. Between(l, k) = {}
      BY <2>2 DEF Between
    <3> QED BY <3>1, <3>2, FS_EmptySet
  <2> QED BY <2>1, <2>2
<1>8. Cardinality(Counted') = Cardinality(Counted) + Lost(k)
  <2> DEFINE new == Between(l, k)
  <2> HIDE DEF new
  <2>1. Counted' = Counted \cup new /\ Counted \cap new = {}
        /\ IsFiniteSet(new) /\ Cardinality(new) = Lost(k) /\ Lost(k) \in Nat
    BY <1>5, <1>7 DEF new
  <2>2. Cardinality(Counted \cup new)
          = Cardinality(Counted) + Cardinality(new) - Cardinality(Counted \cap new)
    BY <2>1, CountedFinite, FS_Union
  <2>3. Cardinality(Counted \cap new) = 0
    BY <2>1, FS_EmptySet
  <2>4. Cardinality(Counted) \in Nat
    BY CountedFinite
  <2> QED BY <2>1, <2>2, <2>3, <2>4
<1> QED BY <1>1, <1>2, <1>8

\* out of order: not less than what it leaves missing.
LEMMA LossUnordered ==
  ASSUME LossInv, NetTypeOK, seen # {}, NEW k \in Numbers, NEW n \in Payloads, Receive(k, n),
         ~blind'
  PROVE  Cardinality(Missing') <= lostPackets'
<1>1. /\ ~blind /\ lastSeq >= 0 /\ 0 \in seen /\ Cardinality(Missing) <= lostPackets
      /\ lostPackets' = lostPackets + Lost(k) /\ seen' = seen \cup {k}
  BY DEF LossInv, LastReceived, LossCounted, Receive
<1>2. PICK l \in seen : lastSeq = SeqOf(l)
  BY DEF LossInv, LastReceived
<1>3. /\ seen \subseteq Numbers /\ lostPackets \in Nat
      /\ k \in Int /\ l \in Int /\ l \in Numbers
  BY Halves DEF NetTypeOK
<1>4. SeqOf(k) >= 0 /\ Gap(k) < GapLimit
  <2>1. SeqOf(k) \in Int /\ SeqOf(k) - lastSeq - 1 \in Int
    BY <1>2, <1>3, SeqRange, Halves
  <2>2. Gap(k) \in Int /\ GapLimit \in Int
    BY <2>1, SignedRange, Halves DEF Gap
  <2>3. ~(SeqOf(k) < 0) /\ ~(Gap(k) >= GapLimit)
    BY <1>1 DEF Receive
  <2> QED BY <2>1, <2>2, <2>3
<1>5. Lost(k) = IF k > l + 1 THEN k - l - 1 ELSE 0
  BY <1>1, <1>2, <1>3, <1>4, LostBetween
<1>6. /\ IsFiniteSet(l + 1 .. k - 1)
      /\ Cardinality(l + 1 .. k - 1) = Lost(k) /\ Lost(k) \in Nat
  <2>1. l + 1 \in Int /\ k - 1 \in Int
    BY <1>3
  <2>2. /\ IsFiniteSet(l + 1 .. k - 1)
        /\ Cardinality(l + 1 .. k - 1) = IF l + 1 > k - 1 THEN 0 ELSE (k - 1) - (l + 1) + 1
    BY <2>1, FS_Interval
  <2>3. (IF l + 1 > k - 1 THEN 0 ELSE (k - 1) - (l + 1) + 1) = Lost(k) /\ Lost(k) \in Nat
    BY <1>3, <1>5
  <2> QED BY <2>2, <2>3
<1> DEFINE between == l + 1 .. k - 1
           both == Missing \cup between
<1>7. /\ IsFiniteSet(both)
      /\ Cardinality(both)
           = Cardinality(Missing) + Cardinality(between) - Cardinality(Missing \cap between)
  BY <1>6, MissingFinite, FS_Union
<1>8. Cardinality(Missing \cap between) \in Nat
  <2>1. Missing \cap between \in SUBSET Missing
    OBVIOUS
  <2> HIDE DEF between
  <2> QED BY <2>1, MissingFinite, FS_Subset, FS_CardinalityType
<1>9. Cardinality(Missing') <= Cardinality(both) /\ Cardinality(Missing') \in Nat
  <2>1. Missing' \in SUBSET both
    BY <1>1, <1>3, MissingGrows
  <2> HIDE DEF both
  <2> QED BY <1>7, <2>1, FS_Subset, MissingNext
<1>10. Cardinality(Missing) \in Nat
  BY MissingFinite
<1> DEFINE cm == Cardinality(Missing)
           cb == Cardinality(between)
           ci == Cardinality(Missing \cap between)
           cu == Cardinality(both)
           cn == Cardinality(Missing')
<1>11. /\ cn \in Nat /\ cm \in Nat /\ ci \in Nat /\ cb \in Nat /\ cb = Lost(k)
       /\ cu = (cm + cb) - ci /\ cn <= cu /\ cm <= lostPackets
  BY <1>1, <1>6, <1>7, <1>8, <1>9, <1>10
<1> HIDE DEF cm, cb, ci, cu, cn
<1>12. cn <= lostPackets + Lost(k)
  BY <1>3, <1>11
<1> QED BY <1>1, <1>12 DEF cn

LEMMA LossStep ==
  ASSUME LossInv, NetTypeOK, seen # {}, NEW k \in Numbers, NEW n \in Payloads, Receive(k, n)
  PROVE  LossInv'
<1>1. LossCounted'
  BY LossOrdered, LossUnordered DEF LossCounted
<1>2. /\ 0 \in seen /\ seen' = seen \cup {k} /\ lastSeq' = SeqOf(k)
      /\ inOrder' => \A j \in seen : j < k
      /\ ~blind' => ~(SeqOf(k) < 0)
  BY DEF LossInv, LastReceived, Receive
<1>3. k \in Int /\ SeqOf(k) \in Int /\ \A j \in seen : j \in Int
  BY SeqRange, Halves DEF NetTypeOK
<1>4. SeqOf(k)' = SeqOf(k)
  BY DEF SeqOf, Signed
<1>5. k \in seen' /\ 0 \in seen' /\ (~blind' => lastSeq' >= 0)
      /\ (inOrder' => \A j \in seen' : j <= k)
  BY <1>2, <1>3
<1>6. LastReceived'
  BY <1>2, <1>4, <1>5 DEF LastReceived
<1> QED BY <1>1, <1>6 DEF LossInv

\* The first one is never after a gap, whatever its number.
LEMMA LossFirst ==
  ASSUME LossInv, NetTypeOK, seen = {}, NEW k \in Numbers, NEW n \in Payloads, Receive(k, n)
  PROVE  LossInv'
<1>1. /\ k = 0 /\ seen' = {0} /\ lastSeq' = SeqOf(0)
      /\ lostPackets' = lostPackets + Lost(k)
      /\ ~blind' => ~(SeqOf(0) < 0)
  BY DEF Receive
<1>2. lostPackets' = 0
  <2>1. lostPackets = 0 /\ lastSeq = -1
    BY DEF LossInv, LastReceived
  <2>2. Lost(k) = 0
    BY <2>1 DEF Lost
  <2> QED BY <1>1, <2>1, <2>2
<1>3. Missing' = {} /\ Counted' = {}
  <2>1. ASSUME NEW m \in Missing' PROVE FALSE
    <3>1. m \in Numbers /\ 0 < m /\ \E j \in {0} : m < j
      BY <1>1 DEF Missing
    <3> QED BY <3>1, Halves
  <2>2. ASSUME NEW m \in Counted' PROVE FALSE
    <3>1. m \in Numbers /\ \E j, i \in {0} : j < m /\ m < i
      BY <1>1 DEF Counted
    <3> QED BY <3>1, Halves
  <2> QED BY <2>1, <2>2
<1>4. Cardinality(Missing') = 0 /\ Cardinality(Counted') = 0
  BY <1>3, FS_EmptySet
<1>5. LossCounted'
  BY <1>2, <1>4 DEF LossCounted
<1>6. LastReceived'
  <2>1. SeqOf(0) \in Int
    BY SeqRange, Halves
  <2>2. SeqOf(0)' = SeqOf(0)
    BY DEF SeqOf, Signed
  <2>3. seen' # {} /\ 0 \in seen' /\ (\A j \in seen' : j <= 0) /\ (~blind' => lastSeq' >= 0)
    BY <1>1, <2>1
  <2> QED BY <1>1, <2>2, <2>3 DEF LastReceived
<1> QED BY <1>5, <1>6 DEF LossInv

\* For any first number and across the edge where numbers turn negative, what
\* the statistics of networkThread show as lost is what is missing between
\* datagrams in order, and out of order never less than what is missing.
THEOREM Losses == NetSpec => []LossCounted
<1>1. NetInit => LossInv
  <2> SUFFICES ASSUME NetInit PROVE LossInv
    OBVIOUS
  <2>1. seen = {} /\ lostPackets = 0 /\ lastSeq = -1
    BY DEF NetInit
  <2>2. Missing = {} /\ Counted = {}
    BY <2>1 DEF Missing, Counted
  <2>3. Cardinality(Missing) = 0 /\ Cardinality(Counted) = 0
    BY <2>2, FS_EmptySet
  <2> QED BY <2>1, <2>3 DEF LossInv, LastReceived, LossCounted
<1>2. LossInv /\ NetTypeOK /\ [NetNext]_allVars => LossInv'
  <2> SUFFICES ASSUME LossInv, NetTypeOK, [NetNext]_allVars PROVE LossInv'
    OBVIOUS
  <2>1. ASSUME NEW k \in Numbers, NEW n \in Payloads, Receive(k, n) PROVE LossInv'
    BY <2>1, LossFirst, LossStep
  <2>2. CASE UNCHANGED netVars
    BY <2>2 DEF netVars, LossInv, LastReceived, LossCounted, Missing, Counted, SeqOf, Signed
  <2> QED BY <2>1, <2>2 DEF NetNext, allVars
<1>3. LossInv => LossCounted
  BY DEF LossInv
<1> QED BY <1>1, <1>2, <1>3, NetTypes, PTL DEF NetSpec

=============================================================================
