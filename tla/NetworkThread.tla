--------------------------- MODULE NetworkThread ---------------------------
(***************************************************************************)
(* The Android engine's network thread (networkThread of                   *)
(* audio_engine.cpp): it counts the datagrams that are missing, and writes *)
(* the others to the ring.                                                 *)
(*                                                                         *)
(* The network is external: it loses, repeats and reorders datagrams.      *)
(* They have the numbers the server gave them (seq of src/udp_sender.rs),  *)
(* counted here from the first one that is received, whose own is FirstSeq.*)
(***************************************************************************)
EXTENDS AudioRing, Integers, FiniteSets

CONSTANTS
  Half,      \* 2^31: half the range of a sequence number
  FirstSeq,  \* sequence number of the first datagram received
  GapLimit,  \* a gap from here on is taken for a restart (1000)
  Numbers    \* bound on the numbers of the datagrams: no more than half the range

ASSUME NetworkAssumption ==
  /\ Half \in Nat \ {0}
  /\ FirstSeq \in 0 .. 2 * Half - 1
  /\ GapLimit \in Nat
  /\ Numbers \subseteq Int /\ IsFiniteSet(Numbers)
  /\ \A j, k \in Numbers : j .. k \subseteq Numbers /\ k - j <= Half

VARIABLES
  lastSeq,     \* mLastSeq
  lostPackets, \* mLostPackets
  seen,        \* history: the numbers received
  inOrder,     \* history: each number received was above all before it
  blind        \* history: a number was in the upper half, which is negative to
               \* the engine, or came after a gap it takes for a restart

netVars == <<lastSeq, lostPackets, seen, inOrder, blind>>
allVars == <<vars, netVars>>

NetTypeOK ==
  /\ TypeOK
  /\ lastSeq \in -Half .. Half - 1
  /\ lostPackets \in Nat
  /\ seen \subseteq Numbers
  /\ inOrder \in BOOLEAN
  /\ blind \in BOOLEAN

NetInit ==
  /\ Init
  /\ lastSeq = -1 /\ lostPackets = 0
  /\ seen = {} /\ inOrder = TRUE /\ blind = FALSE

\* static_cast<int32_t> of a number modulo 2^32.
Signed(n) == ((n + Half) % (2 * Half)) - Half

SeqOf(k) == Signed(FirstSeq + k)

\* Seeded bug: off by one.
GapAll(k) == Signed(SeqOf(k) - lastSeq)

\* The difference wraps: what its overflow gives in the build.
Gap(k) == Signed(SeqOf(k) - lastSeq - 1)

\* No gap before the first datagram, nor after one whose number is negative.
Lost(k) == IF lastSeq >= 0 /\ Gap(k) > 0 /\ Gap(k) < GapLimit THEN Gap(k) ELSE 0

\* Datagram k comes in: count, remember its number, and write its n samples.
\* (One that is too short, a timeout and an error change nothing.)
Receive(k, n) ==
  /\ seen = {} => k = 0
  /\ WriteStart(n)
  /\ lostPackets' = lostPackets + Lost(k)
  /\ lastSeq' = SeqOf(k)
  /\ seen' = seen \cup {k}
  /\ inOrder' = (inOrder /\ \A j \in seen : j < k)
  /\ blind' = (blind \/ SeqOf(k) < 0 \/ (lastSeq >= 0 /\ Gap(k) >= GapLimit))

NetNext ==
  \/ \E k \in Numbers, n \in Payloads : Receive(k, n)
  \/ (WriteStep \/ Callback) /\ UNCHANGED netVars

NetSpec == NetInit /\ [][NetNext]_allVars

-----------------------------------------------------------------------------
Missing == {k \in Numbers : 0 < k /\ k \notin seen /\ \E j \in seen : k < j}

\* The datagrams missing between two that were received one after the other in
\* order, the first of them with a number in the lower half, and fewer than the
\* engine takes for a restart.
Counted ==
  {k \in Numbers : \E j, i \in seen :
     /\ j < k /\ k < i
     /\ seen \cap (j + 1 .. i - 1) = {}
     /\ SeqOf(j) >= 0 /\ i - j - 1 < GapLimit}

\* What the statistics show as lost.  In order it is exactly the number of the
\* datagrams missing so, whatever number the server was at when the session
\* began, and across the edge where numbers turn negative to the engine.  Out of
\* order, or with repeats, it is never less than what is missing since the
\* first, unless the engine saw a negative number or took a gap for a restart.
LossCounted ==
  /\ inOrder => lostPackets = Cardinality(Counted)
  /\ ~blind => Cardinality(Missing) <= lostPackets
=============================================================================
