--------------------------- MODULE PacedUdpProofs ---------------------------
(***************************************************************************)
(* What PacedUdp guarantees for every frame size, burst, lag and lateness: *)
(* its types and, when the backlog cap is ample, that the pacer never      *)
(* discards a sample.                                                      *)
(***************************************************************************)
EXTENDS PacedUdp, SequenceTheorems, TLAPS

\* The channel's queue of a listener is a sequence of chunks.
LEMMA QueuedType ==
  ASSUME ChannelTypeOK, NEW l \in Listeners, NEW n \in Nat
  PROVE  /\ Queued(l, [after |-> captured, len |-> n]) \in Seq(Chunks)
         /\ Len(Queued(l, [after |-> captured, len |-> n])) <= Cap
<1> DEFINE c == [after |-> captured, len |-> n]
           s == unread[l]
<1>1. c \in Chunks /\ s \in Seq(Chunks) /\ Len(s) <= Cap /\ Cap \in Nat \ {0}
  BY ChannelAssumption DEF ChannelTypeOK, Chunks
<1>2. CASE Full(l)
  <2>1. s # <<>> /\ Tail(s) \in Seq(Chunks) /\ Len(Tail(s)) = Cap - 1
    BY <1>1, <1>2 DEF Full
  <2>2. QED
    BY <1>1, <1>2, <2>1 DEF Queued
<1>3. CASE ~Full(l)
  BY <1>1, <1>3 DEF Queued, Full
<1>4. QED
  BY <1>2, <1>3

\* The channel's operations keep its types, whichever listener they serve.
LEMMA ChannelTypes ==
  ASSUME ChannelTypeOK, NEW l \in Listeners, NEW n \in Nat,
         \/ Publish(n) \/ Subscribe(l) \/ Receive(l) \/ ReceiveLagged(l)
         \/ UNCHANGED channelVars
  PROVE  ChannelTypeOK'
<1> USE ChannelAssumption DEF ChannelTypeOK
<1>1. CASE Publish(n)
  BY <1>1, QueuedType DEF Publish
<1>2. CASE Subscribe(l) \/ ReceiveLagged(l)
  BY <1>2 DEF Subscribe, ReceiveLagged
<1>3. CASE Receive(l)
  <2>1. /\ Tail(unread[l]) \in Seq(Chunks)
        /\ Len(Tail(unread[l])) <= Cap
    BY <1>3 DEF Receive
  <2>2. QED
    BY <1>3, <2>1 DEF Receive
<1>4. CASE UNCHANGED channelVars
  BY <1>4 DEF channelVars
<1>5. QED
  BY <1>1, <1>2, <1>3, <1>4

\* What the pump and the pacer do to the buffers.
LEMMA PumpTypes ==
  ASSUME ChannelTypeOK, UdpTypeOK, PumpChunk
  PROVE  /\ UdpTypeOK' /\ Head(unread[Udp]) \in Chunks
         /\ Len(pcm') = Len(pcm) + Head(unread[Udp]).len
<1> DEFINE c == Head(unread[Udp])
<1>1. c \in Chunks
  BY UdpAssumption DEF ChannelTypeOK, PumpChunk, Receive
<1>2. Samples(c) \in Seq(Nat) /\ Len(Samples(c)) = c.len
  BY <1>1 DEF Samples, Chunks
<1> HIDE DEF c
<1>3. pcm' = pcm \o Samples(c)
  BY DEF PumpChunk, c
<1>4. pcm' \in Seq(Nat) /\ Len(pcm') = Len(pcm) + c.len
  BY <1>2, <1>3, ConcatProperties DEF UdpTypeOK
<1>5. QED
  BY <1>1, <1>4 DEF UdpTypeOK, PumpChunk, c

LEMMA PacerTypes ==
  ASSUME UdpTypeOK, PacerFrame
  PROVE  UdpTypeOK'
<1> USE UdpAssumption DEF UdpTypeOK
<1>1. Excess \in Nat /\ Excess + Frame <= Len(pcm)
  <2>1. MaxBuf \in Nat /\ MaxBuf >= Frame
    BY DEF MaxBuf
  <2>2. QED
    BY <2>1 DEF Excess, PacerFrame
<1>2. SubSeq(pcm, Excess + 1, Excess + Frame) \in Seq(Nat)
  BY <1>1
<1>3. SubSeq(pcm, Excess + Frame + 1, Len(pcm)) \in Seq(Nat)
  BY <1>1
<1>4. QED
  BY <1>2, <1>3 DEF PacerFrame

\* Every variable keeps its type: in particular the pacer is never more than
\* Late behind its schedule, and the device holds at most MaxBurst samples.
THEOREM PacedTypeCorrect == Spec => []TypeOK
<1> USE ChannelAssumption, UdpAssumption, PaceAssumption
<1>1. Init => TypeOK
  <2> SUFFICES ASSUME Init PROVE TypeOK
    OBVIOUS
  <2>1. ChannelTypeOK
    <3>1. <<>> \in Seq(Chunks) /\ Len(<<>>) = 0
      OBVIOUS
    <3>2. unread \in [Listeners -> Seq(Chunks)] /\ \A l \in Listeners : unread[l] = <<>>
      BY <3>1 DEF Init, ChannelInit
    <3>3. QED
      BY <3>1, <3>2 DEF Init, ChannelInit, ChannelTypeOK
  <2>2. UdpTypeOK
    <3>1. <<>> \in Seq(Nat)
      OBVIOUS
    <3>2. QED
      BY <3>1 DEF Init, UdpInit, UdpTypeOK
  <2>3. QED
    BY <2>1, <2>2 DEF Init, TypeOK
<1>2. TypeOK /\ [Next]_vars => TypeOK'
  <2> SUFFICES ASSUME TypeOK, [Next]_vars PROVE TypeOK'
    OBVIOUS
  <2> USE DEF TypeOK
  <2>1. CASE Start
    BY <2>1, ChannelTypes DEF Start, udpVars, paceVars, UdpTypeOK
  <2>2. ASSUME NEW n \in ChunkSizes, Deliver(n) PROVE TypeOK'
    <3>1. n \in Nat /\ owed - n \in 0 .. MaxBurst
      BY <2>2 DEF Deliver
    <3>2. ChannelTypeOK'
      BY <2>2, <3>1, ChannelTypes DEF Deliver
    <3>3. QED
      BY <2>2, <3>1, <3>2 DEF Deliver, udpVars, UdpTypeOK
  <2>3. CASE CaptureStops
    BY <2>3, ChannelTypes DEF CaptureStops, udpVars, UdpTypeOK
  <2>4. CASE PumpStep
    <3>1. ChannelTypeOK'
      BY <2>4, ChannelTypes DEF PumpStep, Pump, PumpChunk, PumpLagged
    <3>2. UdpTypeOK'
      BY <2>4, PumpTypes DEF PumpStep, Pump, PumpLagged, udpVars, UdpTypeOK
    <3>3. QED
      BY <2>4, <3>1, <3>2 DEF PumpStep, paceVars
  <2>5. CASE Send
    BY <2>5, ChannelTypes, PacerTypes DEF Send, PacerFrame
  <2>6. CASE Starve
    BY <2>6, ChannelTypes DEF Starve, PacerStarved, udpVars, UdpTypeOK
  <2>7. CASE Tick
    BY <2>7, ChannelTypes DEF Tick, Elapse, udpVars, UdpTypeOK
  <2>8. CASE UNCHANGED vars
    BY <2>8, ChannelTypes DEF vars, paceVars, udpVars, UdpTypeOK
  <2>9. QED
    BY <2>1, <2>2, <2>3, <2>4, <2>5, <2>6, <2>7, <2>8 DEF Next
<1>3. QED
  BY <1>1, <1>2, PTL DEF Spec
-----------------------------------------------------------------------------
\* A chunk sent puts a listener behind by at most its samples: what it pushes
\* out of a full channel is older than what stays.
LEMMA PublishBehind ==
  ASSUME ChannelTypeOK, NEW l \in Listeners, NEW n \in Nat, Publish(n),
         UnreadOrdered(l), l \notin subscribed => unread[l] = <<>>
  PROVE  /\ UnreadOrdered(l)' /\ (l \notin subscribed => unread[l] = <<>>)'
         /\ Behind(l) \in Nat /\ Behind(l)' \in Nat
         /\ Behind(l)' <= Behind(l) + n
<1> DEFINE s == unread[l]
           c == [after |-> captured, len |-> n]
           t == IF Full(l) THEN Tail(s) ELSE s
<1>1. /\ s \in Seq(Chunks) /\ captured \in Nat /\ c \in Chunks
      /\ c.after = captured /\ c.len = n /\ Cap \in Nat \ {0}
  BY ChannelAssumption DEF ChannelTypeOK, Chunks
<1>2. \A x \in Chunks : x.after \in Nat /\ x.len \in Nat
  BY DEF Chunks
<1>3. CASE l \notin subscribed
  <2>1. unread'[l] = <<>> /\ captured' = captured + n /\ subscribed' = subscribed
    BY <1>3 DEF Publish
  <2>2. QED
    BY <1>1, <1>3, <2>1 DEF UnreadOrdered, Behind
<1>4. CASE l \in subscribed
  <2>1. /\ unread'[l] = Append(t, c) /\ captured' = captured + n
        /\ subscribed' = subscribed
    BY <1>4 DEF Publish, Queued
  <2>2. /\ t \in Seq(Chunks)
        /\ \A i \in 1 .. Len(t) : \E k \in 1 .. Len(s) : t[i] = s[k]
        /\ \A i, j \in 1 .. Len(t) : i < j => t[i].after + t[i].len <= t[j].after
    <3>1. CASE Full(l)
      <4>1. s # <<>> /\ Len(t) = Len(s) - 1 /\ t \in Seq(Chunks)
            /\ \A i \in 1 .. Len(t) : t[i] = s[i + 1]
        BY <1>1, <3>1 DEF Full
      <4> HIDE DEF t
      <4>2. \A i \in 1 .. Len(t) : i + 1 \in 1 .. Len(s)
        BY <1>1, <4>1
      <4>3. QED
        <5>1. \A i \in 1 .. Len(t) : \E k \in 1 .. Len(s) : t[i] = s[k]
          BY <4>1, <4>2
        <5>2. ASSUME NEW i \in 1 .. Len(t), NEW j \in 1 .. Len(t), i < j
              PROVE t[i].after + t[i].len <= t[j].after
          <6>1. i + 1 \in 1 .. Len(s) /\ j + 1 \in 1 .. Len(s) /\ i + 1 < j + 1
            BY <4>2, <5>2
          <6>2. s[i + 1].after + s[i + 1].len <= s[j + 1].after
            BY <6>1 DEF UnreadOrdered
          <6>3. QED
            BY <4>1, <6>2
        <5>3. QED
          BY <4>1, <5>1, <5>2
    <3>2. CASE ~Full(l)
      BY <1>1, <3>2 DEF UnreadOrdered
    <3>3. QED
      BY <3>1, <3>2
  <2>3. \A i \in 1 .. Len(t) : t[i].after + t[i].len <= captured
    BY <2>2 DEF UnreadOrdered
  <2>4. Behind(l) \in Nat /\ \A i \in 1 .. Len(s) : captured - s[i].after <= Behind(l)
    <3>1. CASE s = <<>>
      BY <1>1, <3>1 DEF Behind
    <3>2. CASE s # <<>>
      <4>1. Head(s) = s[1] /\ 1 \in 1 .. Len(s) /\ \A i \in 1 .. Len(s) : s[i] \in Chunks
        BY <1>1, <3>2
      <4>2. \A i \in 1 .. Len(s) : s[1].after <= s[i].after
        BY <1>2, <4>1 DEF UnreadOrdered
      <4>3. QED
        BY <1>1, <1>2, <3>2, <4>1, <4>2 DEF UnreadOrdered, Behind
    <3>3. QED
      BY <3>1, <3>2
  <2> HIDE DEF t, c
  <2> DEFINE u == unread'[l]
  <2>5. /\ Len(u) = Len(t) + 1 /\ u # <<>> /\ Head(u) = u[1]
        /\ \A i \in 1 .. Len(t) : u[i] = t[i]
        /\ u[Len(t) + 1] = c
    BY <1>1, <2>1, <2>2
  <2> HIDE DEF u
  <2>6. UnreadOrdered(l)'
    <3>1. \A i \in 1 .. Len(t) : t[i] \in Chunks
      BY <2>2
    <3>2. \A i \in 1 .. Len(u) : u[i].after + u[i].len <= captured + n
      <4>1. ASSUME NEW i \in 1 .. Len(t) PROVE u[i].after + u[i].len <= captured + n
        <5>1. t[i].after \in Nat /\ t[i].len \in Nat /\ u[i] = t[i]
          BY <1>2, <2>5, <3>1
        <5>2. t[i].after + t[i].len <= captured
          BY <2>3
        <5>3. QED
          BY <1>1, <5>1, <5>2
      <4>2. u[Len(t) + 1].after + u[Len(t) + 1].len <= captured + n
        BY <1>1, <2>5
      <4>3. QED
        BY <2>2, <2>5, <4>1, <4>2
    <3>3. \A i, j \in 1 .. Len(u) : i < j => u[i].after + u[i].len <= u[j].after
      BY <1>1, <1>2, <2>2, <2>3, <2>5, <3>1
    <3>4. QED
      BY <2>1, <3>2, <3>3 DEF UnreadOrdered, u
  <2>7. Behind(l)' = (captured + n) - u[1].after
    <3>1. Behind(l)' = captured' - Head(u).after
      BY <2>5 DEF Behind, u
    <3>2. captured' - Head(u).after = (captured + n) - u[1].after
      BY <2>1, <2>5
    <3>3. QED
      BY <3>1, <3>2
  <2>8. u[1].after \in Nat /\ u[1].after <= captured /\ captured - u[1].after <= Behind(l)
    <3>1. CASE Len(t) = 0
      BY <1>1, <2>4, <2>5, <3>1
    <3>2. CASE Len(t) # 0
      <4>1. 1 \in 1 .. Len(t) /\ u[1] = t[1] /\ t[1] \in Chunks
        BY <2>2, <2>5, <3>2
      <4>2. PICK k \in 1 .. Len(s) : t[1] = s[k]
        BY <2>2, <4>1
      <4>3. QED
        BY <1>1, <1>2, <2>3, <2>4, <4>1, <4>2
    <3>3. QED
      BY <3>1, <3>2
  <2>9. QED
    BY <1>1, <1>4, <2>1, <2>4, <2>6, <2>7, <2>8
<1>5. QED
  BY <1>3, <1>4
\* Receiving a chunk brings a listener nearer by at least its samples.
LEMMA ReceiveBehind ==
  ASSUME ChannelTypeOK, NEW l \in Listeners, Receive(l), UnreadOrdered(l)
  PROVE  /\ UnreadOrdered(l)'
         /\ Behind(l) \in Nat /\ Behind(l)' \in Nat /\ Head(unread[l]).len \in Nat
         /\ Behind(l)' + Head(unread[l]).len <= Behind(l)
<1> DEFINE s == unread[l]
           t == Tail(s)
<1>1. /\ s \in Seq(Chunks) /\ s # <<>> /\ captured \in Nat /\ captured' = captured
      /\ unread'[l] = t
  BY DEF ChannelTypeOK, Receive
<1>2. \A x \in Chunks : x.after \in Nat /\ x.len \in Nat
  BY DEF Chunks
<1>3. /\ t \in Seq(Chunks) /\ Len(t) = Len(s) - 1 /\ Head(s) = s[1]
      /\ \A i \in 1 .. Len(t) : t[i] = s[i + 1] /\ i + 1 \in 1 .. Len(s)
      /\ 1 \in 1 .. Len(s) /\ \A i \in 1 .. Len(s) : s[i] \in Chunks
  BY <1>1
<1> HIDE DEF s, t
<1>4. \A i \in 1 .. Len(s) : s[i].after + s[i].len <= captured
  BY DEF UnreadOrdered, s
<1>5. ASSUME NEW i \in 1 .. Len(s), NEW j \in 1 .. Len(s), i < j
      PROVE  s[i].after + s[i].len <= s[j].after
  BY <1>5 DEF UnreadOrdered, s
<1>6. UnreadOrdered(l)'
  <2>1. \A i \in 1 .. Len(t) : t[i].after + t[i].len <= captured
    BY <1>3, <1>4
  <2>2. ASSUME NEW i \in 1 .. Len(t), NEW j \in 1 .. Len(t), i < j
        PROVE  t[i].after + t[i].len <= t[j].after
    <3>1. i + 1 < j + 1
      BY <2>2
    <3>2. s[i + 1].after + s[i + 1].len <= s[j + 1].after
      BY <1>3, <1>5, <3>1
    <3>3. QED
      BY <1>3, <3>2
  <2>3. QED
    BY <1>1, <2>1, <2>2 DEF UnreadOrdered
<1>7. Behind(l) = captured - s[1].after
  BY <1>1, <1>3 DEF Behind, s
<1>8. s[1].after \in Nat /\ s[1].len \in Nat /\ s[1].after + s[1].len <= captured
  BY <1>2, <1>3, <1>4
<1>9. CASE t = <<>>
  <2>1. Behind(l)' = 0
    BY <1>1, <1>9 DEF Behind
  <2>2. QED
    BY <1>1, <1>3, <1>6, <1>7, <1>8, <2>1 DEF s
<1>10. CASE t # <<>>
  <2>1. 1 \in 1 .. Len(t) /\ Head(t) = t[1] /\ t[1] \in Chunks /\ t[1] = s[2]
        /\ 2 \in 1 .. Len(s)
    BY <1>3, <1>10
  <2>2. Behind(l)' = captured - t[1].after
    BY <1>1, <1>10, <2>1 DEF Behind
  <2>3. t[1].after \in Nat /\ t[1].len \in Nat /\ t[1].after + t[1].len <= captured
    BY <1>2, <1>4, <2>1
  <2>4. s[1].after + s[1].len <= t[1].after
    BY <1>3, <1>5, <2>1
  <2>5. Head(unread[l]).len = s[1].len
    BY <1>3 DEF s
  <2>6. Behind(l) \in Nat /\ Behind(l)' \in Nat /\ Behind(l)' + s[1].len <= Behind(l)
    BY <1>1, <1>7, <1>8, <2>2, <2>3, <2>4
  <2>7. QED
    BY <1>6, <1>8, <2>5, <2>6
<1>11. QED
  BY <1>9, <1>10

\* A step that leaves the channel alone leaves a listener where it is.
LEMMA SameBehind ==
  ASSUME NEW l \in Listeners, UNCHANGED <<captured, unread>>
  PROVE  Behind(l)' = Behind(l) /\ UnreadOrdered(l)' = UnreadOrdered(l)
BY DEF Behind, UnreadOrdered

LEMMA BehindType ==
  ASSUME ChannelTypeOK, NEW l \in Listeners, UnreadOrdered(l)
  PROVE  Behind(l) \in Nat
<1>1. CASE unread[l] = <<>>
  BY <1>1 DEF Behind
<1>2. CASE unread[l] # <<>>
  <2>1. /\ Head(unread[l]) = unread[l][1] /\ 1 \in 1 .. Len(unread[l])
        /\ unread[l][1] \in Chunks
    BY <1>2 DEF ChannelTypeOK
  <2>2. unread[l][1].after + unread[l][1].len <= captured
    BY <2>1 DEF UnreadOrdered
  <2>3. QED
    BY <1>2, <2>1, <2>2 DEF Behind, ChannelTypeOK, Chunks
<1>3. QED
  BY <1>1, <1>2

\* Arithmetic of the schedule, kept apart because it multiplies.
LEMMA DueStep ==
  ASSUME NEW d \in Int
  PROVE  /\ Frame * d \in Int
         /\ Frame * (d + 1) = Frame * d + Frame
         /\ Frame * (d - 1) = Frame * d - Frame
BY UdpAssumption

LEMMA DueBounded ==
  ASSUME NEW d \in Int, -Late <= d
  PROVE  Frame * (1 + Late) \in Nat /\ Frame - Frame * d <= Frame * (1 + Late)
<1>1. Frame * (1 - d) <= Frame * (1 + Late)
  BY UdpAssumption, PaceAssumption
<1>2. Frame * (1 - d) = Frame - Frame * d
  BY UdpAssumption
<1>3. QED
  BY <1>1, <1>2, UdpAssumption, PaceAssumption
-----------------------------------------------------------------------------
\* All the audio between the device and the pacer is bounded by how far the
\* pacer is behind its schedule.
LEMMA PaceStep ==
  ASSUME CapAmple, TypeOK, PaceInv, [Next]_vars
  PROVE  PaceInv'
<1> DEFINE Bound == (Frame - 1) + MaxBurst + PumpLag + Frame
           len == Head(unread[Udp]).len
<1>a. Frame \in Nat \ {0} /\ MaxBurst \in Nat /\ PumpLag \in Nat /\ Late \in Nat
      /\ Udp \in Listeners
  BY UdpAssumption, PaceAssumption
<1>h. /\ ChannelTypeOK /\ UdpTypeOK
      /\ owed \in 0 .. MaxBurst /\ due \in -Late .. 1
      /\ Len(pcm) \in Nat
  BY DEF TypeOK, UdpTypeOK
<1>i. /\ UnreadOrdered(Udp) /\ (Udp \notin subscribed => unread[Udp] = <<>>)
      /\ owed + Behind(Udp) <= MaxBurst + PumpLag
      /\ owed + Behind(Udp) + Len(pcm) + Frame * due <= Bound
      /\ ~skipped
  BY DEF PaceInv, InTransit, NothingSkipped
<1>b. Behind(Udp) \in Nat
  BY <1>a, <1>h, <1>i, BehindType
<1>d. /\ Frame * due \in Int
      /\ Frame * (due + 1) = Frame * due + Frame
      /\ Frame * (due - 1) = Frame * due - Frame
      /\ Frame * 1 = Frame
  BY <1>a, <1>h, DueStep
<1>q. ASSUME UnreadOrdered(Udp)', (Udp \notin subscribed => unread[Udp] = <<>>)',
             owed' + Behind(Udp)' <= MaxBurst + PumpLag,
             owed' + Behind(Udp)' + Len(pcm') + Frame * due' <= Bound,
             ~skipped'
      PROVE  PaceInv'
  BY <1>q DEF PaceInv, InTransit, NothingSkipped
<1>s. Bound \in Int
  BY <1>a DEF Bound
<1> HIDE DEF Bound
<1>r. ASSUME NEW x \in Int, x <= owed + Behind(Udp)
      PROVE  x + Len(pcm) + Frame * due <= Bound
  <2> DEFINE ahead == Frame * due
  <2>1. ahead \in Int /\ owed + Behind(Udp) + Len(pcm) + ahead <= Bound
    BY <1>d, <1>i
  <2> HIDE DEF ahead
  <2>2. x + Len(pcm) + ahead <= Bound
    BY <1>b, <1>h, <1>s, <1>r, <2>1
  <2>3. QED
    BY <2>2 DEF ahead
<1>1. CASE Start
  <2>1. /\ UNCHANGED <<captured, unread, owed, pcm, due, skipped>>
        /\ (Udp \notin subscribed => unread[Udp] = <<>>)'
    BY <1>1 DEF Start, Subscribe, udpVars, paceVars
  <2>2. Behind(Udp)' = Behind(Udp) /\ UnreadOrdered(Udp)'
    BY <1>a, <1>i, <2>1, SameBehind
  <2>3. QED
    BY <1>i, <1>q, <2>1, <2>2
<1>2. ASSUME NEW n \in ChunkSizes, Deliver(n) PROVE PaceInv'
  <2>1. /\ n \in Nat /\ Publish(n) /\ owed' = owed - n /\ n <= owed
        /\ UNCHANGED <<pcm, due, skipped>>
    BY <1>2, ChannelAssumption DEF Deliver, udpVars
  <2>2. /\ UnreadOrdered(Udp)' /\ (Udp \notin subscribed => unread[Udp] = <<>>)'
        /\ Behind(Udp)' \in Nat /\ Behind(Udp)' <= Behind(Udp) + n
    BY <1>a, <1>h, <1>i, <2>1, PublishBehind
  <2>3. owed' + Behind(Udp)' <= owed + Behind(Udp)
    BY <1>b, <1>h, <2>1, <2>2
  <2>4. owed' \in Int /\ Len(pcm') = Len(pcm) /\ Frame * due' = Frame * due
    BY <1>h, <2>1
  <2>5. owed' + Behind(Udp)' + Len(pcm') + Frame * due' <= Bound
    <3>1. owed' + Behind(Udp)' \in Int
      BY <2>2, <2>4
    <3>2. (owed' + Behind(Udp)') + Len(pcm) + Frame * due <= Bound
      BY <1>r, <2>3, <3>1
    <3>3. QED
      BY <2>4, <3>2
  <2>6. owed' + Behind(Udp)' <= MaxBurst + PumpLag
    BY <1>a, <1>b, <1>h, <1>i, <2>2, <2>3, <2>4
  <2>7. QED
    BY <1>i, <1>q, <2>1, <2>2, <2>5, <2>6
<1>3. CASE CaptureStops
  <2>1. /\ UNCHANGED <<captured, unread, subscribed, pcm, due, skipped>> /\ owed' = 0
    BY <1>3 DEF CaptureStops, channelVars, udpVars
  <2>2. Behind(Udp)' = Behind(Udp) /\ UnreadOrdered(Udp)'
    BY <1>a, <1>i, <2>1, SameBehind
  <2>3. /\ Len(pcm') = Len(pcm) /\ Frame * due' = Frame * due
        /\ owed' \in Int /\ owed' <= owed
    BY <1>h, <2>1
  <2>4. owed' + Behind(Udp)' + Len(pcm') + Frame * due' <= Bound
    <3>1. owed' + Behind(Udp) \in Int /\ owed' + Behind(Udp) <= owed + Behind(Udp)
      BY <1>b, <1>h, <2>3
    <3>2. (owed' + Behind(Udp)) + Len(pcm) + Frame * due <= Bound
      BY <1>r, <3>1
    <3>3. QED
      BY <2>2, <2>3, <3>2
  <2>5. owed' + Behind(Udp)' <= MaxBurst + PumpLag
    BY <1>a, <1>b, <1>h, <1>i, <2>1, <2>2
  <2>6. QED
    BY <1>i, <1>q, <2>1, <2>2, <2>4, <2>5
<1>4. CASE PumpStep
  <2>1. CASE PumpChunk
    <3>1. /\ Receive(Udp) /\ UNCHANGED <<subscribed, owed, due, skipped>>
          /\ (Udp \notin subscribed => unread[Udp] = <<>>)'
      BY <1>4, <1>i, <2>1 DEF PumpStep, PumpChunk, Receive, paceVars
    <3>2. /\ UnreadOrdered(Udp)' /\ Behind(Udp)' \in Nat /\ len \in Nat
          /\ Behind(Udp)' + len <= Behind(Udp)
      BY <1>a, <1>h, <1>i, <3>1, ReceiveBehind
    <3>3. Len(pcm') = Len(pcm) + len
      BY <1>h, <2>1, PumpTypes
    <3> HIDE DEF len
    <3>4. owed' = owed /\ Frame * due' = Frame * due
      BY <3>1
    <3>5. owed' + Behind(Udp)' + Len(pcm') + Frame * due' <= Bound
      BY <1>a, <1>b, <1>d, <1>h, <1>i, <1>s, <3>2, <3>3, <3>4
    <3>6. owed' + Behind(Udp)' <= MaxBurst + PumpLag
      BY <1>a, <1>b, <1>h, <1>i, <3>2, <3>4
    <3>7. QED
      BY <1>i, <1>q, <3>1, <3>2, <3>5, <3>6
  <2>2. CASE PumpLagged
    <3>1. UNCHANGED <<captured, unread, subscribed, pcm, owed, due, skipped>>
      BY <1>4, <2>2 DEF PumpStep, PumpLagged, ReceiveLagged, udpVars, paceVars
    <3>2. Behind(Udp)' = Behind(Udp) /\ UnreadOrdered(Udp)'
      BY <1>a, <1>i, <3>1, SameBehind
    <3>3. QED
      BY <1>i, <1>q, <3>1, <3>2
  <2>3. QED
    BY <1>4, <2>1, <2>2 DEF PumpStep, Pump
\* The cap cuts nothing: the pacer is at most Late behind.
<1>5. CASE Send
  <2>1. /\ UNCHANGED <<captured, unread, subscribed, owed>>
        /\ due' = due + 1 /\ skipped' = (skipped \/ Excess > 0)
        /\ pcm' = SubSeq(pcm, Excess + Frame + 1, Len(pcm)) /\ Len(pcm) >= Frame
    BY <1>5 DEF Send, PacerFrame, channelVars
  <2>2. Behind(Udp)' = Behind(Udp) /\ UnreadOrdered(Udp)'
    BY <1>a, <1>i, <2>1, SameBehind
  <2>3. Excess = 0
    <3> DEFINE ahead == Frame * due
               late == Frame * (1 + Late)
    <3>1. Frame - ahead <= late /\ late \in Nat /\ ahead \in Int
      BY <1>d, <1>h, DueBounded
    <3>2. (Frame - 1) + MaxBurst + PumpLag + late <= MaxBuf
      BY DEF CapAmple
    <3>3. MaxBuf \in Nat
      BY UdpAssumption DEF MaxBuf
    <3>4. Len(pcm) <= MaxBuf
      <4>1. owed + Behind(Udp) + Len(pcm) + ahead <= (Frame - 1) + MaxBurst + PumpLag + Frame
        BY <1>i DEF Bound
      <4> HIDE DEF ahead, late
      <4>2. QED
        BY <1>a, <1>b, <1>h, <3>1, <3>2, <3>3, <4>1
    <3>5. QED
      BY <1>h, <3>3, <3>4 DEF Excess
  <2>4. Len(pcm') = Len(pcm) - Frame
    <3>1. pcm \in Seq(Nat)
      BY <1>h DEF UdpTypeOK
    <3>2. QED
      BY <1>a, <1>h, <2>1, <2>3, <3>1
  <2>5. ~skipped'
    <3>1. ~(Excess > 0)
      BY <2>3
    <3>2. QED
      BY <1>i, <2>1, <3>1
  <2>6. owed' + Behind(Udp)' + Len(pcm') + Frame * due' <= Bound
    <3>1. Frame * due' = Frame * due + Frame
      BY <1>d, <2>1
    <3>2. owed' + Behind(Udp)' + Len(pcm') + (Frame * due + Frame)
          = owed + Behind(Udp) + Len(pcm) + Frame * due
      <4> DEFINE ahead == Frame * due
      <4>1. ahead \in Int /\ owed' = owed
        BY <1>d, <2>1
      <4> HIDE DEF ahead
      <4>2. owed' + Behind(Udp)' + Len(pcm') + (ahead + Frame)
            = owed + Behind(Udp) + Len(pcm) + ahead
        BY <1>a, <1>b, <1>h, <4>1, <2>2, <2>4
      <4>3. QED
        BY <4>2 DEF ahead
    <3>3. QED
      BY <1>i, <3>1, <3>2
  <2>7. QED
    BY <1>i, <1>q, <2>1, <2>2, <2>5, <2>6
<1>6. CASE Starve
  <2>1. /\ UNCHANGED <<captured, unread, subscribed, owed, pcm, skipped>>
        /\ due' = 1 /\ Len(pcm) < Frame
    BY <1>6 DEF Starve, PacerStarved, channelVars, udpVars
  <2>2. Behind(Udp)' = Behind(Udp) /\ UnreadOrdered(Udp)'
    BY <1>a, <1>i, <2>1, SameBehind
  <2>3. owed + Behind(Udp) + Len(pcm) + Frame <= Bound
    BY <1>a, <1>b, <1>h, <1>i, <2>1 DEF Bound
  <2>4. owed' + Behind(Udp)' + Len(pcm') + Frame * due' <= Bound
    BY <1>d, <2>1, <2>2, <2>3
  <2>5. QED
    BY <1>i, <1>q, <2>1, <2>2, <2>4
<1>7. CASE Tick
  <2>1. PICK samples \in {0, Frame} :
          /\ UNCHANGED <<captured, unread, subscribed, pcm, skipped>>
          /\ Behind(Udp) <= PumpLag /\ owed + samples <= MaxBurst
          /\ owed' = owed + samples /\ due' = due - 1
    BY <1>7 DEF Tick, Elapse, channelVars, udpVars
  <2>2. Behind(Udp)' = Behind(Udp) /\ UnreadOrdered(Udp)'
    BY <1>a, <1>i, <2>1, SameBehind
  <2>3. owed' + Behind(Udp)' <= MaxBurst + PumpLag
    BY <1>a, <1>b, <1>h, <2>1, <2>2
  <2>4. owed' + Behind(Udp)' + Len(pcm') + Frame * due' <= Bound
    <3>1. Frame * due' = Frame * due - Frame /\ samples <= Frame /\ samples \in Int
      BY <1>a, <1>d, <2>1
    <3>2. Len(pcm') = Len(pcm) /\ owed' = owed + samples
      BY <2>1
    <3>3. QED
      BY <1>a, <1>b, <1>d, <1>h, <1>i, <1>s, <2>2, <3>1, <3>2
  <2>5. QED
    BY <1>i, <1>q, <2>1, <2>2, <2>3, <2>4
<1>8. CASE UNCHANGED vars
  <2>1. UNCHANGED <<captured, unread, subscribed, owed, pcm, due, skipped>>
    BY <1>8 DEF vars, channelVars, udpVars, paceVars
  <2>2. Behind(Udp)' = Behind(Udp) /\ UnreadOrdered(Udp)'
    BY <1>a, <1>i, <2>1, SameBehind
  <2>3. QED
    BY <1>i, <1>q, <2>1, <2>2
<1>9. QED
  BY <1>1, <1>2, <1>3, <1>4, <1>5, <1>6, <1>7, <1>8 DEF Next

\* The audio between the device and the pacer, less what the pacer is ahead of
\* its schedule, is bounded by what bursts, the pump's lag and lateness allow.
THEOREM Paced == CapAmple => (Spec => []PaceInv)
<1> SUFFICES ASSUME CapAmple PROVE Spec => []PaceInv
  OBVIOUS
<1>1. Init => PaceInv
  <2> SUFFICES ASSUME Init PROVE PaceInv
    OBVIOUS
  <2>1. /\ unread[Udp] = <<>> /\ Len(unread[Udp]) = 0 /\ owed = 0 /\ due = 0
        /\ pcm = <<>> /\ Len(pcm) = 0 /\ skipped = FALSE
    BY UdpAssumption DEF Init, ChannelInit, UdpInit
  <2>2. UnreadOrdered(Udp) /\ Behind(Udp) = 0
    BY <2>1 DEF UnreadOrdered, Behind
  <2>3. Frame * due = 0
    BY UdpAssumption, <2>1
  <2>4. QED
    BY <2>1, <2>2, <2>3, UdpAssumption, PaceAssumption DEF PaceInv, InTransit, NothingSkipped
<1>2. TypeOK /\ PaceInv /\ [Next]_vars => PaceInv'
  BY PaceStep
<1>3. QED
  BY <1>1, <1>2, PacedTypeCorrect, PTL DEF Spec

\* With an ample cap the pacer never discards a sample, whatever the bursts of
\* the device, the lag of the pump and the lateness of the pacer within their
\* bounds: MAX_SAMPLES_PER_DATAGRAM * 20 only cuts what a drifting clock adds.
THEOREM CapNeverBites == CapAmple => (Spec => []NothingSkipped)
<1>1. PaceInv => NothingSkipped
  BY DEF PaceInv
<1>2. QED
  BY <1>1, Paced, PTL
=============================================================================
