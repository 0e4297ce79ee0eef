-------------------------- MODULE AudioFanoutProofs --------------------------
(***************************************************************************)
(* What the server's fan-out of captured audio guarantees, whatever the    *)
(* number of sessions and the sizes of chunks, frames and channel: types,  *)
(* that every listener gets a lossy stream, and that nothing is lost       *)
(* without a cause that the code logs.                                     *)
(***************************************************************************)
EXTENDS AudioFanout, SequenceTheorems, TLAPS

\* What makes NothingLostSilently inductive.  The chunks that wait follow on one
\* another;
ChunksFollow(l) ==
  \A i \in 1 .. Len(unread[l]) :
    /\ unread[l][i].after + unread[l][i].len = Before(l, i + 1)
    /\ Before(l, i) <= captured /\ Before(l, i + 1) <= captured

\* a listener has nothing before it subscribes, and its channel nothing for it
\* unless it is subscribed;
NotYet(l) == l \notin subscribed /\ (l \in Sessions => session[l] = "none")

Afresh(l) ==
  /\ l \notin subscribed => unread[l] = <<>>
  /\ NotYet(l) => Heard(l) = <<>> /\ Held(l) = <<>>
  /\ l \in subscribed => since[l] <= Before(l, 1)

\* what it was sent and what it holds rise, and come before what waits;
Rising(s, last) ==
  /\ \A i \in 1 .. Len(s) : s[i] <= last
  /\ \A i, j \in 1 .. Len(s) : i < j => s[i] < s[j]

Line(l) == Heard(l) \o Held(l)

\* and they are complete as long as nothing disturbs it.
Complete(l) ==
  Undisturbed(l) => Line(l) = [i \in 1 .. Before(l, 1) - since[l] |-> since[l] + i]

ListenerInv(l) == ChunksFollow(l) /\ Afresh(l) /\ Rising(Line(l), Before(l, 1)) /\ Complete(l)

FanoutInv == TypeOK /\ \A l \in Listeners : ListenerInv(l)

-----------------------------------------------------------------------------
LEMMA Sizes ==
  /\ Cap \in Nat /\ Cap >= 1 /\ ChunkSizes \subseteq Nat /\ MaxSamples \in Nat
  /\ Frame \in Nat /\ Frame >= 1 /\ MaxFrames \in Nat /\ MaxFrames >= 1
  /\ OpusFrame \in Nat /\ OpusFrame >= 1
  /\ Udp \in Listeners /\ Track \in Listeners /\ Sessions \subseteq Listeners
  /\ Listeners = {Udp, Track} \cup Sessions
  /\ Udp # Track /\ Udp \notin Sessions /\ Track \notin Sessions
BY ChannelAssumption, UdpAssumption, FanoutAssumption

\* What each kind of listener was sent and holds.
LEMMA Kinds ==
  /\ Heard(Udp) = popped /\ Held(Udp) = pcm
  /\ Heard(Track) = written /\ Held(Track) = trackPcm
  /\ \A s \in Sessions : Heard(s) = streamed[s] /\ Held(s) = rest[s]
BY Sizes DEF Heard, Held

LEMMA KindsNext ==
  /\ Heard(Udp)' = popped' /\ Held(Udp)' = pcm'
  /\ Heard(Track)' = written' /\ Held(Track)' = trackPcm'
  /\ \A s \in Sessions : Heard(s)' = streamed'[s] /\ Held(s)' = rest'[s]
BY Sizes DEF Heard, Held

LEMMA LineTypes ==
  ASSUME TypeOK, NEW l \in Listeners
  PROVE  /\ Heard(l) \in Seq(Nat) /\ Held(l) \in Seq(Nat) /\ since[l] \in Nat
         /\ unread[l] \in Seq(Chunks) /\ Len(unread[l]) <= Cap /\ Len(unread[l]) \in Nat
         /\ captured \in 0 .. MaxSamples
         /\ Line(l) \in Seq(Nat) /\ Len(Line(l)) = Len(Heard(l)) + Len(Held(l))
         /\ Len(Heard(l)) \in Nat /\ Len(Held(l)) \in Nat
<1>1. Heard(l) \in Seq(Nat) /\ Held(l) \in Seq(Nat)
  BY Sizes, Kinds DEF TypeOK, UdpTypeOK
<1>2. /\ unread[l] \in Seq(Chunks) /\ Len(unread[l]) <= Cap
      /\ captured \in 0 .. MaxSamples /\ since[l] \in Nat
  BY DEF TypeOK, ChannelTypeOK
<1>3. /\ Line(l) \in Seq(Nat) /\ Len(Line(l)) = Len(Heard(l)) + Len(Held(l))
      /\ Len(Heard(l)) \in Nat /\ Len(Held(l)) \in Nat /\ Len(unread[l]) \in Nat
  BY <1>1, <1>2, ConcatProperties, LenProperties DEF Line
<1> QED BY <1>1, <1>2, <1>3

-----------------------------------------------------------------------------
\* Rising sequences.

\* A chunk goes on where a line ends.
LEMMA SamplesOf ==
  ASSUME NEW c \in Chunks
  PROVE  /\ c.after \in Nat /\ c.len \in Nat
         /\ Samples(c) \in Seq(Nat) /\ Len(Samples(c)) = c.len
         /\ \A i \in 1 .. c.len : Samples(c)[i] = c.after + i
<1>1. c.after \in Nat /\ c.len \in Nat
  BY DEF Chunks
<1> QED BY <1>1 DEF Samples

LEMMA Appended ==
  ASSUME NEW s \in Seq(Nat), NEW c \in Chunks
  PROVE  /\ s \o Samples(c) \in Seq(Nat) /\ Len(s \o Samples(c)) = Len(s) + c.len
         /\ Len(s) \in Nat /\ c.len \in Nat /\ c.after \in Nat
         /\ \A i \in 1 .. Len(s) : (s \o Samples(c))[i] = s[i]
         /\ \A i \in Len(s) + 1 .. Len(s) + c.len :
              (s \o Samples(c))[i] = c.after + (i - Len(s))
<1>1. /\ c.after \in Nat /\ c.len \in Nat
      /\ Samples(c) \in Seq(Nat) /\ Len(Samples(c)) = c.len
      /\ \A i \in 1 .. c.len : Samples(c)[i] = c.after + i
  BY SamplesOf
<1>2. Len(s) \in Nat
  BY LenProperties
<1>3. /\ s \o Samples(c) \in Seq(Nat) /\ Len(s \o Samples(c)) = Len(s) + c.len
      /\ \A i \in 1 .. Len(s) + c.len :
           (s \o Samples(c))[i] = IF i <= Len(s) THEN s[i] ELSE Samples(c)[i - Len(s)]
  <2> DEFINE u == Samples(c)
  <2>1. u \in Seq(Nat) /\ Len(u) = c.len
    BY <1>1
  <2> HIDE DEF u
  <2>2. /\ s \o u \in Seq(Nat) /\ Len(s \o u) = Len(s) + Len(u)
        /\ \A i \in 1 .. Len(s) + Len(u) :
             (s \o u)[i] = IF i <= Len(s) THEN s[i] ELSE u[i - Len(s)]
    BY <2>1, ConcatProperties
  <2>3. /\ s \o u \in Seq(Nat) /\ Len(s \o u) = Len(s) + c.len
        /\ \A i \in 1 .. Len(s) + c.len :
             (s \o u)[i] = IF i <= Len(s) THEN s[i] ELSE u[i - Len(s)]
    BY <2>1, <2>2
  <2> QED BY <2>3 DEF u
<1>4. ASSUME NEW i \in 1 .. Len(s) PROVE (s \o Samples(c))[i] = s[i]
  BY <1>1, <1>2, <1>3
<1>5. ASSUME NEW i \in Len(s) + 1 .. Len(s) + c.len
      PROVE  (s \o Samples(c))[i] = c.after + (i - Len(s))
  <2>1. i \in 1 .. Len(s) + c.len /\ ~(i <= Len(s)) /\ i - Len(s) \in 1 .. c.len
    BY <1>1, <1>2
  <2> QED BY <1>1, <1>3, <2>1
<1> QED BY <1>1, <1>2, <1>3, <1>4, <1>5

LEMMA RisingOn ==
  ASSUME NEW s \in Seq(Nat), NEW c \in Chunks, Rising(s, c.after)
  PROVE  Rising(s \o Samples(c), c.after + c.len)
<1> DEFINE t == s \o Samples(c)
           n == Len(s)
           a == c.after
           k == c.len
<1>1. /\ Len(t) = n + k /\ n \in Nat /\ k \in Nat /\ a \in Nat
      /\ \A i \in 1 .. n : t[i] = s[i]
      /\ \A i \in n + 1 .. n + k : t[i] = a + (i - n)
  BY Appended
<1>2. \A i \in 1 .. n : s[i] \in Nat /\ s[i] <= a
  BY LenProperties DEF Rising
<1>3. \A i, j \in 1 .. n : i < j => s[i] < s[j]
  BY DEF Rising
<1> HIDE DEF t, n, a, k
<1>4. \A i \in 1 .. n + k : t[i] <= a + k
  <2> TAKE i \in 1 .. n + k
  <2>1. CASE i <= n
    BY <1>1, <1>2, <2>1
  <2>2. CASE i > n
    BY <1>1, <2>2
  <2> QED BY <1>1, <2>1, <2>2
<1>5. \A i, j \in 1 .. n + k : i < j => t[i] < t[j]
  <2> SUFFICES ASSUME NEW i \in 1 .. n + k, NEW j \in 1 .. n + k, i < j PROVE t[i] < t[j]
    OBVIOUS
  <2>1. CASE j <= n
    <3>1. i \in 1 .. n /\ j \in 1 .. n
      BY <1>1, <2>1
    <3> QED BY <1>1, <1>3, <3>1
  <2>2. CASE i <= n /\ j > n
    <3>1. t[i] <= a /\ t[i] \in Nat
      BY <1>1, <1>2, <2>2
    <3>2. t[j] = a + (j - n)
      BY <1>1, <2>2
    <3> QED BY <1>1, <2>2, <3>1, <3>2
  <2>3. CASE i > n
    <3>1. t[i] = a + (i - n) /\ t[j] = a + (j - n)
      BY <1>1, <2>3
    <3> QED BY <1>1, <3>1
  <2> QED BY <1>1, <2>1, <2>2, <2>3
<1>6. Rising(t, a + k)
  BY <1>1, <1>4, <1>5 DEF Rising
<1> QED BY <1>6 DEF t, a, k

\* Without a gap.
LEMMA FullIs ==
  ASSUME NEW s \in Seq(Nat), NEW m \in Nat, NEW n \in Nat
  PROVE  s = [i \in 1 .. m |-> n + i] <=> Len(s) = m /\ \A i \in 1 .. m : s[i] = n + i
<1>1. s = [i \in 1 .. Len(s) |-> s[i]] /\ Len(s) \in Nat
  BY LenProperties
<1>2. ASSUME s = [i \in 1 .. m |-> n + i]
      PROVE  Len(s) = m /\ \A i \in 1 .. m : s[i] = n + i
  <2>1. DOMAIN s = 1 .. m
    BY <1>2
  <2>2. Len(s) = m
    BY <2>1, LenProperties
  <2> QED BY <1>2, <2>2
<1>3. ASSUME Len(s) = m, \A i \in 1 .. m : s[i] = n + i
      PROVE  s = [i \in 1 .. m |-> n + i]
  BY <1>1, <1>3
<1> QED BY <1>2, <1>3

LEMMA FullOn ==
  ASSUME NEW n \in Nat, NEW c \in Chunks, n <= c.after,
         NEW s \in Seq(Nat), s = [i \in 1 .. c.after - n |-> n + i]
  PROVE  s \o Samples(c) = [i \in 1 .. (c.after + c.len) - n |-> n + i]
<1> DEFINE t == s \o Samples(c)
           a == c.after
           k == c.len
           l == Len(s)
<1>1. /\ t \in Seq(Nat) /\ Len(t) = l + k /\ k \in Nat /\ a \in Nat
      /\ \A i \in 1 .. l : t[i] = s[i]
      /\ \A i \in l + 1 .. l + k : t[i] = a + (i - l)
  BY Appended
<1>2. a - n \in Nat
  BY <1>1
<1>3. l = a - n /\ \A i \in 1 .. a - n : s[i] = n + i
  <2> HIDE DEF t, k
  <2> QED BY <1>2, FullIs
<1> HIDE DEF t, a, k, l
<1>4. \A i \in 1 .. l : t[i] = n + i
  BY <1>1, <1>3
<1>5. \A i \in l + 1 .. l + k : t[i] = n + i
  <2> TAKE i \in l + 1 .. l + k
  <2>1. t[i] = a + (i - (a - n))
    BY <1>1, <1>3
  <2>2. i \in Int
    BY <1>1, <1>2, <1>3
  <2> QED BY <1>1, <2>1, <2>2
<1> DEFINE z == (a + k) - n
<1>6. z \in Nat /\ z = l + k /\ \A i \in 1 .. z : i \in 1 .. l \/ i \in l + 1 .. l + k
  BY <1>1, <1>2, <1>3
<1> HIDE DEF z
<1>7. Len(t) = z /\ \A i \in 1 .. z : t[i] = n + i
  BY <1>1, <1>4, <1>5, <1>6
<1>8. t = [i \in 1 .. z |-> n + i]
  BY <1>1, <1>6, <1>7, FullIs
<1> QED BY <1>8 DEF t, a, k, z

\* Some of what is held is dropped and some is sent: d and e say how far.
Sent(h, x, d, e) == h \o SubSeq(x, d + 1, e)
Left(x, e) == SubSeq(x, e + 1, Len(x))

GoesOn(h, x, d, e) ==
  /\ Sent(h, x, d, e) \in Seq(Nat) /\ Left(x, e) \in Seq(Nat)
  /\ Len(Sent(h, x, d, e)) = Len(h) + (e - d) /\ Len(Left(x, e)) = Len(x) - e
  /\ \A i \in 1 .. Len(h) : (Sent(h, x, d, e) \o Left(x, e))[i] = (h \o x)[i]
  /\ \A i \in Len(h) + 1 .. Len(h) + Len(x) - d :
       (Sent(h, x, d, e) \o Left(x, e))[i] = (h \o x)[i + d]
  /\ \A i \in 1 .. Len(Sent(h, x, d, e)) :
       Sent(h, x, d, e)[i] = (Sent(h, x, d, e) \o Left(x, e))[i]
  /\ \A i \in 1 .. Len(h) : Sent(h, x, d, e)[i] = h[i]

LEMMA Moved ==
  ASSUME NEW h \in Seq(Nat), NEW x \in Seq(Nat), NEW d \in Nat, NEW e \in Nat,
         d <= e, e <= Len(x)
  PROVE  GoesOn(h, x, d, e)
<1> DEFINE mid == SubSeq(x, d + 1, e)
           sent == Sent(h, x, d, e)
           left == Left(x, e)
           new == sent \o left
           old == h \o x
<1>1. Len(h) \in Nat /\ Len(x) \in Nat
  BY LenProperties
<1>2. /\ mid \in Seq(Nat) /\ Len(mid) = e - d
      /\ \A i \in 1 .. e - d : mid[i] = x[d + i]
  <2>1. \A i \in d + 1 .. e : x[i] \in Nat
    <3> TAKE i \in d + 1 .. e
    <3>1. i \in 1 .. Len(x)
      BY <1>1
    <3> QED BY <3>1, LenProperties
  <2>2. /\ mid \in Seq(Nat) /\ Len(mid) = (IF d + 1 <= e THEN e - (d + 1) + 1 ELSE 0)
        /\ \A i \in 1 .. e - (d + 1) + 1 : mid[i] = x[d + 1 + i - 1]
    BY <2>1, SubSeqProperties
  <2>3. e - (d + 1) + 1 = e - d /\ (IF d + 1 <= e THEN e - (d + 1) + 1 ELSE 0) = e - d
    OBVIOUS
  <2>4. \A i \in 1 .. e - d : d + 1 + i - 1 = d + i
    OBVIOUS
  <2> HIDE DEF mid
  <2> QED BY <2>2, <2>3, <2>4
<1>3. /\ left \in Seq(Nat) /\ Len(left) = Len(x) - e
      /\ \A i \in 1 .. Len(x) - e : left[i] = x[e + i]
  <2>1. \A i \in e + 1 .. Len(x) : x[i] \in Nat
    <3> TAKE i \in e + 1 .. Len(x)
    <3>1. i \in 1 .. Len(x)
      BY <1>1
    <3> QED BY <3>1, LenProperties
  <2>2. /\ left \in Seq(Nat) /\ Len(left) = (IF e + 1 <= Len(x) THEN Len(x) - (e + 1) + 1 ELSE 0)
        /\ \A i \in 1 .. Len(x) - (e + 1) + 1 : left[i] = x[e + 1 + i - 1]
    BY <1>1, <2>1, SubSeqProperties DEF Left
  <2>3. Len(x) - (e + 1) + 1 = Len(x) - e /\ (IF e + 1 <= Len(x) THEN Len(x) - (e + 1) + 1 ELSE 0) = Len(x) - e
    BY <1>1
  <2>4. \A i \in 1 .. Len(x) - e : e + 1 + i - 1 = e + i
    BY <1>1
  <2> HIDE DEF left
  <2> QED BY <2>2, <2>3, <2>4
<1>m. sent = h \o mid
  BY DEF Sent
<1> HIDE DEF mid, sent, left
<1>4. /\ sent \in Seq(Nat) /\ Len(sent) = Len(h) + (e - d)
      /\ \A i \in 1 .. Len(h) + (e - d) :
           sent[i] = IF i <= Len(h) THEN h[i] ELSE mid[i - Len(h)]
  <2>1. /\ sent \in Seq(Nat) /\ Len(sent) = Len(h) + Len(mid)
        /\ \A i \in 1 .. Len(h) + Len(mid) :
             sent[i] = IF i <= Len(h) THEN h[i] ELSE mid[i - Len(h)]
    BY <1>2, <1>m, ConcatProperties
  <2> QED BY <1>2, <2>1
<1>5. /\ Len(new) = Len(sent) + Len(left)
      /\ \A i \in 1 .. Len(sent) + Len(left) :
           new[i] = IF i <= Len(sent) THEN sent[i] ELSE left[i - Len(sent)]
  BY <1>3, <1>4, ConcatProperties
<1>6. \A i \in 1 .. Len(h) + Len(x) :
        old[i] = IF i <= Len(h) THEN h[i] ELSE x[i - Len(h)]
  BY ConcatProperties
<1> HIDE DEF new, old
<1>r. /\ \A i \in 1 .. Len(sent) : i \in 1 .. Len(sent) + Len(left) /\ i <= Len(sent)
      /\ \A i \in 1 .. Len(h) : /\ i \in 1 .. Len(h) + (e - d) /\ i \in 1 .. Len(sent)
                                /\ i \in 1 .. Len(h) + Len(x) /\ i <= Len(h)
  BY <1>1, <1>3, <1>4
<1>8. ASSUME NEW i \in 1 .. Len(sent) PROVE sent[i] = new[i]
  BY <1>5, <1>r
<1>7. ASSUME NEW i \in 1 .. Len(h) PROVE sent[i] = h[i] /\ new[i] = old[i]
  BY <1>4, <1>6, <1>8, <1>r
<1>9. ASSUME NEW i \in Len(h) + 1 .. Len(h) + Len(x) - d PROVE new[i] = old[i + d]
  <2>1. /\ i \in Int /\ i + d \in 1 .. Len(h) + Len(x) /\ ~(i + d <= Len(h))
        /\ i \in 1 .. Len(sent) + Len(left)
    BY <1>1, <1>3, <1>4
  <2>2. old[i + d] = x[(i + d) - Len(h)]
    BY <1>6, <2>1
  <2>3. CASE i <= Len(sent)
    <3>1. i - Len(h) \in 1 .. e - d /\ ~(i <= Len(h)) /\ i \in 1 .. Len(h) + (e - d)
      BY <1>1, <1>4, <2>1, <2>3
    <3>2. new[i] = x[d + (i - Len(h))]
      BY <1>2, <1>4, <1>5, <2>1, <2>3, <3>1
    <3>3. d + (i - Len(h)) = (i + d) - Len(h)
      BY <1>1, <2>1
    <3> QED BY <2>2, <3>2, <3>3
  <2>4. CASE ~(i <= Len(sent))
    <3>1. i - Len(sent) \in 1 .. Len(x) - e
      BY <1>1, <1>3, <1>4, <2>1, <2>4
    <3>2. new[i] = x[e + (i - Len(sent))]
      BY <1>3, <1>5, <2>1, <2>4, <3>1
    <3>3. e + (i - Len(sent)) = (i + d) - Len(h)
      BY <1>1, <1>4, <2>1
    <3> QED BY <2>2, <3>2, <3>3
  <2> QED BY <2>3, <2>4
<1> QED BY <1>3, <1>4, <1>7, <1>8, <1>9 DEF GoesOn, new, old, sent, left

LEMMA RisingMoved ==
  ASSUME NEW h \in Seq(Nat), NEW x \in Seq(Nat), NEW d \in Nat, NEW e \in Nat,
         d <= e, e <= Len(x), NEW last, Rising(h \o x, last)
  PROVE  Rising(Sent(h, x, d, e) \o Left(x, e), last)
<1> DEFINE sent == Sent(h, x, d, e)
           left == Left(x, e)
           new == sent \o left
           old == h \o x
<1> HIDE DEF sent, left, new, old
<1>0. GoesOn(h, x, d, e)
  BY Moved
<1>1. /\ sent \in Seq(Nat) /\ left \in Seq(Nat)
      /\ Len(sent) = Len(h) + (e - d) /\ Len(left) = Len(x) - e
      /\ \A i \in 1 .. Len(h) : new[i] = old[i]
      /\ \A i \in Len(h) + 1 .. Len(h) + Len(x) - d : new[i] = old[i + d]
  BY <1>0 DEF GoesOn, new, old, sent, left
<1>2. Len(h) \in Nat /\ Len(x) \in Nat
  BY LenProperties
<1>3. Len(old) = Len(h) + Len(x)
  BY ConcatProperties DEF old
<1>4. \A i \in 1 .. Len(old) : old[i] <= last
  BY DEF Rising, old
<1>5. \A i, j \in 1 .. Len(old) : i < j => old[i] < old[j]
  BY DEF Rising, old
<1>6. Len(new) = Len(h) + Len(x) - d
  <2>1. Len(new) = Len(sent) + Len(left)
    BY <1>1, ConcatProperties DEF new
  <2> QED BY <1>1, <1>2, <2>1
<1> DEFINE at(i) == IF i <= Len(h) THEN i ELSE i + d
<1>7. \A i \in 1 .. Len(new) : at(i) \in 1 .. Len(old) /\ new[i] = old[at(i)]
  <2> TAKE i \in 1 .. Len(new)
  <2>1. CASE i <= Len(h)
    <3>1. i \in 1 .. Len(h) /\ at(i) = i /\ i \in 1 .. Len(old)
      BY <1>2, <1>3, <1>6, <2>1
    <3> QED BY <1>1, <3>1
  <2>2. CASE ~(i <= Len(h))
    <3>1. i \in Len(h) + 1 .. Len(h) + Len(x) - d /\ at(i) = i + d /\ i + d \in 1 .. Len(old)
      BY <1>2, <1>3, <1>6, <2>2
    <3> QED BY <1>1, <3>1
  <2> QED BY <2>1, <2>2
<1>8. \A i, j \in 1 .. Len(new) : i < j => at(i) < at(j)
  BY <1>2, <1>6
<1> HIDE DEF at
<1>9. Rising(new, last)
  BY <1>4, <1>5, <1>7, <1>8 DEF Rising
<1> QED BY <1>9 DEF new, sent, left

LEMMA KeptMoved ==
  ASSUME NEW h \in Seq(Nat), NEW x \in Seq(Nat), NEW e \in Nat, e <= Len(x)
  PROVE  Sent(h, x, 0, e) \o Left(x, e) = h \o x
<1> DEFINE sent == Sent(h, x, 0, e)
           left == Left(x, e)
           new == sent \o left
           old == h \o x
<1> HIDE DEF sent, left, new, old
<1>0. GoesOn(h, x, 0, e)
  BY Moved
<1>1. /\ sent \in Seq(Nat) /\ left \in Seq(Nat)
      /\ Len(sent) = Len(h) + (e - 0) /\ Len(left) = Len(x) - e
      /\ \A i \in 1 .. Len(h) : new[i] = old[i]
      /\ \A i \in Len(h) + 1 .. Len(h) + Len(x) - 0 : new[i] = old[i + 0]
  BY <1>0 DEF GoesOn, new, old, sent, left
<1>2. Len(h) \in Nat /\ Len(x) \in Nat
  BY LenProperties
<1>3. old \in Seq(Nat) /\ Len(old) = Len(h) + Len(x)
  BY ConcatProperties DEF old
<1>4. new \in Seq(Nat) /\ Len(new) = Len(h) + Len(x)
  <2>1. new \in Seq(Nat) /\ Len(new) = Len(sent) + Len(left)
    BY <1>1, ConcatProperties DEF new
  <2> QED BY <1>1, <1>2, <2>1
<1>5. \A i \in 1 .. Len(new) : new[i] = old[i]
  <2> TAKE i \in 1 .. Len(new)
  <2>1. i + 0 = i /\ (i \in 1 .. Len(h) \/ i \in Len(h) + 1 .. Len(h) + Len(x) - 0)
    BY <1>2, <1>4
  <2> QED BY <1>1, <2>1
<1>6. new = old
  BY <1>3, <1>4, <1>5, SeqEqual
<1> QED BY <1>6 DEF new, old, sent, left

\* What is sent is later than all that was.
LEMMA HeardMoved ==
  ASSUME NEW h \in Seq(Nat), NEW x \in Seq(Nat), NEW d \in Nat, NEW e \in Nat,
         d <= e, e <= Len(x), NEW last, Rising(h \o x, last)
  PROVE  \/ Sent(h, x, d, e) = h
         \/ /\ Len(Sent(h, x, d, e)) > Len(h)
            /\ SubSeq(Sent(h, x, d, e), 1, Len(h)) = h
            /\ \A i \in Len(h) + 1 .. Len(Sent(h, x, d, e)) :
                 /\ Sent(h, x, d, e)[i] <= last
                 /\ i > 1 => Sent(h, x, d, e)[i - 1] < Sent(h, x, d, e)[i]
<1> DEFINE sent == Sent(h, x, d, e)
           left == Left(x, e)
           new == sent \o left
<1> HIDE DEF sent, left, new
<1>0. GoesOn(h, x, d, e)
  BY Moved
<1>1. /\ sent \in Seq(Nat) /\ left \in Seq(Nat)
      /\ Len(sent) = Len(h) + (e - d) /\ Len(left) = Len(x) - e
      /\ \A i \in 1 .. Len(sent) : sent[i] = new[i]
      /\ \A i \in 1 .. Len(h) : sent[i] = h[i]
  BY <1>0 DEF GoesOn, new, sent, left
<1>2. Len(h) \in Nat /\ Len(x) \in Nat
  BY LenProperties
<1>3. Rising(new, last)
  BY RisingMoved DEF new, sent, left
<1>4. Len(new) = Len(sent) + Len(left)
  BY <1>1, ConcatProperties DEF new
<1>5. CASE e = d
  <2>1. Len(sent) = Len(h)
    BY <1>1, <1>2, <1>5
  <2>2. sent = h
    BY <1>1, <2>1, SeqEqual
  <2> QED BY <2>2 DEF sent
<1>6. CASE e # d
  <2>1. Len(sent) > Len(h) /\ Len(sent) \in Nat
    BY <1>1, <1>2, <1>6
  <2>2. SubSeq(sent, 1, Len(h)) = h
    <3>1. \A i \in 1 .. Len(h) : sent[i] \in Nat
      <4> TAKE i \in 1 .. Len(h)
      <4>1. i \in 1 .. Len(sent)
        BY <1>2, <2>1
      <4> QED BY <1>1, <4>1, LenProperties
    <3>2. /\ SubSeq(sent, 1, Len(h)) \in Seq(Nat)
          /\ Len(SubSeq(sent, 1, Len(h))) = (IF 1 <= Len(h) THEN Len(h) - 1 + 1 ELSE 0)
          /\ \A i \in 1 .. Len(h) - 1 + 1 : SubSeq(sent, 1, Len(h))[i] = sent[1 + i - 1]
      BY <1>1, <1>2, <3>1, SubSeqProperties
    <3>3. (IF 1 <= Len(h) THEN Len(h) - 1 + 1 ELSE 0) = Len(h) /\ Len(h) - 1 + 1 = Len(h)
      BY <1>2
    <3>4. \A i \in 1 .. Len(h) : 1 + i - 1 = i
      BY <1>2
    <3> DEFINE front == SubSeq(sent, 1, Len(h))
    <3>5. /\ front \in Seq(Nat) /\ Len(front) = Len(h)
          /\ \A i \in 1 .. Len(front) : front[i] = h[i]
      <4>1. front \in Seq(Nat) /\ Len(front) = Len(h)
        BY <3>2, <3>3
      <4>2. ASSUME NEW i \in 1 .. Len(front) PROVE front[i] = h[i]
        <5>1. i \in 1 .. Len(h) /\ i \in 1 .. Len(h) - 1 + 1 /\ 1 + i - 1 = i
          BY <3>3, <4>1, <4>2
        <5>2. front[i] = sent[i]
          BY <3>2, <5>1
        <5> QED BY <1>1, <5>1, <5>2
      <4> QED BY <4>1, <4>2
    <3> HIDE DEF front
    <3>6. front = h
      BY <3>5, SeqEqual
    <3> QED BY <3>6 DEF front
  <2>3. ASSUME NEW i \in Len(h) + 1 .. Len(sent)
        PROVE  sent[i] <= last /\ (i > 1 => sent[i - 1] < sent[i])
    <3>1. i \in 1 .. Len(sent) /\ i \in 1 .. Len(new)
      BY <1>1, <1>2, <1>4
    <3>2. sent[i] <= last
      BY <1>1, <1>3, <3>1 DEF Rising
    <3>3. ASSUME i > 1 PROVE sent[i - 1] < sent[i]
      <4>1. i - 1 \in 1 .. Len(sent) /\ i - 1 \in 1 .. Len(new) /\ i - 1 < i
        BY <3>1, <3>3
      <4> QED BY <1>1, <1>3, <3>1, <4>1 DEF Rising
    <3> QED BY <3>2, <3>3
  <2> QED BY <2>1, <2>2, <2>3 DEF sent
<1> QED BY <1>5, <1>6

-----------------------------------------------------------------------------
\* The channel of one listener.

LEMMA BeforeIs ==
  ASSUME TypeOK, NEW l \in Listeners, ChunksFollow(l)
  PROVE  /\ Before(l, 1) \in Nat /\ Before(l, 1) <= captured /\ captured \in Nat
         /\ unread[l] = <<>> => Before(l, 1) = captured
         /\ unread[l] # <<>> => /\ Head(unread[l]) \in Chunks /\ Before(l, 1) = Head(unread[l]).after
<1>1. /\ unread[l] \in Seq(Chunks) /\ captured \in Nat /\ Len(unread[l]) \in Nat
  BY LineTypes, Sizes
<1>2. CASE unread[l] = <<>>
  BY <1>1, <1>2 DEF Before
<1>3. CASE unread[l] # <<>>
  <2>1. 1 \in 1 .. Len(unread[l]) /\ Head(unread[l]) = unread[l][1] /\ unread[l][1] \in Chunks
    BY <1>1, <1>3
  <2>2. Before(l, 1) = unread[l][1].after
    BY <2>1 DEF Before
  <2>3. Before(l, 1) <= captured
    BY <2>1 DEF ChunksFollow
  <2> QED BY <1>1, <1>3, <2>1, <2>2, <2>3 DEF Chunks
<1> QED BY <1>2, <1>3

\* Received: the next chunk is the first.
LEMMA TailFollows ==
  ASSUME TypeOK, NEW l \in Listeners, ChunksFollow(l), unread[l] # <<>>,
         unread'[l] = Tail(unread[l]), captured' = captured
  PROVE  /\ ChunksFollow(l)'
         /\ Before(l, 1)' = Head(unread[l]).after + Head(unread[l]).len
<1> DEFINE u == unread[l]
           v == Tail(unread[l])
<1>1. /\ u \in Seq(Chunks) /\ captured \in Nat /\ Len(u) \in Nat
  BY LineTypes, Sizes
<1>2. /\ Len(u) >= 1 /\ Len(v) = Len(u) - 1 /\ Head(u) = u[1]
      /\ \A i \in 1 .. Len(v) : v[i] = u[i + 1]
  BY <1>1
<1>3. \A i \in 1 .. Len(u) :
        /\ u[i].after + u[i].len = Before(l, i + 1)
        /\ Before(l, i) <= captured /\ Before(l, i + 1) <= captured
  BY DEF ChunksFollow
<1>4. unread'[l] = v
  OBVIOUS
<1>5. \A i \in Nat \ {0} : Before(l, i)' = Before(l, i + 1)
  <2> TAKE i \in Nat \ {0}
  <2>1. CASE i > Len(v)
    <3>1. Before(l, i)' = captured
      BY <1>4, <2>1 DEF Before
    <3>2. i + 1 > Len(u)
      BY <1>1, <1>2, <2>1
    <3> QED BY <3>1, <3>2 DEF Before
  <2>2. CASE ~(i > Len(v))
    <3>1. i \in 1 .. Len(v) /\ ~(i + 1 > Len(u))
      BY <1>1, <1>2, <2>2
    <3>2. Before(l, i)' = v[i].after
      BY <1>4, <2>2 DEF Before
    <3>3. Before(l, i + 1) = u[i + 1].after
      BY <3>1 DEF Before
    <3> QED BY <1>2, <3>1, <3>2, <3>3
  <2> QED BY <2>1, <2>2
<1> HIDE DEF u, v
<1>6. \A i \in 1 .. Len(v) :
        /\ v[i].after + v[i].len = Before(l, i + 1)'
        /\ Before(l, i)' <= captured /\ Before(l, i + 1)' <= captured
  <2> TAKE i \in 1 .. Len(v)
  <2>1. /\ i \in Nat \ {0} /\ i + 1 \in Nat \ {0} /\ i + 1 \in 1 .. Len(u)
    BY <1>1, <1>2
  <2>2. Before(l, i)' = Before(l, i + 1) /\ Before(l, i + 1)' = Before(l, (i + 1) + 1)
    BY <1>5, <2>1
  <2>3. v[i] = u[i + 1]
    BY <1>2
  <2> QED BY <1>3, <2>1, <2>2, <2>3
<1>7. ChunksFollow(l)'
  BY <1>4, <1>6 DEF ChunksFollow
<1>8. Before(l, 1)' = u[1].after + u[1].len
  <2>1. 1 \in 1 .. Len(u) /\ 1 \in Nat \ {0}
    BY <1>1, <1>2
  <2> QED BY <1>3, <1>5, <2>1
<1> QED BY <1>2, <1>7, <1>8 DEF u

\* Sent: a chunk is added, and the oldest is lost if there is no room.
LEMMA PublishFollows ==
  ASSUME TypeOK, NEW l \in Listeners, ChunksFollow(l), l \notin subscribed => unread[l] = <<>>,
         NEW n \in Nat, Publish(n)
  PROVE  /\ ChunksFollow(l)' /\ Before(l, 1) <= Before(l, 1)'
         /\ l \notin subscribed => unread'[l] = <<>>
         /\ l \in subscribed /\ ~Full(l) => Before(l, 1)' = Before(l, 1)
<1> DEFINE u == unread[l]
           w == IF Full(l) THEN Tail(u) ELSE u
           c == [after |-> captured, len |-> n]
           v == Append(w, c)
<1>1. /\ u \in Seq(Chunks) /\ captured \in Nat /\ Len(u) \in Nat
  BY LineTypes, Sizes
<1>2. Before(l, 1) \in Nat /\ Before(l, 1) <= captured
  BY BeforeIs
<1>3. captured' = captured + n /\ l \in DOMAIN unread'
      /\ unread'[l] = IF l \in subscribed THEN v ELSE u
  BY DEF Publish, Queued
<1>4. CASE l \notin subscribed
  <2>1. unread'[l] = <<>>
    BY <1>3, <1>4
  <2>2. Before(l, 1)' = captured + n
    BY <1>3, <2>1 DEF Before
  <2>3. ChunksFollow(l)'
    BY <2>1 DEF ChunksFollow
  <2> QED BY <1>1, <1>2, <1>4, <2>1, <2>2, <2>3
<1>5. CASE l \in subscribed
  <2> DEFINE o == IF Full(l) THEN 1 ELSE 0
  <2>1. /\ w \in Seq(Chunks) /\ Len(w) = Len(u) - o /\ o \in {0, 1} /\ o <= Len(u)
        /\ \A i \in 1 .. Len(w) : w[i] = u[i + o]
    <3>1. CASE Full(l)
      <4>1. u # <<>>
        BY <1>1, <3>1, Sizes DEF Full
      <4> QED BY <1>1, <3>1, <4>1
    <3>2. CASE ~Full(l)
      BY <1>1, <3>2
    <3> QED BY <3>1, <3>2
  <2>2. unread'[l] = v
    BY <1>3, <1>5
  <2>f. ~Full(l) => o = 0
    OBVIOUS
  <2> HIDE DEF w, o, c
  <2>3. /\ Len(v) = Len(w) + 1 /\ Len(w) \in Nat
        /\ \A i \in 1 .. Len(w) : v[i] = w[i]
        /\ v[Len(w) + 1] = c
    BY <2>1
  <2> HIDE DEF v
  <2>4. c.after = captured /\ c.len = n
    BY DEF c
  <2>5. \A i \in 1 .. Len(w) + 1 : Before(l, i)' = Before(l, i + o)
    <3> TAKE i \in 1 .. Len(w) + 1
    <3>1. Before(l, i)' = v[i].after
      BY <2>2, <2>3 DEF Before
    <3>2. CASE i <= Len(w)
      <4>1. ~(i + o > Len(u)) /\ i \in 1 .. Len(w)
        BY <1>1, <2>1, <2>3, <3>2
      <4>2. Before(l, i + o) = u[i + o].after
        BY <4>1 DEF Before, u
      <4> QED BY <2>1, <2>3, <3>1, <4>1, <4>2
    <3>3. CASE ~(i <= Len(w))
      <4>1. i = Len(w) + 1 /\ i + o > Len(u)
        BY <1>1, <2>1, <2>3, <3>3
      <4>2. Before(l, i + o) = captured
        BY <4>1 DEF Before, u
      <4> QED BY <2>3, <2>4, <3>1, <4>1, <4>2
    <3> QED BY <3>2, <3>3
  <2>6. \A i \in Nat : i > Len(v) => Before(l, i)' = captured + n
    BY <1>3, <2>2 DEF Before
  <2>7. \A i \in 1 .. Len(u) :
          /\ u[i].after + u[i].len = Before(l, i + 1)
          /\ Before(l, i) <= captured /\ Before(l, i + 1) <= captured
    BY DEF ChunksFollow, u
  <2>8. ASSUME NEW i \in 1 .. Len(w)
        PROVE  /\ v[i].after + v[i].len = Before(l, i + 1)'
               /\ Before(l, i)' <= captured /\ Before(l, i + 1)' <= captured
    <3>1. /\ i + o \in 1 .. Len(u) /\ i \in 1 .. Len(w) + 1 /\ i + 1 \in 1 .. Len(w) + 1
          /\ (i + 1) + o = (i + o) + 1
      BY <1>1, <2>1, <2>3
    <3>2. v[i] = u[i + o]
      BY <2>1, <2>3
    <3>3. Before(l, i)' = Before(l, i + o) /\ Before(l, i + 1)' = Before(l, (i + o) + 1)
      BY <2>5, <3>1
    <3> QED BY <2>7, <3>1, <3>2, <3>3
  <2>9. \A i \in 1 .. Len(w) + 1 : i = Len(w) + 1 => Before(l, i)' = captured
    <3> SUFFICES ASSUME NEW i \in 1 .. Len(w) + 1, i = Len(w) + 1
                 PROVE  Before(l, i)' = captured
      OBVIOUS
    <3>1. i + o > Len(u)
      BY <1>1, <2>1, <2>3
    <3>2. Before(l, i + o) = captured
      BY <3>1 DEF Before, u
    <3> QED BY <2>5, <3>2
  <2>10. \A i \in 1 .. Len(v) :
           /\ v[i].after + v[i].len = Before(l, i + 1)'
           /\ Before(l, i)' <= captured + n /\ Before(l, i + 1)' <= captured + n
    <3> TAKE i \in 1 .. Len(v)
    <3>1. CASE i \in 1 .. Len(w)
      <4>1. Before(l, i)' \in Int /\ Before(l, i + 1)' \in Int
        <5>1. /\ i \in 1 .. Len(w) + 1 /\ i + 1 \in 1 .. Len(w) + 1
              /\ i + o \in 1 .. Len(u)
          BY <1>1, <2>1, <2>3, <3>1
        <5>2. \A k \in 1 .. Len(u) : Before(l, k) \in Int /\ Before(l, k + 1) \in Int
          <6> TAKE k \in 1 .. Len(u)
          <6>1. u[k] \in Chunks
            BY <1>1
          <6>2. u[k].after \in Nat /\ u[k].len \in Nat
            BY <6>1 DEF Chunks
          <6>3. ~(k > Len(u))
            BY <1>1
          <6>4. Before(l, k) = u[k].after
            BY <6>3 DEF Before, u
          <6> QED BY <2>7, <6>2, <6>4
        <5>3. (i + 1) + o = (i + o) + 1
          BY <2>1, <3>1
        <5> QED BY <2>5, <5>1, <5>2, <5>3
      <4> QED BY <1>1, <2>8, <3>1, <4>1
    <3>2. CASE i = Len(w) + 1
      <4>1. i + 1 > Len(v) /\ i + 1 \in Nat /\ i \in 1 .. Len(w) + 1
        BY <2>3, <3>2
      <4>2. v[i] = c
        BY <2>3, <3>2
      <4>3. Before(l, i)' = captured
        BY <2>9, <3>2, <4>1
      <4>4. Before(l, i + 1)' = captured + n
        BY <2>6, <4>1
      <4> QED BY <1>1, <2>4, <4>2, <4>3, <4>4
    <3> QED BY <2>3, <3>1, <3>2
  <2>11. ChunksFollow(l)'
    BY <1>3, <2>2, <2>10 DEF ChunksFollow
  <2>12. Before(l, 1)' = Before(l, 1 + o)
    <3>1. 1 \in 1 .. Len(w) + 1
      BY <2>3
    <3> QED BY <2>5, <3>1
  <2>13. Before(l, 1) <= Before(l, 1 + o)
    <3>1. CASE o = 0
      BY <1>2, <3>1
    <3>2. CASE o = 1
      <4>1. 1 \in 1 .. Len(u) /\ ~(1 > Len(u)) /\ u[1] \in Chunks
        BY <1>1, <2>1, <3>2
      <4>2. Before(l, 1) = u[1].after
        BY <4>1 DEF Before, u
      <4>3. u[1].after \in Nat /\ u[1].len \in Nat
        BY <4>1 DEF Chunks
      <4> QED BY <2>7, <3>2, <4>1, <4>2, <4>3
    <3> QED BY <2>1, <3>1, <3>2
  <2>14. o = 0 => 1 + o = 1
    OBVIOUS
  <2> QED BY <1>5, <2>11, <2>12, <2>13, <2>14, <2>f
<1> QED BY <1>4, <1>5

-----------------------------------------------------------------------------
\* What a step can do to one listener.

\* Its standing does not change for the better.
Standing(l) ==
  /\ l \in subscribed' <=> l \in subscribed
  /\ NotYet(l)' => NotYet(l)
  /\ Undisturbed(l)' => Undisturbed(l)
  /\ since'[l] = since[l]

Captures(l, n) ==
  /\ Publish(n) /\ n \in Nat
  /\ UNCHANGED <<Heard(l), Held(l)>> /\ Standing(l)
  /\ Undisturbed(l)' => ~Full(l)

Takes(l) ==
  /\ unread[l] # <<>> /\ unread'[l] = Tail(unread[l]) /\ captured' = captured
  /\ Heard(l)' = Heard(l) /\ Held(l)' = Held(l) \o Samples(Head(unread[l]))
  /\ Standing(l)

\* Some of what it holds is dropped, and some is sent (maybe nothing at all).
Moves(l) ==
  \E d, e \in Nat :
    /\ d <= e /\ e <= Len(Held(l))
    /\ Heard(l)' = Sent(Heard(l), Held(l), d, e) /\ Held(l)' = Left(Held(l), e)
    /\ unread'[l] = unread[l] /\ captured' = captured
    /\ Standing(l) /\ (Undisturbed(l)' => d = 0)

Idles(l) ==
  /\ UNCHANGED <<captured, unread[l], Heard(l), Held(l)>>
  /\ Standing(l)

Comes(l) ==
  /\ UNCHANGED <<captured, unread[l], Heard(l), Held(l)>>
  /\ NotYet(l) /\ l \notin subscribed /\ l \in subscribed' /\ since'[l] = captured

Goes(l) ==
  /\ l \notin subscribed' /\ ~NotYet(l)' /\ unread'[l] = <<>> /\ Held(l)' = <<>>
  /\ captured' = captured /\ Heard(l)' = Heard(l)

LEMMA CapturesKeep ==
  ASSUME TypeOK, NEW l \in Listeners, ListenerInv(l), NEW n, Captures(l, n)
  PROVE  ListenerInv(l)'
<1>1. /\ n \in Nat /\ Publish(n) /\ Heard(l)' = Heard(l) /\ Held(l)' = Held(l)
      /\ Standing(l) /\ (Undisturbed(l)' => ~Full(l))
  BY DEF Captures
<1>2. /\ ChunksFollow(l) /\ Afresh(l) /\ Rising(Line(l), Before(l, 1)) /\ Complete(l)
  BY DEF ListenerInv
<1>3. /\ ChunksFollow(l)' /\ Before(l, 1) <= Before(l, 1)'
      /\ l \notin subscribed => unread'[l] = <<>>
      /\ l \in subscribed /\ ~Full(l) => Before(l, 1)' = Before(l, 1)
  BY <1>1, <1>2, PublishFollows DEF Afresh
<1>4. Before(l, 1) \in Nat /\ Before(l, 1)' \in Int
  <2>1. Before(l, 1) \in Nat
    BY <1>2, BeforeIs
  <2>2. captured' \in Nat
    BY <1>1, LineTypes, Sizes DEF Publish
  <2>3. CASE unread'[l] = <<>>
    BY <2>1, <2>2, <2>3 DEF Before
  <2>4. CASE unread'[l] # <<>>
    <3>1. l \in subscribed
      BY <1>3, <2>4
    <3>2. unread'[l] = Queued(l, [after |-> captured, len |-> n])
      BY <1>1, <3>1 DEF Publish
    <3>3. unread'[l] \in Seq(Chunks)
      <4>1. unread[l] \in Seq(Chunks) /\ captured \in Nat
        BY LineTypes, Sizes
      <4>2. [after |-> captured, len |-> n] \in Chunks
        BY <1>1, <4>1 DEF Chunks
      <4>3. Full(l) => unread[l] # <<>>
        BY <4>1, Sizes DEF Full
      <4> QED BY <3>2, <4>1, <4>2, <4>3 DEF Queued
    <3>4. 1 \in 1 .. Len(unread'[l]) /\ unread'[l][1] \in Chunks
      BY <2>4, <3>3
    <3>5. Before(l, 1)' = unread'[l][1].after
      BY <3>4 DEF Before
    <3> QED BY <2>1, <3>4, <3>5 DEF Chunks
  <2> QED BY <2>3, <2>4
<1>5. Line(l)' = Line(l)
  BY <1>1 DEF Line
<1>6. Afresh(l)'
  <2>1. since[l] \in Nat /\ since'[l] = since[l]
    BY <1>1, LineTypes DEF Standing
  <2>2. l \in subscribed' <=> l \in subscribed
    BY <1>1 DEF Standing
  <2>3. l \in subscribed => since[l] <= Before(l, 1)'
    BY <1>2, <1>3, <1>4, <2>1 DEF Afresh
  <2> QED BY <1>1, <1>2, <1>3, <2>1, <2>2, <2>3 DEF Afresh, Standing
<1>7. Rising(Line(l), Before(l, 1))'
  <2>1. \A i \in 1 .. Len(Line(l)) : Line(l)[i] <= Before(l, 1) /\ Line(l)[i] \in Nat
    BY <1>2, LineTypes, LenProperties DEF Rising
  <2>2. \A i \in 1 .. Len(Line(l)) : Line(l)[i] <= Before(l, 1)'
    BY <1>3, <1>4, <2>1
  <2> QED BY <1>2, <1>5, <2>2 DEF Rising
<1>8. Complete(l)'
  <2> SUFFICES ASSUME Undisturbed(l)'
               PROVE  Line(l)' = [i \in 1 .. Before(l, 1)' - since'[l] |-> since'[l] + i]
    BY DEF Complete
  <2>1. Undisturbed(l) /\ since'[l] = since[l]
    BY <1>1 DEF Standing
  <2>2. Before(l, 1)' = Before(l, 1)
    BY <1>1, <1>3, <2>1 DEF Undisturbed
  <2> QED BY <1>2, <1>5, <2>1, <2>2 DEF Complete
<1> QED BY <1>3, <1>6, <1>7, <1>8 DEF ListenerInv

LEMMA Regrouped ==
  ASSUME NEW g \in Seq(Nat), NEW h \in Seq(Nat), NEW t \in Seq(Nat)
  PROVE  (g \o h) \o t = g \o (h \o t)
BY ConcatAssociative

LEMMA TakesKeep ==
  ASSUME TypeOK, NEW l \in Listeners, ListenerInv(l), Takes(l)
  PROVE  ListenerInv(l)'
<1> DEFINE c == Head(unread[l])
<1>1. /\ unread[l] # <<>> /\ unread'[l] = Tail(unread[l]) /\ captured' = captured
      /\ Heard(l)' = Heard(l) /\ Held(l)' = Held(l) \o Samples(c)
      /\ Standing(l)
  BY DEF Takes
<1>2. /\ ChunksFollow(l) /\ Afresh(l) /\ Rising(Line(l), Before(l, 1)) /\ Complete(l)
  BY DEF ListenerInv
<1>3. ChunksFollow(l)' /\ Before(l, 1)' = c.after + c.len
  BY <1>1, <1>2, TailFollows
<1>4. c \in Chunks /\ Before(l, 1) = c.after
  BY <1>1, <1>2, BeforeIs
<1> HIDE DEF c
<1>5. /\ Line(l) \in Seq(Nat) /\ Heard(l) \in Seq(Nat) /\ Held(l) \in Seq(Nat)
      /\ since[l] \in Nat
  BY LineTypes
<1>6. c.after \in Nat /\ c.len \in Nat /\ Samples(c) \in Seq(Nat)
  BY <1>4, SamplesOf
<1>7. Line(l)' = Line(l) \o Samples(c)
  <2> DEFINE g == Heard(l)
             h == Held(l)
             t == Samples(c)
  <2>1. g \in Seq(Nat) /\ h \in Seq(Nat) /\ t \in Seq(Nat)
    BY <1>5, <1>6
  <2> HIDE DEF g, h, t
  <2>2. (g \o h) \o t = g \o (h \o t)
    BY <2>1, Regrouped
  <2> QED BY <1>1, <2>2 DEF Line, g, h, t
<1>8. Rising(Line(l), Before(l, 1))'
  <2>1. Rising(Line(l) \o Samples(c), c.after + c.len)
    BY <1>2, <1>4, <1>5, RisingOn
  <2> QED BY <1>3, <1>7, <2>1 DEF Rising
<1>9. l \in subscribed /\ l \in subscribed' /\ ~NotYet(l)' /\ since'[l] = since[l]
  <2>1. l \in subscribed
    BY <1>1, <1>2 DEF Afresh
  <2> QED BY <1>1, <2>1 DEF Standing, NotYet
<1>10. since[l] <= c.after
  BY <1>2, <1>4, <1>9 DEF Afresh
<1>11. Afresh(l)'
  <2>1. since[l] <= c.after + c.len
    BY <1>5, <1>6, <1>10
  <2> QED BY <1>3, <1>9, <2>1 DEF Afresh
<1>12. Complete(l)'
  <2> SUFFICES ASSUME Undisturbed(l)'
               PROVE  Line(l)' = [i \in 1 .. Before(l, 1)' - since'[l] |-> since'[l] + i]
    BY DEF Complete
  <2>1. Line(l) = [i \in 1 .. c.after - since[l] |-> since[l] + i]
    BY <1>1, <1>2, <1>4 DEF Complete, Standing
  <2>2. Line(l) \o Samples(c) = [i \in 1 .. (c.after + c.len) - since[l] |-> since[l] + i]
    BY <1>4, <1>5, <1>10, <2>1, FullOn
  <2> QED BY <1>3, <1>7, <1>9, <2>2
<1> QED BY <1>3, <1>8, <1>11, <1>12 DEF ListenerInv

\* What is ahead of a listener depends on its channel only.
LEMMA ChannelSame ==
  ASSUME NEW l \in Listeners, unread'[l] = unread[l], captured' = captured
  PROVE  ChunksFollow(l)' = ChunksFollow(l) /\ Before(l, 1)' = Before(l, 1)
BY DEF ChunksFollow, Before

LEMMA MovesKeep ==
  ASSUME TypeOK, NEW l \in Listeners, ListenerInv(l), Moves(l)
  PROVE  ListenerInv(l)'
<1>1. PICK d \in Nat, e \in Nat :
        /\ d <= e /\ e <= Len(Held(l))
        /\ Heard(l)' = Sent(Heard(l), Held(l), d, e) /\ Held(l)' = Left(Held(l), e)
        /\ unread'[l] = unread[l] /\ captured' = captured
        /\ Standing(l) /\ (Undisturbed(l)' => d = 0)
  BY DEF Moves
<1>2. /\ ChunksFollow(l) /\ Afresh(l) /\ Rising(Line(l), Before(l, 1)) /\ Complete(l)
  BY DEF ListenerInv
<1>3. ChunksFollow(l)' /\ Before(l, 1)' = Before(l, 1)
  BY <1>1, <1>2, ChannelSame
<1>4. Heard(l) \in Seq(Nat) /\ Held(l) \in Seq(Nat)
  BY LineTypes
<1>5. Line(l)' = Sent(Heard(l), Held(l), d, e) \o Left(Held(l), e)
  BY <1>1 DEF Line
<1>6. Rising(Line(l), Before(l, 1))'
  <2>1. Rising(Sent(Heard(l), Held(l), d, e) \o Left(Held(l), e), Before(l, 1))
    BY <1>1, <1>2, <1>4, RisingMoved DEF Line
  <2> QED BY <1>3, <1>5, <2>1 DEF Rising
<1>7. Afresh(l)'
  <2>1. ASSUME NotYet(l)' PROVE Heard(l)' = <<>> /\ Held(l)' = <<>>
    <3>1. Heard(l) = <<>> /\ Held(l) = <<>>
      BY <1>1, <1>2, <2>1 DEF Standing, Afresh
    <3>2. e = 0 /\ d = 0
      BY <1>1, <3>1
    <3> QED BY <1>1, <3>1, <3>2 DEF Sent, Left
  <2> QED BY <1>1, <1>2, <1>3, <2>1 DEF Afresh, Standing
<1>8. Complete(l)'
  <2> SUFFICES ASSUME Undisturbed(l)'
               PROVE  Line(l)' = [i \in 1 .. Before(l, 1)' - since'[l] |-> since'[l] + i]
    BY DEF Complete
  <2>1. Sent(Heard(l), Held(l), 0, e) \o Left(Held(l), e) = Heard(l) \o Held(l)
    BY <1>1, <1>4, KeptMoved
  <2>2. Line(l)' = Line(l)
    BY <1>1, <1>5, <2>1 DEF Line
  <2> QED BY <1>1, <1>2, <1>3, <2>2 DEF Complete, Standing
<1> QED BY <1>3, <1>6, <1>7, <1>8 DEF ListenerInv

LEMMA IdlesKeep ==
  ASSUME TypeOK, NEW l \in Listeners, ListenerInv(l), Idles(l)
  PROVE  ListenerInv(l)'
<1>1. /\ unread'[l] = unread[l] /\ captured' = captured /\ Standing(l)
      /\ Heard(l)' = Heard(l) /\ Held(l)' = Held(l)
  BY DEF Idles
<1>2. /\ ChunksFollow(l) /\ Afresh(l) /\ Rising(Line(l), Before(l, 1)) /\ Complete(l)
  BY DEF ListenerInv
<1>3. ChunksFollow(l)' /\ Before(l, 1)' = Before(l, 1) /\ Line(l)' = Line(l)
  BY <1>1, <1>2, ChannelSame DEF Line
<1>4. Rising(Line(l), Before(l, 1))'
  BY <1>2, <1>3 DEF Rising
<1>5. Afresh(l)' /\ Complete(l)'
  BY <1>1, <1>2, <1>3 DEF Afresh, Complete, Standing
<1> QED BY <1>3, <1>4, <1>5 DEF ListenerInv

LEMMA ComesKeep ==
  ASSUME TypeOK, NEW l \in Listeners, ListenerInv(l), Comes(l)
  PROVE  ListenerInv(l)'
<1>1. /\ unread'[l] = unread[l] /\ captured' = captured
      /\ Heard(l)' = Heard(l) /\ Held(l)' = Held(l)
      /\ NotYet(l) /\ l \notin subscribed /\ l \in subscribed' /\ since'[l] = captured
  BY DEF Comes
<1>2. /\ ChunksFollow(l) /\ Afresh(l) /\ Rising(Line(l), Before(l, 1)) /\ Complete(l)
  BY DEF ListenerInv
<1>3. ChunksFollow(l)' /\ Before(l, 1)' = Before(l, 1) /\ Line(l)' = Line(l)
  BY <1>1, <1>2, ChannelSame DEF Line
<1>4. Rising(Line(l), Before(l, 1))'
  BY <1>2, <1>3 DEF Rising
<1>5. captured \in Nat /\ Before(l, 1) = captured
  BY <1>1, <1>2, BeforeIs DEF Afresh
<1>6. ~NotYet(l)'
  BY <1>1 DEF NotYet
<1>7. Afresh(l)'
  BY <1>1, <1>3, <1>5, <1>6 DEF Afresh
<1>8. Complete(l)'
  <2>1. Line(l) = <<>>
    BY <1>1, <1>2 DEF Afresh, Line
  <2>2. Before(l, 1)' - since'[l] = 0
    BY <1>1, <1>3, <1>5
  <2>3. [i \in 1 .. 0 |-> since'[l] + i] = <<>>
    OBVIOUS
  <2> QED BY <1>3, <2>1, <2>2, <2>3 DEF Complete
<1> QED BY <1>3, <1>4, <1>7, <1>8 DEF ListenerInv

LEMMA GoesKeep ==
  ASSUME TypeOK, NEW l \in Listeners, ListenerInv(l), Goes(l)
  PROVE  ListenerInv(l)'
<1>1. /\ l \notin subscribed' /\ ~NotYet(l)' /\ unread'[l] = <<>> /\ Held(l)' = <<>>
      /\ captured' = captured /\ Heard(l)' = Heard(l)
  BY DEF Goes
<1>2. ChunksFollow(l) /\ Rising(Line(l), Before(l, 1))
  BY DEF ListenerInv
<1>3. Before(l, 1) \in Nat /\ Before(l, 1) <= captured /\ captured \in Nat
  BY <1>2, BeforeIs
<1>4. ChunksFollow(l)' /\ Before(l, 1)' = captured
  BY <1>1 DEF ChunksFollow, Before
<1> DEFINE g == Heard(l)
           h == Held(l)
<1>5. g \in Seq(Nat) /\ h \in Seq(Nat)
  BY LineTypes
<1>6. Line(l)' = g
  <2>1. Line(l)' = g \o <<>>
    BY <1>1 DEF Line
  <2> HIDE DEF g
  <2>2. g \o <<>> = g
    BY <1>5, ConcatEmptySeq
  <2> QED BY <2>1, <2>2
<1>7. /\ Line(l) \in Seq(Nat) /\ Len(Line(l)) = Len(g) + Len(h) /\ Len(g) \in Nat /\ Len(h) \in Nat
      /\ \A i \in 1 .. Len(g) : Line(l)[i] = g[i]
  <2>1. Line(l) = g \o h
    BY DEF Line
  <2> HIDE DEF g, h
  <2>2. /\ g \o h \in Seq(Nat) /\ Len(g \o h) = Len(g) + Len(h)
        /\ \A i \in 1 .. Len(g) + Len(h) : (g \o h)[i] = IF i <= Len(g) THEN g[i] ELSE h[i - Len(g)]
    BY <1>5, ConcatProperties
  <2>3. Len(g) \in Nat /\ Len(h) \in Nat
    BY <1>5, LenProperties
  <2> QED BY <2>1, <2>2, <2>3
<1> HIDE DEF g, h
<1>8. Rising(Line(l), Before(l, 1))'
  <2>1. \A i \in 1 .. Len(g) : i \in 1 .. Len(Line(l))
    BY <1>7
  <2>2. \A i \in 1 .. Len(Line(l)) : Line(l)[i] \in Nat /\ Line(l)[i] <= Before(l, 1)
    BY <1>2, <1>7, LenProperties DEF Rising
  <2>3. \A i \in 1 .. Len(g) : g[i] <= captured
    BY <1>3, <1>7, <2>1, <2>2
  <2>4. \A i, j \in 1 .. Len(g) : i < j => g[i] < g[j]
    BY <1>2, <1>7, <2>1 DEF Rising
  <2> QED BY <1>4, <1>6, <2>3, <2>4 DEF Rising
<1>9. Afresh(l)' /\ Complete(l)'
  BY <1>1 DEF Afresh, Complete, Undisturbed
<1> QED BY <1>4, <1>8, <1>9 DEF ListenerInv

-----------------------------------------------------------------------------
\* What the actions do to each listener.

OneStep(l) ==
  \/ \E n \in Nat : Captures(l, n)
  \/ Takes(l) \/ Moves(l) \/ Idles(l) \/ Comes(l) \/ Goes(l)

LEMMA SameLine ==
  ASSUME NEW l \in Listeners,
         l = Udp => pcm' = pcm /\ popped' = popped,
         l = Track => trackPcm' = trackPcm /\ written' = written,
         l \in Sessions => rest'[l] = rest[l] /\ streamed'[l] = streamed[l]
  PROVE  Heard(l)' = Heard(l) /\ Held(l)' = Held(l)
BY Sizes DEF Heard, Held

\* A listener that the step is not about.
LEMMA Aside ==
  ASSUME NEW l \in Listeners,
         captured' = captured, unread'[l] = unread[l], since'[l] = since[l],
         l \in subscribed' <=> l \in subscribed,
         lagged'[l] = lagged[l], overrun'[l] = overrun[l],
         l = Udp => pcm' = pcm /\ popped' = popped /\ skipped' = skipped,
         l = Track => trackPcm' = trackPcm /\ written' = written /\ dropped' = dropped,
         l \in Sessions =>
           /\ rest'[l] = rest[l] /\ streamed'[l] = streamed[l]
           /\ session'[l] = "none" => session[l] = "none"
  PROVE  Idles(l)
<1>1. Heard(l)' = Heard(l) /\ Held(l)' = Held(l)
  BY SameLine
<1>2. NotYet(l)' => NotYet(l)
  BY DEF NotYet
<1>3. Undisturbed(l)' => Undisturbed(l)
  BY DEF Undisturbed
<1> QED BY <1>1, <1>2, <1>3 DEF Idles, Standing

LEMMA Tables ==
  ASSUME TypeOK
  PROVE  /\ DOMAIN unread = Listeners /\ DOMAIN lagged = Listeners
         /\ DOMAIN since = Listeners /\ DOMAIN overrun = Listeners
         /\ DOMAIN session = Sessions /\ DOMAIN rest = Sessions /\ DOMAIN streamed = Sessions
BY DEF TypeOK, ChannelTypeOK

LEMMA StartSteps ==
  ASSUME TypeOK, NEW k \in Listeners, Start(k), NEW l \in Listeners
  PROVE  OneStep(l)
<1> USE Tables, Sizes DEF Start, Joins, Subscribe, udpVars, trackVars, webVars
<1>1. CASE l = k
  <2>1. Heard(l)' = Heard(l) /\ Held(l)' = Held(l)
    BY SameLine
  <2>2. l \notin Sessions /\ l \notin subscribed
    BY <1>1
  <2>3. NotYet(l)
    BY <2>2 DEF NotYet
  <2>4. l \in subscribed' /\ since'[l] = captured /\ unread' = unread /\ captured' = captured
    BY <1>1
  <2> QED BY <2>1, <2>2, <2>3, <2>4 DEF OneStep, Comes
<1>2. CASE l # k
  <2>1. Idles(l)
    BY <1>2, Aside
  <2> QED BY <2>1 DEF OneStep
<1> QED BY <1>1, <1>2

LEMMA CaptureSteps ==
  ASSUME TypeOK, NEW n \in ChunkSizes, Capture(n), NEW l \in Listeners
  PROVE  OneStep(l)
<1> USE Tables, Sizes DEF Capture, udpVars, trackVars, webVars, fanoutHistory
<1>1. Heard(l)' = Heard(l) /\ Held(l)' = Held(l)
  BY SameLine
<1>2. /\ subscribed' = subscribed
      /\ lagged' = [k \in Listeners |-> lagged[k] \/ (k \in subscribed /\ Full(k))]
  BY DEF Publish
<1>3. lagged'[l] <=> lagged[l] \/ (l \in subscribed /\ Full(l))
  BY <1>2
<1>4. Undisturbed(l)' => Undisturbed(l) /\ ~Full(l)
  BY <1>2, <1>3 DEF Undisturbed
<1>5. Standing(l)
  BY <1>2, <1>4 DEF Standing, NotYet
<1>6. n \in Nat /\ Publish(n)
  OBVIOUS
<1> QED BY <1>1, <1>4, <1>5, <1>6 DEF OneStep, Captures

\* The listener that receives takes the chunk,
LEMMA ReceiveSteps ==
  ASSUME TypeOK, NEW k \in Listeners, Receive(k), NEW l \in Listeners,
         UNCHANGED <<skipped, dropped, session, since, overrun>>,
         Heard(k)' = Heard(k), Held(k)' = Held(k) \o Samples(Head(unread[k])),
         l # k => Heard(l)' = Heard(l) /\ Held(l)' = Held(l)
  PROVE  OneStep(l)
<1> USE Tables
<1>1. /\ captured' = captured /\ subscribed' = subscribed /\ lagged' = lagged
      /\ unread[k] # <<>> /\ unread'[k] = Tail(unread[k])
      /\ l # k => unread'[l] = unread[l]
  BY DEF Receive
<1>2. Standing(l)
  BY <1>1 DEF Standing, NotYet, Undisturbed
<1> QED BY <1>1, <1>2 DEF OneStep, Takes, Idles

\* or is told that it lagged.
LEMMA LagSteps ==
  ASSUME TypeOK, NEW k \in Listeners, ReceiveLagged(k), Overruns(k), NEW l \in Listeners,
         UNCHANGED <<udpVars, trackVars, webVars>>
  PROVE  OneStep(l)
<1> USE Tables DEF ReceiveLagged, Overruns, udpVars, trackVars, webVars
<1>1. Heard(l)' = Heard(l) /\ Held(l)' = Held(l)
  BY SameLine
<1>2. overrun'[l] = IF l = k THEN TRUE ELSE overrun[l]
  OBVIOUS
<1>3. l # k => lagged'[l] = lagged[l]
  OBVIOUS
<1>4. Undisturbed(l)' => Undisturbed(l)
  BY <1>2, <1>3 DEF Undisturbed
<1>5. Idles(l)
  BY <1>1, <1>4 DEF Idles, Standing, NotYet
<1> QED BY <1>5 DEF OneStep

\* A task sends, and maybe drops, some of what it holds.
LEMMA MoveSteps ==
  ASSUME TypeOK, NEW k \in Listeners, UNCHANGED channelVars, NEW l \in Listeners,
         UNCHANGED <<session, since, overrun>>,
         NEW d \in Nat, NEW e \in Nat, d <= e, e <= Len(Held(k)),
         Heard(k)' = Sent(Heard(k), Held(k), d, e), Held(k)' = Left(Held(k), e),
         l # k => Heard(l)' = Heard(l) /\ Held(l)' = Held(l),
         Undisturbed(l)' => Undisturbed(l), Undisturbed(k)' => d = 0
  PROVE  OneStep(l)
<1>1. /\ captured' = captured /\ subscribed' = subscribed /\ unread' = unread
  BY DEF channelVars
<1>2. Standing(l)
  BY <1>1 DEF Standing, NotYet
<1>3. CASE l = k
  <2>1. Moves(l)
    BY <1>1, <1>2, <1>3 DEF Moves
  <2> QED BY <2>1 DEF OneStep
<1>4. CASE l # k
  BY <1>1, <1>2, <1>4 DEF OneStep, Idles
<1> QED BY <1>3, <1>4

-----------------------------------------------------------------------------
\* The tasks of the three kinds.

LEMMA UdpSteps ==
  ASSUME TypeOK, PumpReceives \/ PumpLags \/ Pace, NEW l \in Listeners
  PROVE  OneStep(l)
<1> USE Sizes
<1>1. CASE PumpReceives
  <2>1. Receive(Udp) /\ pcm' = pcm \o Samples(Head(unread[Udp])) /\ UNCHANGED <<popped, skipped>>
    BY <1>1 DEF PumpReceives, PumpChunk
  <2>2. UNCHANGED <<trackPcm, written, dropped, session, rest, streamed, since, overrun>>
    BY <1>1 DEF PumpReceives, trackVars, webVars, fanoutHistory
  <2>3. Heard(Udp)' = Heard(Udp) /\ Held(Udp)' = Held(Udp) \o Samples(Head(unread[Udp]))
    BY <2>1, Kinds, KindsNext
  <2>4. l # Udp => Heard(l)' = Heard(l) /\ Held(l)' = Held(l)
    BY <2>2, SameLine
  <2> QED BY <2>1, <2>2, <2>3, <2>4, ReceiveSteps
<1>2. CASE PumpLags
  <2>1. ReceiveLagged(Udp) /\ Overruns(Udp) /\ UNCHANGED <<udpVars, trackVars, webVars>>
    BY <1>2 DEF PumpLags, PumpLagged
  <2> QED BY <2>1, LagSteps
<1>3. CASE Pace /\ PacerFrame
  <2>1. /\ Len(pcm) >= Frame /\ UNCHANGED channelVars
        /\ popped' = popped \o SubSeq(pcm, Excess + 1, Excess + Frame)
        /\ pcm' = SubSeq(pcm, Excess + Frame + 1, Len(pcm))
        /\ skipped' = (skipped \/ Excess > 0)
    BY <1>3 DEF PacerFrame
  <2>2. UNCHANGED <<trackPcm, written, dropped, session, rest, streamed, since, overrun>>
    BY <1>3 DEF Pace, trackVars, webVars, fanoutHistory
  <2>3. Excess \in Nat /\ Excess + Frame \in Nat /\ Excess <= Excess + Frame
        /\ Excess + Frame <= Len(pcm)
    <3>1. MaxBuf \in Nat /\ MaxBuf >= Frame
      BY DEF MaxBuf
    <3>2. Len(pcm) \in Nat
      BY LenProperties DEF TypeOK, UdpTypeOK
    <3> QED BY <2>1, <3>1, <3>2 DEF Excess
  <2>4. /\ Heard(Udp)' = Sent(Heard(Udp), Held(Udp), Excess, Excess + Frame)
        /\ Held(Udp)' = Left(Held(Udp), Excess + Frame)
        /\ Held(Udp) = pcm
    BY <2>1, Kinds, KindsNext DEF Sent, Left
  <2>5. l # Udp => Heard(l)' = Heard(l) /\ Held(l)' = Held(l)
    BY <2>2, SameLine
  <2>6. Undisturbed(l)' => Undisturbed(l)
    BY <2>1, <2>2 DEF Undisturbed, channelVars
  <2>7. Undisturbed(Udp)' => Excess = 0
    <3>1. Undisturbed(Udp)' => ~skipped'
      BY DEF Undisturbed
    <3>2. ~skipped' => ~(Excess > 0)
      BY <2>1
    <3> QED BY <2>3, <3>1, <3>2
  <2> DEFINE d == Excess
             e == Excess + Frame
  <2>8. d \in Nat /\ e \in Nat /\ d <= e /\ e <= Len(Held(Udp))
    BY <2>3, <2>4
  <2> HIDE DEF d, e
  <2>9. Heard(Udp)' = Sent(Heard(Udp), Held(Udp), d, e) /\ Held(Udp)' = Left(Held(Udp), e)
    BY <2>4 DEF d, e
  <2>10. Undisturbed(Udp)' => d = 0
    BY <2>7 DEF d
  <2> QED BY <2>1, <2>2, <2>5, <2>6, <2>8, <2>9, <2>10, MoveSteps
<1>4. CASE Pace /\ PacerStarved
  <2>1. Idles(l)
    BY <1>4, Aside DEF Pace, PacerStarved, udpVars, channelVars, trackVars, webVars, fanoutHistory
  <2> QED BY <2>1 DEF OneStep
<1> QED BY <1>1, <1>2, <1>3, <1>4 DEF Pace

LEMMA TrackSteps ==
  ASSUME TypeOK, TrackStep, NEW l \in Listeners
  PROVE  OneStep(l)
<1> USE Sizes
<1>1. CASE TrackReceives
  <2>1. /\ Receive(Track) /\ trackPcm' = trackPcm \o Samples(Head(unread[Track]))
        /\ UNCHANGED <<written, dropped, pcm, popped, skipped, session, rest, streamed, since, overrun>>
    BY <1>1 DEF TrackReceives, udpVars, webVars, fanoutHistory
  <2>2. Heard(Track)' = Heard(Track) /\ Held(Track)' = Held(Track) \o Samples(Head(unread[Track]))
    BY <2>1, Kinds, KindsNext
  <2>3. l # Track => Heard(l)' = Heard(l) /\ Held(l)' = Held(l)
    BY <2>1, SameLine
  <2> QED BY <2>1, <2>2, <2>3, ReceiveSteps
<1>2. CASE TrackLags
  BY <1>2, LagSteps DEF TrackLags
<1>3. CASE TrackWrites \/ TrackFails
  <2>1. /\ Len(trackPcm) >= OpusFrame /\ UNCHANGED channelVars
        /\ trackPcm' = SubSeq(trackPcm, OpusFrame + 1, Len(trackPcm))
        /\ UNCHANGED <<pcm, popped, skipped, session, rest, streamed, since, overrun>>
    BY <1>3 DEF TrackWrites, TrackFails, TrackTakes, udpVars, webVars, fanoutHistory
  <2>2. \/ written' = written \o SubSeq(trackPcm, 1, OpusFrame) /\ dropped' = dropped
        \/ written' = written /\ dropped' = TRUE
    BY <1>3 DEF TrackWrites, TrackFails
  <2>3. l # Track => Heard(l)' = Heard(l) /\ Held(l)' = Held(l)
    BY <2>1, SameLine
  <2>4. Undisturbed(l)' => Undisturbed(l)
    BY <2>1, <2>2 DEF Undisturbed, channelVars
  <2>5. Left(Held(Track), OpusFrame) = Held(Track)' /\ Held(Track) = trackPcm
    BY <2>1, Kinds, KindsNext DEF Left
  <2>6. OpusFrame <= Len(Held(Track)) /\ OpusFrame \in Nat /\ 0 \in Nat /\ 0 <= OpusFrame
        /\ OpusFrame <= OpusFrame
    BY <2>1, <2>5
  <2>7. CASE written' = written \o SubSeq(trackPcm, 1, OpusFrame) /\ dropped' = dropped
    <3>1. Heard(Track)' = Sent(Heard(Track), Held(Track), 0, OpusFrame)
      BY <2>7, Kinds, KindsNext DEF Sent
    <3> QED BY <2>1, <2>3, <2>4, <2>5, <2>6, <3>1, MoveSteps
  <2>8. CASE written' = written /\ dropped' = TRUE
    <3>1. Heard(Track)' = Sent(Heard(Track), Held(Track), OpusFrame, OpusFrame)
      <4>1. written \in Seq(Nat)
        BY DEF TypeOK
      <4>2. SubSeq(trackPcm, OpusFrame + 1, OpusFrame) = <<>>
        <5>1. OpusFrame < OpusFrame + 1 /\ OpusFrame \in Int /\ OpusFrame + 1 \in Int
          OBVIOUS
        <5>2. trackPcm \in Seq(Nat)
          BY DEF TypeOK
        <5> QED BY <5>1, <5>2, SubSeqEmpty
      <4>3. written \o <<>> = written
        BY <4>1, ConcatEmptySeq
      <4> QED BY <2>8, <4>2, <4>3, Kinds, KindsNext DEF Sent
    <3>2. ~Undisturbed(Track)'
      BY <2>8 DEF Undisturbed
    <3> QED BY <2>1, <2>3, <2>4, <2>5, <2>6, <3>1, <3>2, MoveSteps
  <2> QED BY <2>2, <2>7, <2>8
<1> QED BY <1>1, <1>2, <1>3 DEF TrackStep

LEMMA SessionSteps ==
  ASSUME TypeOK, NEW s \in Sessions, NEW l \in Listeners,
         \/ SessionAccepted(s) \/ SessionEstablished(s) \/ SessionEnds(s) \/ SessionStreams(s)
  PROVE  OneStep(l)
<1> USE Sizes, Tables
<1>s. s \in Listeners /\ s # Udp /\ s # Track
  OBVIOUS
<1>1. CASE SessionAccepted(s)
  <2>1. /\ session[s] = "none" /\ s \notin subscribed
        /\ subscribed' = subscribed \cup {s} /\ UNCHANGED <<captured, unread, lagged, overrun>>
        /\ since' = [since EXCEPT ![s] = captured]
        /\ session' = [session EXCEPT ![s] = "handshake"]
        /\ UNCHANGED <<pcm, popped, skipped, trackPcm, written, dropped, rest, streamed>>
    BY <1>1 DEF SessionAccepted, Joins, Subscribe, udpVars, trackVars
  <2>2. Heard(l)' = Heard(l) /\ Held(l)' = Held(l)
    BY <2>1, SameLine
  <2>3. CASE l = s
    <3>1. NotYet(l)
      BY <2>1, <2>3 DEF NotYet
    <3>2. l \in subscribed' /\ since'[l] = captured
      BY <2>1, <2>3
    <3> QED BY <2>1, <2>2, <2>3, <3>1, <3>2 DEF OneStep, Comes
  <2>4. CASE l # s
    <3>1. /\ since'[l] = since[l] /\ (l \in subscribed' <=> l \in subscribed)
          /\ l \in Sessions => session'[l] = session[l]
      BY <2>1, <2>4
    <3>2. Idles(l)
      BY <2>1, <3>1, Aside
    <3> QED BY <3>2 DEF OneStep
  <2> QED BY <2>3, <2>4
<1>2. CASE SessionEstablished(s)
  <2>1. /\ session' = [session EXCEPT ![s] = "streaming"]
        /\ UNCHANGED <<captured, subscribed, unread, lagged, since, overrun>>
        /\ UNCHANGED <<pcm, popped, skipped, trackPcm, written, dropped, rest, streamed>>
    BY <1>2 DEF SessionEstablished, channelVars, udpVars, trackVars, fanoutHistory
  <2>2. l \in Sessions => (session'[l] = "none" => session[l] = "none")
    BY <2>1
  <2>3. Idles(l)
    BY <2>1, <2>2, Aside
  <2> QED BY <2>3 DEF OneStep
<1>3. CASE SessionEnds(s)
  <2>1. /\ session' = [session EXCEPT ![s] = "closed"] /\ rest' = [rest EXCEPT ![s] = <<>>]
        /\ subscribed' = subscribed \ {s} /\ unread' = [unread EXCEPT ![s] = <<>>]
        /\ lagged' = [lagged EXCEPT ![s] = FALSE]
        /\ UNCHANGED <<captured, since, overrun>>
        /\ UNCHANGED <<pcm, popped, skipped, trackPcm, written, dropped, streamed>>
    BY <1>3 DEF SessionEnds, Unsubscribe, udpVars, trackVars, fanoutHistory
  <2>2. CASE l = s
    <3>1. l \notin subscribed' /\ unread'[l] = <<>> /\ session'[l] = "closed" /\ rest'[l] = <<>>
      BY <2>1, <2>2
    <3>2. ~NotYet(l)'
      BY <2>2, <3>1 DEF NotYet
    <3>3. Held(l)' = <<>> /\ Heard(l)' = Heard(l)
      BY <2>1, <2>2, <3>1, Kinds, KindsNext
    <3> QED BY <2>1, <3>1, <3>2, <3>3 DEF OneStep, Goes
  <2>3. CASE l # s
    <3>1. /\ unread'[l] = unread[l] /\ lagged'[l] = lagged[l]
          /\ (l \in subscribed' <=> l \in subscribed)
          /\ l \in Sessions => session'[l] = session[l] /\ rest'[l] = rest[l]
      BY <2>1, <2>3
    <3>2. Idles(l)
      BY <2>1, <3>1, Aside
    <3> QED BY <3>2 DEF OneStep
  <2> QED BY <2>2, <2>3
<1>4. CASE SessionReceives(s)
  <2>1. /\ Receive(s) /\ rest[s] = <<>> /\ rest' = [rest EXCEPT ![s] = Samples(Head(unread[s]))]
        /\ UNCHANGED <<session, streamed, pcm, popped, skipped, trackPcm, written, dropped, since, overrun>>
    BY <1>4 DEF SessionReceives, udpVars, trackVars, fanoutHistory
  <2>2. Heard(s)' = Heard(s) /\ Held(s)' = Held(s) \o Samples(Head(unread[s]))
    <3>1. Samples(Head(unread[s])) \in Seq(Nat)
      <4>1. unread[s] \in Seq(Chunks) /\ unread[s] # <<>>
        BY <2>1, LineTypes DEF Receive
      <4>2. Head(unread[s]) \in Chunks
        BY <4>1
      <4> QED BY <4>2, SamplesOf
    <3>2. <<>> \o Samples(Head(unread[s])) = Samples(Head(unread[s]))
      BY <3>1, ConcatEmptySeq
    <3>3. rest'[s] = Samples(Head(unread[s]))
      BY <2>1
    <3> QED BY <2>1, <3>2, <3>3, Kinds, KindsNext
  <2>3. l # s => Heard(l)' = Heard(l) /\ Held(l)' = Held(l)
    <3>1. l # s /\ l \in Sessions => rest'[l] = rest[l]
      BY <2>1
    <3> QED BY <2>1, <3>1, SameLine
  <2> QED BY <1>s, <2>1, <2>2, <2>3, ReceiveSteps
<1>5. CASE SessionLags(s)
  BY <1>5, <1>s, LagSteps DEF SessionLags
<1>6. CASE SessionSends(s)
  <2>1. /\ rest[s] # <<>> /\ UNCHANGED channelVars
        /\ streamed' = [streamed EXCEPT ![s] = streamed[s] \o SubSeq(rest[s], 1, Fragment(s))]
        /\ rest' = [rest EXCEPT ![s] = SubSeq(rest[s], Fragment(s) + 1, Len(rest[s]))]
        /\ UNCHANGED <<session, pcm, popped, skipped, trackPcm, written, dropped, since, overrun>>
    BY <1>6 DEF SessionSends, udpVars, trackVars, fanoutHistory
  <2> DEFINE e == Fragment(s)
  <2>2. e \in Nat /\ e <= Len(rest[s]) /\ 0 <= e
    <3>1. Len(rest[s]) \in Nat
      BY LenProperties DEF TypeOK
    <3> QED BY <3>1 DEF Fragment
  <2> HIDE DEF e
  <2>3. /\ streamed'[s] = streamed[s] \o SubSeq(rest[s], 1, e)
        /\ rest'[s] = SubSeq(rest[s], e + 1, Len(rest[s]))
    BY <2>1 DEF e
  <2>4. /\ Heard(s)' = Sent(Heard(s), Held(s), 0, e) /\ Held(s)' = Left(Held(s), e)
        /\ e <= Len(Held(s))
    <3>1. Heard(s) = streamed[s] /\ Held(s) = rest[s]
      BY Kinds
    <3>2. Heard(s)' = streamed'[s] /\ Held(s)' = rest'[s]
      BY KindsNext
    <3>3. 0 + 1 = 1
      OBVIOUS
    <3> QED BY <2>2, <2>3, <3>1, <3>2, <3>3 DEF Sent, Left
  <2>5. l # s => Heard(l)' = Heard(l) /\ Held(l)' = Held(l)
    <3>1. l # s /\ l \in Sessions => rest'[l] = rest[l] /\ streamed'[l] = streamed[l]
      BY <2>1
    <3> QED BY <2>1, <3>1, SameLine
  <2>6. Undisturbed(l)' => Undisturbed(l)
    BY <2>1 DEF Undisturbed, channelVars
  <2> QED BY <1>s, <2>1, <2>2, <2>4, <2>5, <2>6, MoveSteps
<1> QED BY <1>1, <1>2, <1>3, <1>4, <1>5, <1>6 DEF SessionStreams

LEMMA Steps ==
  ASSUME TypeOK, Next, NEW l \in Listeners
  PROVE  OneStep(l)
BY StartSteps, CaptureSteps, UdpSteps, TrackSteps, SessionSteps DEF Next

-----------------------------------------------------------------------------
\* Types.

LEMMA QueuedType ==
  ASSUME ChannelTypeOK, NEW l \in Listeners, NEW n \in Nat
  PROVE  /\ Queued(l, [after |-> captured, len |-> n]) \in Seq(Chunks)
         /\ Len(Queued(l, [after |-> captured, len |-> n])) <= Cap
<1> DEFINE c == [after |-> captured, len |-> n]
           u == unread[l]
<1>1. c \in Chunks /\ u \in Seq(Chunks) /\ Len(u) <= Cap
  BY DEF ChannelTypeOK, Chunks
<1>2. CASE Full(l)
  <2>1. u # <<>> /\ Tail(u) \in Seq(Chunks) /\ Len(Tail(u)) = Cap - 1
    BY <1>1, <1>2, Sizes DEF Full
  <2> QED BY <1>1, <1>2, <2>1, Sizes DEF Queued
<1>3. CASE ~Full(l)
  BY <1>1, <1>3, Sizes DEF Queued, Full
<1> QED BY <1>2, <1>3

\* Every operation of the channel keeps its types.
LEMMA ChannelTypes ==
  ASSUME ChannelTypeOK, NEW l \in Listeners, NEW n \in Nat,
         \/ Publish(n) \/ Subscribe(l) \/ Unsubscribe(l) \/ Receive(l) \/ ReceiveLagged(l)
         \/ UNCHANGED channelVars
  PROVE  ChannelTypeOK'
<1> USE Sizes DEF ChannelTypeOK
<1>1. CASE Publish(n)
  BY <1>1, QueuedType DEF Publish
<1>2. CASE Subscribe(l) \/ ReceiveLagged(l)
  BY <1>2 DEF Subscribe, ReceiveLagged
<1>3. CASE Unsubscribe(l)
  <2>1. <<>> \in Seq(Chunks) /\ Len(<<>>) = 0
    OBVIOUS
  <2> QED BY <1>3, <2>1 DEF Unsubscribe
<1>4. CASE Receive(l)
  <2>1. Tail(unread[l]) \in Seq(Chunks) /\ Len(Tail(unread[l])) <= Cap
    BY <1>4 DEF Receive
  <2> QED BY <1>4, <2>1 DEF Receive
<1>5. CASE UNCHANGED channelVars
  BY <1>5 DEF channelVars
<1> QED BY <1>1, <1>2, <1>3, <1>4, <1>5

\* What a task receives is samples.
LEMMA ReceivedType ==
  ASSUME ChannelTypeOK, NEW l \in Listeners, Receive(l)
  PROVE  /\ Samples(Head(unread[l])) \in Seq(Nat)
         /\ \A s \in Seq(Nat) : s \o Samples(Head(unread[l])) \in Seq(Nat)
<1>1. Head(unread[l]) \in Chunks
  BY DEF ChannelTypeOK, Receive
<1> DEFINE c == Head(unread[l])
<1> HIDE DEF c
<1>2. Samples(c) \in Seq(Nat)
  BY <1>1, SamplesOf DEF c
<1>3. \A s \in Seq(Nat) : s \o Samples(c) \in Seq(Nat)
  BY <1>2, ConcatProperties
<1> QED BY <1>2, <1>3 DEF c

LEMMA PacerTypes ==
  ASSUME UdpTypeOK, PacerFrame
  PROVE  UdpTypeOK'
<1> USE Sizes DEF UdpTypeOK
<1>1. Excess \in Nat /\ Excess + Frame <= Len(pcm)
  <2>1. MaxBuf \in Nat /\ MaxBuf >= Frame
    BY DEF MaxBuf
  <2> QED BY <2>1 DEF Excess, PacerFrame
<1>2. SubSeq(pcm, Excess + 1, Excess + Frame) \in Seq(Nat)
  BY <1>1
<1>3. SubSeq(pcm, Excess + Frame + 1, Len(pcm)) \in Seq(Nat)
  BY <1>1
<1> QED BY <1>2, <1>3 DEF PacerFrame

\* The part of the state that is neither the channel's nor the UDP sender's.
TrackTypeOK == trackPcm \in Seq(Nat) /\ written \in Seq(Nat) /\ dropped \in BOOLEAN

WebTypeOK ==
  /\ session \in [Sessions -> {"none", "handshake", "streaming", "closed"}]
  /\ rest \in [Sessions -> Seq(Nat)] /\ streamed \in [Sessions -> Seq(Nat)]

HistoryTypeOK == since \in [Listeners -> Nat] /\ overrun \in [Listeners -> BOOLEAN]

LEMMA Parts ==
  TypeOK <=> ChannelTypeOK /\ UdpTypeOK /\ TrackTypeOK /\ WebTypeOK /\ HistoryTypeOK
BY DEF TypeOK, TrackTypeOK, WebTypeOK, HistoryTypeOK

LEMMA PartsNext ==
  ASSUME ChannelTypeOK', UdpTypeOK', TrackTypeOK', WebTypeOK', HistoryTypeOK'
  PROVE  TypeOK'
BY DEF TypeOK, TrackTypeOK, WebTypeOK, HistoryTypeOK

LEMMA JoinTypes ==
  ASSUME ChannelTypeOK, HistoryTypeOK, NEW l \in Listeners, Joins(l) \/ Overruns(l)
  PROVE  HistoryTypeOK'
<1>1. captured \in Nat
  BY Sizes DEF ChannelTypeOK
<1>2. CASE Joins(l)
  BY <1>1, <1>2 DEF Joins, HistoryTypeOK
<1>3. CASE Overruns(l)
  BY <1>3 DEF Overruns, HistoryTypeOK
<1> QED BY <1>2, <1>3

LEMMA Untouched ==
  /\ UdpTypeOK /\ UNCHANGED udpVars => UdpTypeOK'
  /\ TrackTypeOK /\ UNCHANGED trackVars => TrackTypeOK'
  /\ WebTypeOK /\ UNCHANGED webVars => WebTypeOK'
  /\ HistoryTypeOK /\ UNCHANGED fanoutHistory => HistoryTypeOK'
BY DEF udpVars, trackVars, webVars, fanoutHistory, UdpTypeOK, TrackTypeOK, WebTypeOK,
       HistoryTypeOK

LEMMA TypeStep ==
  ASSUME TypeOK, [Next]_vars
  PROVE  TypeOK'
<1> USE Sizes
<1>t. ChannelTypeOK /\ UdpTypeOK /\ TrackTypeOK /\ WebTypeOK /\ HistoryTypeOK
  BY Parts
<1>0. 0 \in Nat
  OBVIOUS
<1>1. ASSUME NEW l \in Listeners, Start(l) PROVE TypeOK'
  <2>1. ChannelTypeOK'
    BY <1>0, <1>1, <1>t, ChannelTypes DEF Start, Joins
  <2>2. HistoryTypeOK'
    BY <1>1, <1>t, JoinTypes DEF Start
  <2> QED BY <1>1, <1>t, <2>1, <2>2, Untouched, PartsNext DEF Start
<1>2. ASSUME NEW n \in ChunkSizes, Capture(n) PROVE TypeOK'
  <2>1. ChannelTypeOK'
    <3>1. n \in Nat /\ Publish(n) /\ Udp \in Listeners
      BY <1>2 DEF Capture
    <3> QED BY <1>t, <3>1, ChannelTypes
  <2> QED BY <1>2, <1>t, <2>1, Untouched, PartsNext DEF Capture
<1>3. CASE PumpReceives
  <2>1. Receive(Udp) /\ pcm' = pcm \o Samples(Head(unread[Udp])) /\ UNCHANGED <<popped, skipped>>
        /\ UNCHANGED <<trackVars, webVars, fanoutHistory>>
    BY <1>3 DEF PumpReceives, PumpChunk
  <2>2. ChannelTypeOK'
    BY <1>0, <1>t, <2>1, ChannelTypes
  <2>3. UdpTypeOK'
    BY <1>t, <2>1, ReceivedType DEF UdpTypeOK
  <2> QED BY <1>t, <2>1, <2>2, <2>3, Untouched, PartsNext
<1>4. CASE PumpLags
  <2>1. ReceiveLagged(Udp) /\ Overruns(Udp) /\ UNCHANGED <<udpVars, trackVars, webVars>>
    BY <1>4 DEF PumpLags, PumpLagged
  <2>2. ChannelTypeOK'
    BY <1>0, <1>t, <2>1, ChannelTypes
  <2>3. HistoryTypeOK'
    BY <1>t, <2>1, JoinTypes
  <2> QED BY <1>t, <2>1, <2>2, <2>3, Untouched, PartsNext
<1>5. CASE Pace
  <2>1. /\ (PacerFrame \/ UNCHANGED udpVars) /\ UNCHANGED channelVars
        /\ UNCHANGED <<trackVars, webVars, fanoutHistory>>
    BY <1>5 DEF Pace, PacerFrame, PacerStarved
  <2>2. ChannelTypeOK'
    BY <1>0, <1>t, <2>1, ChannelTypes
  <2>3. UdpTypeOK'
    BY <1>t, <2>1, PacerTypes, Untouched
  <2> QED BY <1>t, <2>1, <2>2, <2>3, Untouched, PartsNext
<1>6. CASE TrackStep
  <2>1. CASE TrackReceives
    <3>1. /\ Receive(Track) /\ trackPcm' = trackPcm \o Samples(Head(unread[Track]))
          /\ UNCHANGED <<written, dropped, udpVars, webVars, fanoutHistory>>
      BY <2>1 DEF TrackReceives
    <3>2. ChannelTypeOK'
      BY <1>0, <1>t, <3>1, ChannelTypes
    <3>3. TrackTypeOK'
      BY <1>t, <3>1, ReceivedType DEF TrackTypeOK
    <3> QED BY <1>t, <3>1, <3>2, <3>3, Untouched, PartsNext
  <2>2. CASE TrackLags
    <3>1. ReceiveLagged(Track) /\ Overruns(Track) /\ UNCHANGED <<udpVars, trackVars, webVars>>
      BY <2>2 DEF TrackLags
    <3>2. ChannelTypeOK'
      BY <1>0, <1>t, <3>1, ChannelTypes
    <3>3. HistoryTypeOK'
      BY <1>t, <3>1, JoinTypes
    <3> QED BY <1>t, <3>1, <3>2, <3>3, Untouched, PartsNext
  <2>3. CASE TrackWrites \/ TrackFails
    <3>1. /\ Len(trackPcm) >= OpusFrame
          /\ trackPcm' = SubSeq(trackPcm, OpusFrame + 1, Len(trackPcm))
          /\ \/ written' = written \o SubSeq(trackPcm, 1, OpusFrame) /\ dropped' = dropped
             \/ written' = written /\ dropped' = TRUE
          /\ UNCHANGED <<channelVars, udpVars, webVars, fanoutHistory>>
      BY <2>3 DEF TrackWrites, TrackFails, TrackTakes
    <3>2. ChannelTypeOK'
      BY <1>0, <1>t, <3>1, ChannelTypes
    <3>3. TrackTypeOK'
      <4>1. SubSeq(trackPcm, OpusFrame + 1, Len(trackPcm)) \in Seq(Nat)
        BY <1>t DEF TrackTypeOK
      <4>2. SubSeq(trackPcm, 1, OpusFrame) \in Seq(Nat)
        BY <1>t, <3>1 DEF TrackTypeOK
      <4>3. written \o SubSeq(trackPcm, 1, OpusFrame) \in Seq(Nat)
        BY <1>t, <4>2, ConcatProperties DEF TrackTypeOK
      <4> QED BY <1>t, <3>1, <4>1, <4>3 DEF TrackTypeOK
    <3> QED BY <1>t, <3>1, <3>2, <3>3, Untouched, PartsNext
  <2> QED BY <1>6, <2>1, <2>2, <2>3 DEF TrackStep
<1>7. ASSUME NEW s \in Sessions,
             \/ SessionAccepted(s) \/ SessionEstablished(s) \/ SessionEnds(s)
             \/ SessionStreams(s)
      PROVE  TypeOK'
  <2>s. s \in Listeners
    OBVIOUS
  <2>1. CASE SessionAccepted(s)
    <3>1. ChannelTypeOK'
      BY <1>0, <1>t, <2>1, <2>s, ChannelTypes DEF SessionAccepted, Joins
    <3>2. HistoryTypeOK'
      BY <1>t, <2>1, <2>s, JoinTypes DEF SessionAccepted
    <3>3. WebTypeOK'
      BY <1>t, <2>1 DEF SessionAccepted, WebTypeOK
    <3> QED BY <1>t, <2>1, <3>1, <3>2, <3>3, Untouched, PartsNext DEF SessionAccepted
  <2>2. CASE SessionEstablished(s)
    <3>1. ChannelTypeOK'
      BY <1>0, <1>t, <2>2, <2>s, ChannelTypes DEF SessionEstablished
    <3>2. WebTypeOK'
      BY <1>t, <2>2 DEF SessionEstablished, WebTypeOK
    <3> QED BY <1>t, <2>2, <3>1, <3>2, Untouched, PartsNext DEF SessionEstablished
  <2>3. CASE SessionEnds(s)
    <3>1. ChannelTypeOK'
      BY <1>0, <1>t, <2>3, <2>s, ChannelTypes DEF SessionEnds
    <3>2. WebTypeOK'
      <4>1. <<>> \in Seq(Nat)
        OBVIOUS
      <4> QED BY <1>t, <2>3, <4>1 DEF SessionEnds, WebTypeOK
    <3> QED BY <1>t, <2>3, <3>1, <3>2, Untouched, PartsNext DEF SessionEnds
  <2>4. CASE SessionReceives(s)
    <3>1. ChannelTypeOK'
      BY <1>0, <1>t, <2>4, <2>s, ChannelTypes DEF SessionReceives
    <3>2. WebTypeOK'
      BY <1>t, <2>4, <2>s, ReceivedType DEF SessionReceives, WebTypeOK
    <3> QED BY <1>t, <2>4, <3>1, <3>2, Untouched, PartsNext DEF SessionReceives
  <2>5. CASE SessionLags(s)
    <3>1. ChannelTypeOK'
      BY <1>0, <1>t, <2>5, <2>s, ChannelTypes DEF SessionLags
    <3>2. HistoryTypeOK'
      BY <1>t, <2>5, <2>s, JoinTypes DEF SessionLags
    <3> QED BY <1>t, <2>5, <3>1, <3>2, Untouched, PartsNext DEF SessionLags
  <2>6. CASE SessionSends(s)
    <3>1. ChannelTypeOK'
      BY <1>0, <1>t, <2>6, <2>s, ChannelTypes DEF SessionSends
    <3>2. WebTypeOK'
      <4> DEFINE r == rest[s]
                 e == Fragment(s)
                 h == streamed[s]
      <4>1. r \in Seq(Nat) /\ h \in Seq(Nat)
        BY <1>t DEF WebTypeOK
      <4>2. e \in Nat /\ e <= Len(r)
        BY <4>1, LenProperties DEF Fragment
      <4>3. /\ streamed' = [streamed EXCEPT ![s] = h \o SubSeq(r, 1, e)]
            /\ rest' = [rest EXCEPT ![s] = SubSeq(r, e + 1, Len(r))]
            /\ session' = session
        BY <2>6 DEF SessionSends
      <4> HIDE DEF r, e, h
      <4>4. SubSeq(r, 1, e) \in Seq(Nat) /\ SubSeq(r, e + 1, Len(r)) \in Seq(Nat)
        BY <4>1, <4>2
      <4>5. h \o SubSeq(r, 1, e) \in Seq(Nat)
        BY <4>1, <4>4, ConcatProperties
      <4> QED BY <1>t, <4>3, <4>4, <4>5 DEF WebTypeOK
    <3> QED BY <1>t, <2>6, <3>1, <3>2, Untouched, PartsNext DEF SessionSends
  <2> QED BY <1>7, <2>1, <2>2, <2>3, <2>4, <2>5, <2>6 DEF SessionStreams
<1>8. CASE UNCHANGED vars
  <2>1. ChannelTypeOK'
    BY <1>0, <1>8, <1>t, ChannelTypes DEF vars
  <2> QED BY <1>8, <1>t, <2>1, Untouched, PartsNext DEF vars
<1> QED BY <1>1, <1>2, <1>3, <1>4, <1>5, <1>6, <1>7, <1>8 DEF Next

LEMMA InitTypes ==
  ASSUME Init
  PROVE  TypeOK
<1>1. <<>> \in Seq(Chunks) /\ <<>> \in Seq(Nat) /\ Len(<<>>) = 0
  OBVIOUS
<1>2. ChannelTypeOK
  <2>1. unread \in [Listeners -> Seq(Chunks)] /\ \A l \in Listeners : unread[l] = <<>>
    BY <1>1 DEF Init, ChannelInit
  <2> QED BY <1>1, <2>1, Sizes DEF Init, ChannelInit, ChannelTypeOK
<1>3. UdpTypeOK /\ TrackTypeOK /\ HistoryTypeOK
  BY <1>1 DEF Init, UdpInit, UdpTypeOK, TrackTypeOK, HistoryTypeOK
<1>4. WebTypeOK
  BY <1>1 DEF Init, WebTypeOK
<1> QED BY <1>2, <1>3, <1>4, Parts

-----------------------------------------------------------------------------
\* The invariant.

LEMMA InitInv ==
  ASSUME Init
  PROVE  FanoutInv
<1>1. TypeOK
  BY InitTypes
<1>2. ASSUME NEW l \in Listeners PROVE ListenerInv(l)
  <2>1. unread[l] = <<>> /\ captured = 0 /\ l \notin subscribed
    BY DEF Init, ChannelInit
  <2>2. Heard(l) = <<>> /\ Held(l) = <<>>
    BY Sizes, Kinds DEF Init, UdpInit
  <2>3. Len(unread[l]) = 0
    BY <2>1
  <2>4. ChunksFollow(l)
    BY <2>3 DEF ChunksFollow
  <2>5. Afresh(l)
    BY <2>1, <2>2 DEF Afresh
  <2>6. Rising(Line(l), Before(l, 1))
    <3>1. Line(l) = <<>> /\ Len(Line(l)) = 0
      BY <2>2 DEF Line
    <3> QED BY <3>1 DEF Rising
  <2>7. Complete(l)
    BY <2>1 DEF Complete, Undisturbed
  <2> QED BY <2>4, <2>5, <2>6, <2>7 DEF ListenerInv
<1> QED BY <1>1, <1>2 DEF FanoutInv

LEMMA StutterSteps ==
  ASSUME UNCHANGED vars, NEW l \in Listeners
  PROVE  OneStep(l)
<1>1. Idles(l)
  BY Aside DEF vars, channelVars, udpVars, trackVars, webVars, fanoutHistory
<1> QED BY <1>1 DEF OneStep

LEMMA InvStep ==
  ASSUME FanoutInv, [Next]_vars
  PROVE  FanoutInv'
<1>1. TypeOK /\ \A l \in Listeners : ListenerInv(l)
  BY DEF FanoutInv
<1>2. TypeOK'
  BY <1>1, TypeStep
<1>3. ASSUME NEW l \in Listeners PROVE ListenerInv(l)'
  <2>1. OneStep(l)
    BY <1>1, Steps, StutterSteps
  <2> QED BY <1>1, <2>1, CapturesKeep, TakesKeep, MovesKeep, IdlesKeep, ComesKeep, GoesKeep
          DEF OneStep
<1> QED BY <1>2, <1>3 DEF FanoutInv

\* Every variable of the channel and of its listeners keeps its type: in
\* particular no listener's queue grows beyond the channel's capacity.
THEOREM FanoutTypes == Spec => []TypeOK
<1>1. Init => TypeOK
  BY InitTypes
<1>2. TypeOK /\ [Next]_vars => TypeOK'
  BY TypeStep
<1> QED BY <1>1, <1>2, PTL DEF Spec

THEOREM Fanned == Spec => []FanoutInv
<1>1. Init => FanoutInv
  BY InitInv
<1>2. FanoutInv /\ [Next]_vars => FanoutInv'
  BY InvStep
<1> QED BY <1>1, <1>2, PTL DEF Spec

\* Audio that a listener misses, it misses for a cause that the code logs: a
\* lag, the pacer's cap or a failed write.  Otherwise what it was sent, what it
\* holds and what waits for it are all the samples since it subscribed.
THEOREM NothingLost == Spec => []NothingLostSilently
<1>1. FanoutInv => NothingLostSilently
  BY DEF FanoutInv, ListenerInv, Complete, ChunksFollow, Line, NothingLostSilently
<1> QED BY <1>1, Fanned, PTL

-----------------------------------------------------------------------------
\* What a step is to the stream of one listener.
LEMMA StreamStep ==
  ASSUME TypeOK, NEW l \in Listeners, ListenerInv(l), OneStep(l)
  PROVE  [Stream(l)!Next]_(Stream(l)!vars)
<1> USE DEF Stream!Next, Stream!Capture, Stream!Hear, Stream!vars
<1>1. ASSUME NEW n \in Nat, Captures(l, n) PROVE [Stream(l)!Next]_(Stream(l)!vars)
  <2>1. captured \in Nat /\ captured' = captured + n /\ Heard(l)' = Heard(l)
    BY <1>1, LineTypes, Sizes DEF Captures, Publish
  <2>2. captured' > captured \/ captured' = captured
    BY <2>1
  <2> QED BY <2>1, <2>2
<1>2. CASE Takes(l) \/ Idles(l) \/ Comes(l) \/ Goes(l)
  BY <1>2 DEF Takes, Idles, Comes, Goes
<1>3. CASE Moves(l)
  <2>1. PICK d \in Nat, e \in Nat :
          /\ d <= e /\ e <= Len(Held(l))
          /\ Heard(l)' = Sent(Heard(l), Held(l), d, e) /\ captured' = captured
    BY <1>3 DEF Moves
  <2> DEFINE h == Heard(l)
             last == Before(l, 1)
             sent == Sent(Heard(l), Held(l), d, e)
  <2>2. h \in Seq(Nat) /\ Held(l) \in Seq(Nat)
    BY LineTypes
  <2>3. Rising(Heard(l) \o Held(l), last) /\ ChunksFollow(l)
    BY DEF ListenerInv, Line
  <2>4. last \in Nat /\ last <= captured /\ captured \in Nat
    BY <2>3, BeforeIs
  <2>5. \/ sent = h
        \/ /\ Len(sent) > Len(h) /\ SubSeq(sent, 1, Len(h)) = h
           /\ \A i \in Len(h) + 1 .. Len(sent) :
                sent[i] <= last /\ (i > 1 => sent[i - 1] < sent[i])
    BY <2>1, <2>2, <2>3, HeardMoved
  <2>6. sent \in Seq(Nat) /\ Len(h) \in Nat
    BY <2>1, <2>2, Moved, LenProperties DEF GoesOn
  <2>7. h = Heard(l) /\ Heard(l)' = sent
    BY <2>1
  <2> HIDE DEF h, last, sent
  <2>8. ASSUME NEW i \in Len(h) + 1 .. Len(sent), sent[i] <= last PROVE sent[i] <= captured
    <3>1. i \in 1 .. Len(sent)
      BY <2>6, LenProperties
    <3>2. sent[i] \in Nat
      BY <2>6, <3>1, LenProperties
    <3> QED BY <2>4, <2>8, <3>2
  <2>9. \/ sent = h
        \/ /\ Len(sent) > Len(h) /\ SubSeq(sent, 1, Len(h)) = h
           /\ \A i \in Len(h) + 1 .. Len(sent) :
                sent[i] <= captured /\ (i > 1 => sent[i - 1] < sent[i])
    BY <2>5, <2>8
  <2> QED BY <2>1, <2>7, <2>9
<1> QED BY <1>1, <1>2, <1>3 DEF OneStep

\* Every listener's stream is the lossy one that the abstract specification
\* promises, whatever the timing of the threads and the losses.
THEOREM Streams == Spec => ListenersStream
<1>1. Init => \A l \in Listeners : Stream(l)!Init
  <2> SUFFICES ASSUME Init, NEW l \in Listeners PROVE Stream(l)!Init
    OBVIOUS
  <2>1. captured = 0
    BY DEF Init, ChannelInit
  <2>2. Heard(l) = <<>>
    BY Sizes, Kinds DEF Init, UdpInit
  <2> QED BY <2>1, <2>2 DEF Stream!Init
<1>2. FanoutInv /\ [Next]_vars => [\A l \in Listeners : [Stream(l)!Next]_(Stream(l)!vars)]_vars
  <2> SUFFICES ASSUME FanoutInv, [Next]_vars, NEW l \in Listeners
               PROVE  [Stream(l)!Next]_(Stream(l)!vars)
    OBVIOUS
  <2>1. TypeOK /\ ListenerInv(l)
    BY DEF FanoutInv
  <2>2. OneStep(l)
    BY <2>1, Steps, StutterSteps
  <2> QED BY <2>1, <2>2, StreamStep
<1> QED BY <1>1, <1>2, Fanned, PTL DEF Spec, ListenersStream
=============================================================================
