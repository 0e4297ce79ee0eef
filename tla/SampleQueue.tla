----------------------------- MODULE SampleQueue -----------------------------
(***************************************************************************)
(* What a playback buffer promises: a bounded queue of samples.  Samples   *)
(* are appended in the order they arrive and played in that order; when    *)
(* there is no room the oldest are dropped to make it.                     *)
(***************************************************************************)
EXTENDS Naturals, Sequences

CONSTANT Capacity \* a natural number

VARIABLES
  queue,  \* the samples buffered, oldest first
  played  \* the samples played so far

vars == <<queue, played>>

Init ==
  /\ queue \in Seq({0}) /\ Len(queue) <= Capacity
  /\ played = <<>>

\* The old queue, less some of its oldest samples, is a prefix of the new one.
Arrive ==
  /\ Len(queue') > Len(queue) /\ Len(queue') <= Capacity
  /\ SubSeq(queue', 1, Len(queue)) = queue
  /\ UNCHANGED played

DropOldest ==
  /\ \E k \in 1 .. Len(queue) : queue' = SubSeq(queue, k + 1, Len(queue))
  /\ UNCHANGED played

Play ==
  \E k \in 1 .. Len(queue) :
    /\ played' = played \o SubSeq(queue, 1, k)
    /\ queue' = SubSeq(queue, k + 1, Len(queue))

Next == Arrive \/ DropOldest \/ Play

Spec == Init /\ [][Next]_vars
=============================================================================
