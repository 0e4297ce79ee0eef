----------------------------- MODULE LossyStream -----------------------------
(***************************************************************************)
(* What the server promises a listener of the captured audio: the samples  *)
(* it hears are captured ones, in the order they were captured, none of    *)
(* them twice.  It may miss any of them.                                   *)
(***************************************************************************)
EXTENDS Naturals, Sequences

VARIABLES
  captured, \* samples captured so far, numbered from 1
  heard     \* the samples the listener was sent, in the order they were sent

vars == <<captured, heard>>

Init ==
  /\ captured = 0
  /\ heard = <<>>

Capture ==
  /\ captured' > captured
  /\ UNCHANGED heard

\* The listener hears samples later than all it has heard.
Hear ==
  /\ Len(heard') > Len(heard)
  /\ SubSeq(heard', 1, Len(heard)) = heard
  /\ \A i \in Len(heard) + 1 .. Len(heard') :
       /\ heard'[i] <= captured
       /\ i > 1 => heard'[i - 1] < heard'[i]
  /\ UNCHANGED captured

Next == Capture \/ Hear

Spec == Init /\ [][Next]_vars
=============================================================================
