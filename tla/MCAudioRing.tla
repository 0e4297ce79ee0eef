----------------------------- MODULE MCAudioRing -----------------------------
(* A ring of four slots and six samples, with Overlap: an overflowing write  *)
(* and a callback interleave freely.                                         *)
EXTENDS AudioRing
=============================================================================
