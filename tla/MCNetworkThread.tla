--------------------------- MODULE MCNetworkThread ---------------------------
(* A ring of four slots, so that positions wrap around and every payload of  *)
(* two can overflow it; rates of one half, one and one and a half samples a  *)
(* frame; callbacks of one and two frames; six samples, so that the ring is  *)
(* filled and drained more than once.  The two threads interleave freely     *)
(* except that an overflowing write and a callback exclude one another.      *)
(* Five datagrams of a session that begins at number 2, where a first gap    *)
(* would already pass the limit: their numbers are 2, 3, 4, -5, -4 to the    *)
(* engine, and gaps of one are counted.                                      *)
EXTENDS NetworkThread
=============================================================================
