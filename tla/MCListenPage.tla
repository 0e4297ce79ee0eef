---------------------------- MODULE MCListenPage ----------------------------
(* Two calls of connect(), each with its request to /offer, so that one can  *)
(* follow, overlap or undo the other; one cleanup task of a peer at a time.  *)
EXTENDS ListenPage
=============================================================================
