-------------------------- MODULE MCListeningSystem --------------------------
(* Two connect attempts, so that one can replace, or run beside, the session *)
(* of the other; any number of launches of the server.                       *)
EXTENDS ListeningSystem
=============================================================================
