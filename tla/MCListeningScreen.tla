-------------------------- MODULE MCListeningScreen --------------------------
(* One connect attempt is enough to leave the app in, and to come back to.   *)
EXTENDS ListeningScreen
=============================================================================
