-------------------------- MODULE MCHeartbeatLease --------------------------
(* The code's times in seconds: delay(5000), a call of up to 3 s to connect *)
(* and 3 s to read, the reaper's sleep of 5 s and the default timeout of    *)
(* 15 s; a wait for the lock takes up to one second.  Clients share only    *)
(* the sweep, which judges each by its own age: one of them is enough.      *)
EXTENDS HeartbeatLease

=============================================================================
