---------------------------- MODULE MCAudioFanout ----------------------------
(* One session beside the two resident listeners; chunks of one frame, and of *)
(* one and a half; a channel and a backlog cap small enough to be overrun.   *)
EXTENDS AudioFanout
=============================================================================
