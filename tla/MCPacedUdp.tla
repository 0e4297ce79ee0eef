----------------------------- MODULE MCPacedUdp -----------------------------
(* One sample per frame, bursts of two, a cap that CapAmple only just allows *)
(* (0 + 2 + 1 + 1 * 2 = 5), and enough samples for the backlog to reach it.  *)
EXTENDS PacedUdp

ASSUME CapAmple
=============================================================================
