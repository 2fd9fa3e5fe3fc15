------------------------------- MODULE MCPump -------------------------------
(* Model-checking instances of Pump: handles are reused, four are enough for *)
(* two chains, their re-armed successors and the slow interval.              *)
EXTENDS Pump

MCFrameIds == 1..8
=============================================================================
