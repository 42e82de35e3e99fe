------------------------- MODULE MCAutoscalingGuard -------------------------
(* An instance of AutoscalingGuard for TLC: the latch is off, trips at once *)
(* or at the second failure.                                               *)
EXTENDS AutoscalingGuard

Levels == {0, 1, 2}
=============================================================================
