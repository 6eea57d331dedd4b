-------------------------- MODULE MCCircuitBreaker --------------------------
(* Two request tasks and the checker; thresholds scaled down (5 -> 2       *)
(* failures, 30 -> 2 seconds) so that every boundary is inside the bounds. *)
EXTENDS CircuitBreaker
=============================================================================
