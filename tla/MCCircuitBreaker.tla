-------------------------- MODULE MCCircuitBreaker --------------------------
(* Finite instances of CircuitBreaker.  FailureThreshold and                *)
(* DegradationThreshold are scaled down with their order kept.              *)
EXTENDS CircuitBreaker
=============================================================================
