------------------------ MODULE MCRateLimitSemaphore ------------------------
(* Finite instances of RateLimitSemaphore.  They check liveness, so the callers *)
(* are kept apart although they are interchangeable.                            *)
EXTENDS RateLimitSemaphore
=============================================================================
