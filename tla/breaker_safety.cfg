SPECIFICATION Spec
CONSTANTS
  Callers = {r1, r2, r3}
  FailureThreshold = 4
  DegradationThreshold = 2
  HalfOpenRequests = 2
  MaxCycles = 2
INVARIANT TypeOK
INVARIANT StateMatchesCount
INVARIANT BackoffCountsFailedProbes
PROPERTY ImplementsGuard
