SPECIFICATION Spec
CONSTANTS
  Requests = {r1, r2}
  Connections = {c1, c2}
  None = None
  MaxRetries = 1
  FailureThreshold = 2
  DegradationThreshold = 1
  HalfOpenRequests = 1
  MaxCycles = 1
INVARIANT TypeOK
PROPERTY ImplementsGuard
SYMMETRY Symmetry
