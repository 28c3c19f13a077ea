SPECIFICATION Spec
CONSTANTS
  Requests = {r1}
  Connections = {c1, c2}
  None = None
  MaxRetries = 0
  FailureThreshold = 2
  DegradationThreshold = 1
  HalfOpenRequests = 1
  MaxCycles = 1
INVARIANT RepeatedFailureOpens
