SPECIFICATION LiveSpec
CONSTANTS
  Requests = {r1, r2}
  Connections = {c1}
  None = None
  MaxRetries = 1
  FailureThreshold = 2
  DegradationThreshold = 1
  HalfOpenRequests = 1
  MaxCycles = 1
PROPERTY RequestsEnd
PROPERTY OpenEnds
