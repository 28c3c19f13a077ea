SPECIFICATION LiveSpec
CONSTANTS
  r1 = r1
  r2 = r2
  r3 = r3
  r4 = r4
  Requests = {r1, r2, r3, r4}
  Caps = {1, 2}
  MaxQueueSize = 2
  MaxTimers = 2
  MayReset = FALSE
PROPERTIES
  ImplementsLimiter
  WaitersServed
  UnusedGateCollected
