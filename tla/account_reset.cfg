SPECIFICATION Spec
CONSTANTS
  r1 = r1
  r2 = r2
  r3 = r3
  r4 = r4
  r5 = r5
  Requests = {r1, r2, r3, r4, r5}
  Caps = {1, 2}
  MaxQueueSize = 3
  MaxTimers = 2
  MayReset = TRUE
INVARIANTS
  TypeOK
  QueueIsWaiting
  SlotsAccounted
  IdleGateHasTimer
PROPERTIES
  WaitersInOrder
SYMMETRY CallerSymmetry
