SPECIFICATION LiveSpec
CONSTANTS
  Requests = {r1, r2, r3, r4}
  Caps = {1, 2}
  DefaultMax = 3
  QueueSizes = {0, 2}
  MaxTimers = 2
INVARIANT TypeOK
INVARIANT QueueIsWaiting
INVARIANT SlotsAccounted
INVARIANT IdleGateHasTimer
PROPERTY WaitersInOrder
PROPERTY WaitersServed
PROPERTY ImplementsLimiter
