SPECIFICATION Spec
CONSTANTS
  Providers = {"other"}
  Requests = {r1, r2, r3}
  MaxLevel = 1
  MaxTime = 0
  MaxRestarts = 0
  NoRequest = NoRequest
CHECK_DEADLOCK FALSE

PROPERTY TerminalNotCooled
