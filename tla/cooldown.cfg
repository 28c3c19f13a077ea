SPECIFICATION LiveSpec
CONSTANTS
  Providers = {"claude", "codex", "other"}
  Requests = {r1, r2, r3}
  MaxLevel = 1
  MaxTime = 2
  MaxRestarts = 1
  NoRequest = NoRequest
CHECK_DEADLOCK FALSE
INVARIANT TypeOK
PROPERTY RecoveryKeepsNews
PROPERTY MarksEnd
