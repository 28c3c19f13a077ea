SPECIFICATION LiveSpec
CONSTANTS
  Proactive = {}
  Reactive = {r}
  Sweeping = {s}
  OnDemand = {d}
  Connections = {c1, c2}
  Tickets = {c1, c2, d}
  c1 = c1
  c2 = c2
  Uses <- MCUses
  None = None
  Out = Out
  MaxVersion = 3
  MaxRenewals = 2
  MaxAttempts = 2
  MaxFaults = 1
CHECK_DEADLOCK FALSE
INVARIANT TypeOK
INVARIANT ChainIsLine
INVARIANT OneMintPerGroup
INVARIANT LostBeforeGone
PROPERTY RefreshesEnd
