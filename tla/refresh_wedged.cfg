SPECIFICATION LiveSpec
CONSTANTS
  Proactive = {p}
  Reactive = {r}
  Sweeping = {}
  OnDemand = {d}
  Connections = {c1, c2}
  Tickets = {c1, c2, d}
  c1 = c1
  c2 = c2
  Uses <- MCUses
  None = None
  Out = Out
  MaxVersion = 2
  MaxRenewals = 1
  MaxAttempts = 1
  MaxFaults = 0
CHECK_DEADLOCK FALSE
PROPERTY QueueFlows
