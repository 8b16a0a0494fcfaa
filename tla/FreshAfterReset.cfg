SPECIFICATION VlaSpec
CONSTANTS
  Clients = {a}
  MaxCalls = 3
  MaxRetries = 2
  QueueLength = 2
INVARIANTS
  FreshAfterReset
CHECK_DEADLOCK FALSE
