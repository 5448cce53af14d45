CONSTANTS
  e1 = e1
  e2 = e2
  k1 = k1
  a1 = a1
  a2 = a2
  Events = {e1, e2}
  Alert <- SameKey
  Keys = {k1}
  Channels = {"telegram"}
  Configured = {"telegram"}
  Targets = {"default"}
  MaxAttempts = 2
  BatchSize = 1
  Admins = {a1}
  MaxFailures = 0
  MaxFaults = 0
  MaxRetries = 0
SPECIFICATION Spec
INVARIANTS
  FirstIsDelivered
CHECK_DEADLOCK FALSE
