CONSTANTS
  e1 = e1
  e2 = e2
  k1 = k1
  a1 = a1
  a2 = a2
  Events = {e1, e2}
  Alert <- TwoChats
  Keys = {k1}
  Channels = {"telegram"}
  Configured = {"telegram"}
  Targets = {"default", "other"}
  MaxAttempts = 2
  BatchSize = 2
  Admins = {a1, a2}
  MaxFailures = 2
  MaxFaults = 1
  MaxRetries = 2
SPECIFICATION FairSpec
INVARIANTS
  TypeOK
  DeliveredOnce
  SentIsDelivered
  OpenHasAttempts
  AcceptedIsCovered
  SuppressedForTwin
PROPERTIES
  DeliverySettles
CHECK_DEADLOCK FALSE
