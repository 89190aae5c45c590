SPECIFICATION Spec
CONSTANTS
  v1 = v1
  v2 = v2
  None = None
  Slots = {2, 4, 9}
  Versions = {v1}
  PinVersionWindow = 1
  MaxSchedulingDelay = 1
  MaxAttempts = 3
  HistoryLimit = 0
  Offers = {v1, None}
  SuspendedAt = {}
  Switchable = FALSE
  MaxTime = 5
  MaxFaults = 0
INVARIANTS
  OneOpenJob
CHECK_DEADLOCK FALSE
