SPECIFICATION Spec
CONSTANTS
  v1 = v1
  v2 = v2
  None = None
  Slots = {1, 2, 3, 4, 9}
  Versions = {v1}
  PinVersionWindow = 0
  MaxSchedulingDelay = 0
  MaxAttempts = 1
  HistoryLimit = 0
  Offers = {v1}
  SuspendedAt = {2, 3}
  Switchable = FALSE
  MaxTime = 5
  MaxFaults = 0
PROPERTIES
  NoSlotMissed
CHECK_DEADLOCK FALSE
