SPECIFICATION Spec
CONSTANTS
  v1 = v1
  v2 = v2
  None = None
  Slots = {2, 4, 6, 8, 11}
  Versions = {v1}
  PinVersionWindow = 1
  MaxSchedulingDelay = 1
  MaxAttempts = 3
  HistoryLimit = 1
  Offers = {v1}
  SuspendedAt = {5, 6}
  Switchable = FALSE
  MaxTime = 9
  MaxFaults = 2
INVARIANTS
  OneOpenJob
PROPERTIES
  NoSlotMissed
  KeepsNewest
  HistoryTrimmed
  DecidedOnce
CHECK_DEADLOCK FALSE
