SPECIFICATION Spec
CONSTANTS
  v1 = v1
  v2 = v2
  None = None
  Slots = {2, 4, 9}
  Versions = {v1}
  PinVersionWindow = 1
  MaxSchedulingDelay = 0
  MaxAttempts = 0
  HistoryLimit = 0
  Offers = {v1, None}
  SuspendedAt = {3}
  Switchable = TRUE
  MaxTime = 4
  MaxFaults = 1
INVARIANTS
  TypeOK
PROPERTIES
  NoSlotMissed
  LastGrows
CHECK_DEADLOCK FALSE
