SPECIFICATION FairSpec
CONSTANTS
  j1 = j1  j2 = j2  p1 = p1  p2 = p2  v1 = v1  v2 = v2
  None = None
  Jobs = {j1, j2}
  Pools = {p1}
  Versions = {v1}
  DesiredVersion <- MCNoVersion
  CheckAvailability <- MCCheckFirst
  StartAfter <- MCStartLater
  StartBefore <- MCStartLaterBefore
  UpgradeTimeout = 1
  HealthTimeout <- MCHealthTimeout
  SkipDegraded = {}
  DelayedPools = {p1}
  DelayMin <- MCDelayLong
  DelayMax <- MCNoDelay
  PauseOnFailure = {}
  HookEvents = {}
  SuspendedAt <- MCNeverSuspended
  Deletable = {}
  AdminPools = {}
  Toggles = {}
  MaxTime = 5
  MaxFaults = 0
PROPERTIES
  SuccessUnpauses
CHECK_DEADLOCK FALSE
