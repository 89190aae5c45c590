SPECIFICATION FairSpec
CONSTANTS
  j1 = j1  j2 = j2  p1 = p1  p2 = p2  v1 = v1  v2 = v2
  None = None
  Jobs = {j1}
  Pools = {p1}
  Versions = {v1}
  DesiredVersion <- MCDesired
  CheckAvailability <- MCCheckFirst
  StartAfter <- MCStartAfter
  StartBefore <- MCStartBefore
  UpgradeTimeout = 2
  HealthTimeout <- MCHealthTimeout
  SkipDegraded = {}
  DelayedPools = {}
  DelayMin <- MCDelayMin
  DelayMax <- MCNoDelay
  PauseOnFailure = {p1}
  HookEvents = {}
  SuspendedAt <- MCNeverSuspended
  Deletable = {}
  AdminPools = {}
  Toggles = {}
  MaxTime = 3
  MaxFaults = 1
PROPERTIES
  FailurePauses
CHECK_DEADLOCK FALSE
