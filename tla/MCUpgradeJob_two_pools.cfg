SPECIFICATION FairSpec
CONSTANTS
  j1 = j1  j2 = j2  p1 = p1  p2 = p2  v1 = v1  v2 = v2
  None = None
  Jobs = {j1}
  Pools = {p1, p2}
  Versions = {v1}
  DesiredVersion <- MCDesired
  CheckAvailability <- MCCheckFirst
  StartAfter <- MCStartAfter
  StartBefore <- MCStartBefore
  UpgradeTimeout = 2
  HealthTimeout <- MCHealthTimeout
  SkipDegraded = {}
  DelayedPools = {p1, p2}
  DelayMin <- MCDelayBoth
  DelayMax <- MCNoDelay
  PauseOnFailure = {}
  HookEvents = {"MachineConfigPoolUnpause"}
  SuspendedAt <- MCNeverSuspended
  Deletable = {}
  AdminPools = {}
  Toggles = {}
  MaxTime = 3
  MaxFaults = 0
PROPERTIES
  PoolsGivenBack
CHECK_DEADLOCK FALSE
