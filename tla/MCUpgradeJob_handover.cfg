SPECIFICATION FairSpec
CONSTANTS
  j1 = j1  j2 = j2  p1 = p1  p2 = p2  v1 = v1  v2 = v2
  None = None
  Jobs = {j1, j2}
  Pools = {}
  Versions = {v1}
  DesiredVersion <- MCNoVersion
  CheckAvailability <- MCCheckFirst
  StartAfter <- MCStartAfter
  StartBefore <- MCStartBefore
  UpgradeTimeout = 1
  HealthTimeout <- MCHealthTimeout
  SkipDegraded = {}
  DelayedPools = {}
  DelayMin <- MCNoDelay
  DelayMax <- MCNoDelay
  PauseOnFailure = {}
  HookEvents = {}
  SuspendedAt <- MCNeverSuspended
  Deletable = {}
  AdminPools = {}
  Toggles = {"degraded"}
  MaxTime = 3
  MaxFaults = 1
INVARIANTS
  SuccessMeansUpgraded
PROPERTIES
  StartedFinishes
  LockReleased
CHECK_DEADLOCK FALSE
