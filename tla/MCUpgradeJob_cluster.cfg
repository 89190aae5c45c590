SPECIFICATION Spec
CONSTANTS
  j1 = j1  j2 = j2  p1 = p1  p2 = p2  v1 = v1  v2 = v2
  None = None
  Jobs = {j1, j2}
  Pools = {p1}
  Versions = {v1}
  DesiredVersion <- MCNoVersion
  CheckAvailability <- MCCheckFirst
  StartAfter <- MCStartAfter
  StartBefore <- MCStartBefore
  UpgradeTimeout = 2
  HealthTimeout <- MCHealthTimeout
  SkipDegraded = {}
  DelayedPools = {p1}
  DelayMin <- MCDelayMin
  DelayMax <- MCNoDelay
  PauseOnFailure = {p1}
  HookEvents = {}
  SuspendedAt <- MCNeverSuspended
  Deletable = {}
  AdminPools = {p1}
  Toggles = {}
  MaxTime = 3
  MaxFaults = 1
INVARIANTS
  LockInv
PROPERTIES
  CutShortByCleanup
CHECK_DEADLOCK FALSE
