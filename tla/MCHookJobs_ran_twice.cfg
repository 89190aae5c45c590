SPECIFICATION Spec
CONSTANTS
  j1 = j1  j2 = j2  h1 = h1  h2 = h2
  UpgradeJobs = {j1}
  Hooks = {h1}
  Runs <- MCOneHook
  RunNext = {h1}
  Abort = {h1}
  None = None
  EarlyDeletion = TRUE
  MaxCreations = 2
  MaxFaults = 0
INVARIANTS
  RunsOnce
CHECK_DEADLOCK FALSE
