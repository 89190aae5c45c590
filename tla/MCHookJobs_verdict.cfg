SPECIFICATION FairSpec
CONSTANTS
  j1 = j1  j2 = j2  h1 = h1  h2 = h2
  UpgradeJobs = {j1, j2}
  Hooks = {h1}
  Runs <- MCOneHook
  RunNext = {h1}
  Abort = {h1}
  None = None
  EarlyDeletion = FALSE
  MaxCreations = 2
  MaxFaults = 2
PROPERTIES
  FinalizersReleased
  VerdictReached
CHECK_DEADLOCK FALSE
