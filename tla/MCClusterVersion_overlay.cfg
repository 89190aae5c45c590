SPECIFICATION FairSpec
CONSTANTS
  j1 = j1  v1 = v1   a = a  b = b
  None = None
  Jobs = {j1}
  DesiredVersion <- MCDesired
  Fields = {"channel", "upstream"}
  Values = {a, b}
  Configs <- MCConfigs
  MaxTime = 2
  MaxEdits = 1
  MaxFaults = 1
INVARIANTS
  TypeOK
  OverlayInForce
  StatusTruthful
PROPERTIES
  LockUndisturbed
  ComesToRest
CHECK_DEADLOCK FALSE
