CONSTANTS
  n1 = n1
  n2 = n2
  p1 = p1
  p2 = p2
  Nodes = {n1, n2}
  Selected = {n1, n2}
  Pods = {p1, p2}
  NodeOf <- MCNodeOf
  Kind <- MCKind
  NodeDrainGracePeriod = 1
  PodForceDeleteGracePeriod = 1
  MaxReconcileInterval = 2
  Drained = {n1}
  None = None
  MaxDrains = 2
  MaxTime = 3
  MaxFaults = 1
SPECIFICATION Spec
CHECK_DEADLOCK FALSE
PROPERTIES GracePerRequest
