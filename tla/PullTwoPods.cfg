SPECIFICATION Spec
CONSTANTS
  Pods = {p1, p2}
  Clusters = {c1}
  MaxAlive = 2
  Churn = {"spec", "operation", "config"}
  Finalizers = {TRUE}
  Configs = {"absent", "enabled"}
  MaxChanges = 2
  MaxFaults = 1
  MaxStops = 1
  p1 = p1
  p2 = p2
  c1 = c1
INVARIANTS TypeOK
PROPERTIES OperationCarried
SYMMETRY PullSymmetry
CHECK_DEADLOCK FALSE
