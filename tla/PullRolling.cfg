SPECIFICATION Spec
CONSTANTS
  Pods = {p1, p2}
  Clusters = {c1}
  MaxAlive = 2
  Churn = {"config"}
  Finalizers = {TRUE}
  Configs = {"enabled"}
  MaxChanges = 1
  MaxFaults = 0
  MaxStops = 0
  p1 = p1
  p2 = p2
  c1 = c1
INVARIANTS FrozenStays
CHECK_DEADLOCK FALSE
