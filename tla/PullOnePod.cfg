SPECIFICATION FairSpec
CONSTANTS
  Pods = {p1}
  Clusters = {c1, c2}
  MaxAlive = 1
  Churn = {"spec", "operation", "move", "label", "delete", "status", "detach", "config", "placement"}
  Finalizers = {TRUE}
  Configs = {"absent", "enabled", "disabled"}
  MaxChanges = 3
  MaxFaults = 1
  MaxStops = 1
  p1 = p1
  c1 = c1
  c2 = c2
INVARIANTS FrozenUnlessFailed
PROPERTIES SpecDelivered DeletionCompletes FollowsPlan
CHECK_DEADLOCK FALSE
