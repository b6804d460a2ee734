SPECIFICATION FairSpec
CONSTANTS
  Pods = {p1}
  MaxAlive = 1
  Clusters = {c1, c2}
  Locals <- NoneOrSecond
  Churn = {"spec", "operation", "move", "delete", "detach"}
  Finalizers = {TRUE}
  MaxChanges = 2
  MaxFaults = 1
  MaxCrashes = 1
  p1 = p1
  c1 = c1
  c2 = c2
PROPERTIES OperationCarried NothingTakenBack FollowsPlan SpecDelivered DeletionCompletes StatusArrives
CHECK_DEADLOCK FALSE
