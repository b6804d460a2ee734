SPECIFICATION FairSpec
CONSTANTS
  Target = target
  Old = {old}
  Specs = {s1, s2}
  OldStarts = {"nothing", "ours", "orphan", "users"}
  TargetStarts = {"nothing", "ours", "otherSpec", "users"}
  Latest = 2
  Churn = {"spec", "user", "catalog"}
  MaxChanges = 2
  MaxFaults = 1
  Foreign = foreign
  foreign = foreign
  target = target
  old = old
  s1 = s1
  s2 = s2
PROPERTIES UsersKept OperatorArrives OldGoes Settles
CHECK_DEADLOCK FALSE
