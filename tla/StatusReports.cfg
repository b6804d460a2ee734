SPECIFICATION Spec
CONSTANTS
  AppSets = {a1}
  Clusters = {c1}
  Trimmed = {a1}
  Healths = {"Healthy", "Degraded"}
  Churn = {"appset", "work", "app"}
  MaxChanges = 2
  MaxFaults = 1
  MaxCrashes = 1
  a1 = a1
  c1 = c1
INVARIANTS TypeOK
PROPERTIES FollowsFeed WorkDeletedOnlyForMissing ReportGoesLast
CHECK_DEADLOCK FALSE
