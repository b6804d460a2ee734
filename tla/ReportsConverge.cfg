SPECIFICATION FairSpec
CONSTANTS
  AppSets = {a1}
  Clusters = {c1}
  Trimmed = {}
  Healths = {"Healthy", "Degraded"}
  Churn = {"appset", "work", "app", "search", "config"}
  MaxChanges = 1
  MaxFaults = 1
  MaxCrashes = 1
  a1 = a1
  c1 = c1
PROPERTIES StatusConverges ReportConverges OrphansGo
CHECK_DEADLOCK FALSE
