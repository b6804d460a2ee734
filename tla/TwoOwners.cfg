SPECIFICATION Spec
CONSTANTS
  Clusters = {c1}
  GitOpsClusters = {g1, g2}
  Requests = {r1}
  Specs <- PullSpecs
  Churn = {"cluster", "decision", "user", "access"}
  MaxChanges = 2
  MaxFaults = 1
  MaxListFaults = 1
  MaxCrashes = 0
  c1 = c1
  g1 = g1
  g2 = g2
  r1 = r1
PROPERTIES RegisteredStays
CHECK_DEADLOCK FALSE
