SPECIFICATION FairSpec
CONSTANTS
  Clusters = {c1}
  Registries = {r1, r2}
  MaxVersion = 2
  MaxChanges = 3
  MaxFaults = 1
  c1 = c1
  r1 = r1
  r2 = r2
INVARIANTS OriginalsAreSources
PROPERTIES ImageArrives Quiet
CHECK_DEADLOCK FALSE
