SPECIFICATION FairSpec
CONSTANTS
  Clusters = {c1}
  Registries = {r1, r2}
  MaxVersion = 1
  MaxChanges = 3
  MaxFaults = 1
  c1 = c1
  r1 = r1
  r2 = r2
INVARIANTS ReleasedMeansReverted

CHECK_DEADLOCK FALSE
