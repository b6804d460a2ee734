SPECIFICATION FairSpec
CONSTANTS
  Clusters = {c1}
  GitOpsClusters = {g1}
  Requests = {r1}
  Specs <- AllSpecs
  Churn = {"cluster", "spec", "token", "app"}
  MaxChanges = 2
  MaxFaults = 1
  MaxListFaults = 0
  MaxCrashes = 1
  c1 = c1
  g1 = g1
  r1 = r1
INVARIANTS TypeOK StrandedNeedsTwoFailures
PROPERTIES RegisteredStays ReferencedServerStays SuccessMeansRegistered FreshCredentials OrphansForgotten PushEndsUnique AgentReplacesBlank
CHECK_DEADLOCK FALSE
