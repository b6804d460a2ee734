SPECIFICATION FairSpec
CONSTANTS
  Objects = {op, role}
  Operator = op
  Modes = {"olm", "embedded"}
  MaxRetries = 1
  MaxRestores = 1
  MaxReinstalls = 1
  MaxFaults = 1
  op = op
  role = role
INVARIANTS SuccessMeansClean
PROPERTIES OperatorOutlivesArgoCD CleanupEnds AgentResumes
CHECK_DEADLOCK FALSE
