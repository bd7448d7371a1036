\* An insert whose returned ids do not convert to int.
CONSTANTS
  c1 = c1
  c2 = c2
  Client <- OneClient
  Op <- ManagerOp
  Plan <- ManagerPlan
  DryModes <- RealOnly
  Throws <- ConvertThrows
  MaxCalls = 1
SPECIFICATION Spec
INVARIANTS
  AddedMeansOk
\* Calls are bounded by MaxCalls and a dead process takes no step.
CHECK_DEADLOCK FALSE
