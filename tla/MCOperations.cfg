\* Two clients, every operation of the manager and a longer transaction, dry
\* and real runs.
CONSTANTS
  c1 = c1
  c2 = c2
  Client <- TwoClients
  Op <- EveryOp
  Plan <- EveryPlan
  DryModes <- BothModes
  Throws <- BuildThrows
  MaxCalls = 1
SPECIFICATION Spec
INVARIANTS
  TypeOK
  IInv
  ReportIsTruthful
  NoSessionOutlivesItsCall
  DiesOnlyOfLostConnection
  DryRunStaysLocal
PROPERTIES
  CommitOnlyAfterSuccess
  WritesAreGuarded
  ImplementsAtomicCalls
  EveryCallEnds
\* Calls are bounded by MaxCalls and a dead process takes no step.
CHECK_DEADLOCK FALSE
