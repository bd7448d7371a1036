\* Two threads that reset, check and operate at the same time, or one of them
\* alone; parameters that fit, that are refused, and of another supplier.
CONSTANTS
  t1 = t1
  t2 = t2
  good = good
  down = down
  nobackend = nobackend
  noone = noone
  nobody = nobody
  Thread <- TwoThreads
  Params <- EveryParams
  Backed <- UpAndDown
  Reachable <- GoodOnly
  Unset = noone
  NoThread = nobody
  Call <- EveryCall
  Flaky = TRUE
  Connected = FALSE
  MaxCalls = 3
SPECIFICATION Spec
INVARIANTS
  TypeOK
  OnlyProbedConnections
  CheckAnswerIsKept
PROPERTIES
  OnlyResetRecovers
  NoReplacementUnderTransaction
  EveryCallReturns
\* Calls are bounded by MaxCalls.
CHECK_DEADLOCK FALSE
