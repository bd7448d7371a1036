\* Two threads make the first calls of a manager at the same time.
CONSTANTS
  t1 = t1
  t2 = t2
  good = good
  down = down
  nobackend = nobackend
  noone = noone
  nobody = nobody
  Thread <- TwoThreads
  Params <- GoodOnly
  Backed <- GoodOnly
  Reachable <- GoodOnly
  Unset = noone
  NoThread = nobody
  Call <- EveryCall
  Flaky = FALSE
  Connected = FALSE
  MaxCalls = 2
SPECIFICATION Spec
INVARIANTS
  NoDanglingClone
\* Calls are bounded by MaxCalls.
CHECK_DEADLOCK FALSE
