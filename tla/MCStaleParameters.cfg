\* One thread that resets the parameters twice.
CONSTANTS
  t1 = t1
  t2 = t2
  good = good
  down = down
  nobackend = nobackend
  noone = noone
  nobody = nobody
  Thread <- OneThread
  Params <- UpAndDown
  Backed <- UpAndDown
  Reachable <- GoodOnly
  Unset = noone
  NoThread = nobody
  Call <- EveryCall
  Flaky = FALSE
  Connected = FALSE
  MaxCalls = 2
SPECIFICATION Spec
INVARIANTS
  ParametersInForce
\* Calls are bounded by MaxCalls.
CHECK_DEADLOCK FALSE
