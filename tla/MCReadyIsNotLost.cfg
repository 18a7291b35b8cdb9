CONSTANTS
  N = 4
  NumWorkers = 1
  GenMax = 2
  Keys = {k1}
  NoKey = NoKey
  MaxTimeout = 0
  Calls <- YieldCalls
  Idle = Idle
SPECIFICATION Spec
INVARIANT ReadyIsNotLost
CHECK_DEADLOCK FALSE
