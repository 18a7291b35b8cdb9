CONSTANTS
  N = 4
  NumWorkers = 1
  GenMax = 2
  Keys = {k1}
  NoKey = NoKey
  MaxTimeout = 0
  Calls <- AllCalls
  Idle = Idle
SPECIFICATION Spec
INVARIANT ExitWakesParent
CHECK_DEADLOCK FALSE
