CONSTANTS
  N = 4
  NumWorkers = 1
  GenMax = 1
  Keys = {k1}
  NoKey = NoKey
  MaxTimeout = 0
  Calls <- TableCalls
  Idle = Idle
SPECIFICATION Spec
INVARIANTS
  TypeOK
  NoDuplicates
  QueuedIsWaitingToRun
  CurrentIsOnCpu
  WaitTargetExists
  FrameMatchesContext
CHECK_DEADLOCK FALSE
