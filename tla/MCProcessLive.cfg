CONSTANTS
  N = 3
  NumWorkers = 1
  GenMax = 1
  Keys = {k1}
  NoKey = NoKey
  MaxTimeout = 2
  Calls <- NoKill
  Idle = Idle
SPECIFICATION FairSpec
PROPERTIES
  QueuedRuns
  TimedWaitEnds
CHECK_DEADLOCK FALSE
