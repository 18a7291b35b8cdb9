CONSTANTS
  SectorSize = 2
  MaxCluster = 20
  MaxChain = 3
  Slots = {0, 1, 2}
  LastFd = 5
  Images <- MCImages
  BadSets <- MCBadSets
  Contents <- MCContents
  Paths <- MCPaths
  ExecMax = 6
  Lengths = {1, 3}
  Values <- MCValues
  RawEnd = 4
  MaxCalls = 3
SPECIFICATION Spec
INVARIANTS
  DeadHoldNothing
  ReadIsExact
PROPERTIES
  PrivateTables
  RawWriteIsExact
CHECK_DEADLOCK FALSE
