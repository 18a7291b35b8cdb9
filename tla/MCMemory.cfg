CONSTANTS
  MaxFrame = 9
  Available <- MCAvailable
  KernelFrames = 1
  MaxRefs = 65535
  DmaFrames = 8
  Procs = {1, 2, 3}
  Spaces = {1, 2, 3}
  LastPage = 3
  LastTable = 2
  StackPage = 2
  AutoPage = 2
  Lengths = {1, 3}
  Flags <- MCFlags
  MaxVmas = 2
  WindowFrame = 8
  QueuePages = 2
  RequestPages = 1
  HasDisk = TRUE
  MaxCalls = 3
  MaxDemands = 2
  Images <- MCImages
  Data = {"a"}
  Zero = "zero"
  Junk = "junk"
SPECIFICATION Spec
INVARIANTS
  RefsCountMappings
  SharedIsCow
  UsedCountExact
  LoadedIsCurrents
  SpacesAreOwned
PROPERTIES
  PrivateUntilDemand
CHECK_DEADLOCK FALSE
