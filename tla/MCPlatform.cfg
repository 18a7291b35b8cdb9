CONSTANTS
  LapicDefault = "fee0"
  IoapicDefault = "fec0"
  MaxCpus = 1
  MaxOverrides = 1
  MaxTables = 2
  QueueSize = 3
  PacketSize = 2
  Sockets = {0, 1}
  Ports = {0, 1}
  PacketLens = {0, 1, 2, 3}
  MaxPackets = 5
  Machines <- MCMachines
  KeyBufSize = 4
  ScanKinds = {"key", "release", "unmapped"}
  MaxPresses = 5
  MaxFrame = 7
  KernelFrames = 1
  MaxRefs = 3
  DmaFrames = 4
  BarBits = 8
  PortLimit = 64
  VirtQueueSize = 8
  QueuePages = 2
  RequestPages = 1
  BlockMax = 4
  ModuleLists <- MCModuleLists
  MaxModules = 3
  MaxModuleCalls = 4
  ByteBase = 3
  NextTcp = 1
  NextIcmp = 2
  Ipv6Header = 5
  LengthLimit = 32
  Packets <- MCPackets
  Workers = {"a", "b"}
  Rows = 2
  Cols = 2
  Tab = 2
  ByteLimit = 8
  FifoDepth = 3
  MaxChars = 3
  SignalNumbers = {1, 2}
  MaxImages = 2
  MaxSignalCalls = 4
SPECIFICATION FairSpec
INVARIANTS
  KeysInOrder
  OneDeliveryPath
  PacketsInOrder
  DisksAreUsable
  PacketsChecked
  ConsoleRecovers
  HandlersReturn
  ModulesStartOnce
PROPERTIES
  KeysAreRead
