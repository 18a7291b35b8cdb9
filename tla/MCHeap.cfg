CONSTANTS
  Word = 1024
  HeapStart = 16
  HeapBytes = 144
  VirtStart = 512
  PageBytes = 64
  Sizes = {0, 5, 24, 60, 1020}
  TablePages = 2
  MaxPages = 3
  MaxCalls = 6
SPECIFICATION Spec
INVARIANTS
  InsideHeap
  HeldApart
  Accounted
CHECK_DEADLOCK FALSE
