CONSTANTS
  Lbas = {0, 1, 2}
  Blank <- MCBlank
  IdxMod = 4
  MaxTimeouts = 2
  SlotCount = 2
  Values = {1, 2}
  MaxOps = 2
  MaxCrashes = 2
SPECIFICATION FairSpec
INVARIANTS
  AnsweredTruly
  SectorsWhole
  AckedSurvives
  AtMostOneCommitted
PROPERTIES
  CallsReturn
CHECK_DEADLOCK FALSE
