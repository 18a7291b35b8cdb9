CONSTANTS
  Users = {u1, u2}
  Workers = {w1}
  Vectors <- SomeVectors
  MaxNest = 1
SPECIFICATION Spec
INVARIANTS
  FrameTellsTrap
PROPERTIES
  ResumesWhereInterrupted
CHECK_DEADLOCK FALSE
