CONSTANTS
  Procs = {a, b, c, d}
  Null = Null
SPECIFICATION Spec
INVARIANTS
  IsList
PROPERTIES
  ListIsQueue
  LoopsEnd
