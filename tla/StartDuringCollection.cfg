SPECIFICATION SpecLateStart
CONSTANTS
  Mutators = {m1, m2}
  GC = GC
  NoHolder = NoHolder
  RecLimit = 4
  DropClearsHolder = TRUE
  m1 = m1
  m2 = m2
  DisableDepth <- NobodyDefers
INVARIANT WorldStoppedForAll
CHECK_DEADLOCK FALSE
