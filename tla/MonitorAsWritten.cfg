SPECIFICATION Spec
CONSTANTS
  Threads = {t1, t2, t3}
  NoHolder = NoHolder
  MaxDepth = 2
  RecLimit = 4
  DropClearsHolder = FALSE
  UnlockForgets = FALSE
  ScopePanicDepth = 2
INVARIANT MutualExclusion
CHECK_DEADLOCK FALSE
