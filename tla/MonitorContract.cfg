SPECIFICATION Spec
CONSTANTS
  Threads = {t1, t2, t3}
  NoHolder = NoHolder
  MaxDepth = 3
  RecLimit = 5
  DropClearsHolder = TRUE
  UnlockForgets = TRUE
  ScopePanicDepth = 1
INVARIANT TypeOK
INVARIANT MutualExclusion
INVARIANT CountIsDepth
PROPERTY ImplementsRecursiveMonitor
CHECK_DEADLOCK FALSE
