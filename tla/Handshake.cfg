SPECIFICATION FairSpec
CONSTANTS
  Mutators = {m1, m2}
  GC = GC
  NoHolder = NoHolder
  RecLimit = 4
  DropClearsHolder = TRUE
  m1 = m1
  m2 = m2
  DisableDepth <- OneDefers
INVARIANT TypeOK
INVARIANT WorldStopped
INVARIANT RequestNotLost
INVARIANT NoOrphanBlock
INVARIANT NoLostWakeup
PROPERTY ImplementsStopTheWorld
PROPERTY CollectionStarts
PROPERTY BlockedIsResumed
CHECK_DEADLOCK FALSE
