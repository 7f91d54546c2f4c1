SPECIFICATION SpecLateStart
CONSTANTS
  Mutators = {m1, m2}
  GC = GC
  NoHolder = NoHolder
  RecLimit = 4
  DropClearsHolder = TRUE
  m1 = m1
  m2 = m2
  DisableDepth <- NobodyDefers
INVARIANT TypeOKLifecycle
INVARIANT RegistryIndexed
INVARIANT JoinerNotForgotten
INVARIANT MainTestSound
INVARIANT RequestOutlivesStart
INVARIANT ListedStopped
INVARIANT ListedResumed
INVARIANT NoLostWakeup
PROPERTY ImplementsRegistry
PROPERTY MonitorsAreRecursive
CHECK_DEADLOCK FALSE
