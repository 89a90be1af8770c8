CONSTANTS
  t1 = t1  t2 = t2  i1 = i1  i2 = i2
  None = None
  Threads <- MCThreads
  Isles <- MCIsles
  MaxSize = 1
SPECIFICATION FairSpec
INVARIANTS ActiveCounts
PROPERTIES ImplementsSlotPool FreeSlotIsTaken ShutdownEndsAll
CHECK_DEADLOCK FALSE
