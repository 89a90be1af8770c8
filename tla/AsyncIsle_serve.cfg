CONSTANTS
  s = s  c = c
  Shutdown = Shutdown
  None = None
  Requests <- MCRequests
  Coroutines <- MCCoroutines
  Endless <- MCEndless
  Capacity = 1
  MaxHandles = 2
SPECIFICATION FairSpec
INVARIANTS HandlesAreServed ShutdownSettlesAll
PROPERTIES ImplementsService WaitsEnd ThreadEnds
CHECK_DEADLOCK FALSE
