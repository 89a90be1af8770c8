CONSTANTS
  Requests = {a, b}
  Loops = {a}
  Shutdown = Shutdown
  None = None
SPECIFICATION IsleFairSpec
INVARIANTS LostOnlyByPanic
PROPERTIES CallsReturn ImplementsService
CHECK_DEADLOCK FALSE
