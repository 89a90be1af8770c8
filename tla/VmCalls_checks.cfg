CONSTANTS
  Calls = {a, b, s}
  Sync = {s}
  Polling = {a}
  Main = Main
  Threads = {t1, t2}
  MaxDeferred = 2
  Nil = Nil
SPECIFICATION VmFairSpec
INVARIANTS TraceIsOwn NoSpuriousYield
PROPERTIES CancelStops
CHECK_DEADLOCK FALSE
