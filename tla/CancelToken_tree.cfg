CONSTANTS
  t1 = t1  t2 = t2  t3 = t3
  th1 = th1  th2 = th2  w1 = w1
  None = None
  Tokens <- MCTokens
  Roots <- OneRoot
  Threads <- MCThreads
  Waiters <- MCWaiters
  SweepMin = 1
SPECIFICATION FairSpec
INVARIANTS QuietTreeCancelled NoLostSignal
PROPERTIES CancelReachesAll
CHECK_DEADLOCK FALSE
