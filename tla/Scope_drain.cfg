CONSTANTS
  r = r  a = a  b = b
  None = None
  Root = r
  Tasks <- MCTasks
  Graces <- ZeroOrOne
  LastTick = 1
SPECIFICATION FairSpec
INVARIANTS CompletedIsQuiet DrainCancels OneDeadline
PROPERTY RunResolves
CHECK_DEADLOCK FALSE
