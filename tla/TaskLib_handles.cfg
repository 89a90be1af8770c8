CONSTANTS
  Handles = {h1, h2}
  Callers = {c1, c2, c3}
  Nil = Nil
SPECIFICATION TaskFairSpec
INVARIANTS UnjoinedIsReachable JoinTellsOutcome
PROPERTIES WaitsEnd
CHECK_DEADLOCK FALSE
