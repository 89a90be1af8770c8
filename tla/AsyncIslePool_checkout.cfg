CONSTANTS
  c1 = c1  c2 = c2  c3 = c3  c4 = c4  i1 = i1  i2 = i2
  None = None
  Callers <- MCCallers2
  Isles <- MCIsles
  MaxSize = 1
SPECIFICATION FairUseSpec
PROPERTIES ImplementsSlotPool SleeperWakes ShutdownEndsVms
CHECK_DEADLOCK FALSE
