CONSTANTS
  Sends = {a, b, c, d}
  Cap = 2
SPECIFICATION FairSpec
INVARIANTS RoomConserved NothingBehindEnd
PROPERTIES WaitsEnd
CHECK_DEADLOCK FALSE
