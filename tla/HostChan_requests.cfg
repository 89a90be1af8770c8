CONSTANTS
  Senders = {s1, s2}
  Receivers = {r1, r2}
  Values = {v1, v2}
  Requests = {v1}
  Cap = 1
  MaxNested = 2
  None = None
SPECIFICATION Spec
INVARIANTS TypeOK NoReceiverAsleep InOrder BothSidesAgree
CHECK_DEADLOCK FALSE
