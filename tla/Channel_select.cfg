CONSTANTS
  r = r  b = b
  None = None
  Tasks = {t1, t2}
  Chans <- MCChans
  Makes <- MCMakes
  Calls <- MCCalls
  MaxValues = 2
SPECIFICATION FairSpec
INVARIANTS ReportsAgree OneOfferTaken InOrder NoSleepBesideReady
PROPERTIES WaitsEnd
CHECK_DEADLOCK FALSE
