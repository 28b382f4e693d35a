\* One worker and the consumer thread, as in DPIEngine.
CONSTANTS
  Poppers = {p1}
  Pushers = {t1}
  None = None
  MaxItems = 2
SPECIFICATION FairSpec
PROPERTY ClearReturns
CHECK_DEADLOCK FALSE
