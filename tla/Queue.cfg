\* The threads may all end (after clear()) or block for ever inside it.
CONSTANTS
  Poppers = {p1, p2}
  Pushers = {t1, t2}
  None = None
  MaxItems = 4
SPECIFICATION FairSpec
INVARIANTS NoLostWakeup Fifo
PROPERTY EveryItemPopped
CHECK_DEADLOCK FALSE
