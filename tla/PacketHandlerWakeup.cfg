CONSTANTS
  Capacity = 3
  MayThrow = FALSE
SPECIFICATION FairSpec
PROPERTY PacketsHandled
CHECK_DEADLOCK FALSE
