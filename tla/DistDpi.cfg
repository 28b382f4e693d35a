\* The agent may come to rest: everybody waits for a packet or a signal.
CONSTANTS
  Capacity = 2
  MayThrow = TRUE
SPECIFICATION DistFairSpec
INVARIANT ExitAfterParts
PROPERTIES WakeDrains StopWakesSleeper BusyWaitEnds QuietAfterStop StopReleasesStart
CHECK_DEADLOCK FALSE
