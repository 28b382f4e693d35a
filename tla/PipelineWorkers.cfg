\* Two flows on two workers, either of which may fail with an exception.
CONSTANTS
  f1 = f1
  f2 = f2
  NULL = NULL
  Flows = {f1, f2}
  Addrs = {n1, n2}
  NumQueues = 2
  Hash <- MCHash
  MaxPkts = 3
  Payloads = {TRUE}
  NavlStates = {"INSPECTING", "CLASSIFIED"}
  Faults = {"age", "throw"}
SPECIFICATION Spec
INVARIANTS InsertedEntryLive FlowOrder HandleAffinity DivisionNeedsAllFailed CallbackExclusive
CHECK_DEADLOCK FALSE
