\* One flow, one worker, every rare event except an exception in a worker.
CONSTANTS
  f1 = f1
  f2 = f2
  NULL = NULL
  Flows = {f1}
  Addrs = {n1, n2}
  NumQueues = 1
  Hash <- MCHash
  MaxPkts = 3
  Payloads = {TRUE, FALSE}
  NavlStates = {"INSPECTING", "MONITORING", "CLASSIFIED", "TERMINATED"}
  Faults = {"create", "classify", "error", "age", "stop"}
SPECIFICATION FairSpec
INVARIANTS ConnMatchesEntry OneReport ReportsBeforeExit QueuesDrained
PROPERTIES ClassificationFinal StopTerminates
