\* One flow and one worker, stopped at any moment.
CONSTANTS
  f1 = f1
  f2 = f2
  NULL = NULL
  Flows = {f1}
  Addrs = {n1}
  NumQueues = 1
  Hash <- MCHash
  MaxPkts = 3
  Payloads = {TRUE}
  NavlStates = {"INSPECTING", "CLASSIFIED"}
  Faults = {"stop"}
SPECIFICATION Spec
INVARIANT ConnsPaired
