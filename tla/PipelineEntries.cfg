\* One flow and one worker suffice to delete an entry under its packets.
CONSTANTS
  f1 = f1
  f2 = f2
  NULL = NULL
  Flows = {f1}
  Addrs = {n1}
  NumQueues = 1
  Hash <- MCHash
  MaxPkts = 3
  Payloads = {TRUE}
  NavlStates = {"INSPECTING", "CLASSIFIED"}
  Faults = {}
SPECIFICATION Spec
INVARIANT PipelineEntriesLive
