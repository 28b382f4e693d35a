\* Frames end in an exception or an undefined read too.
CONSTANTS
  Addresses = {0, 120}
  Ports = {0, 9}
  Protos = {0, 6, 17}
  Word = 128
  Buckets = {2, 3}
  Frames <- MCFrames
  MaxFlows = 2
SPECIFICATION ClassifySpec
INVARIANTS FindsItsFlow FindsNoOther DirectionMatches PayloadMatches ReadsInside
CHECK_DEADLOCK FALSE
