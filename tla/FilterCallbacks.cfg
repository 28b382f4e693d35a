\* The agent stops at a failed assertion and at a null packet.
CONSTANTS
  NULL = NULL
  Actions = {"ACTION_PUNT", "ACTION_COPY"}
  Packets <- Layouts
  CopyLens <- Lengths
  Frames <- MCFrames
  States <- MCStates
  Word16 = 128
  StateLen = 4
  MaxRand = 2
SPECIFICATION Spec
INVARIANTS
  WritesInPlace CopyComplete ParsedRight ChecksumKept PacketAssertsHold SavedStateRestores
CHECK_DEADLOCK FALSE
