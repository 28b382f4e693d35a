CONSTANTS
  Records = {a, b}
  NoRecord = NoRecord
  Size = 4
SPECIFICATION Spec
INVARIANTS SlotDiscipline NoRecordLeaked
PROPERTY ImplementsBoundedFifo
CHECK_DEADLOCK FALSE
