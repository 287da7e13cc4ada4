SPECIFICATION Spec
CONSTANTS
  None = None
  MinMatchLen = 2
  SliceSize = 4
  MaxSlices = 2
  MaxBlocks = 5
  Byte = {0, 1}
  Spaces <- MCSpaces
  Slot <- MCSlot
INVARIANTS SequencesReproduceData WindowIsEndOfInput TablesPointIntoTheirData
CHECK_DEADLOCK FALSE
