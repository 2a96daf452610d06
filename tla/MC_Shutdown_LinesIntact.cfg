CONSTANTS
  DestroyOrder <- MC_DestroyOrder
  MaxLines = 1
SPECIFICATION Spec
INVARIANT LinesIntact
CHECK_DEADLOCK FALSE
