CONSTANTS
  DestroyOrder <- MC_DestroyOrder
  MaxLines = 1
SPECIFICATION Spec
INVARIANT CloseFrameSent
CHECK_DEADLOCK FALSE
