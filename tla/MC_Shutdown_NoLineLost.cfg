CONSTANTS
  DestroyOrder <- MC_DestroyOrder
  MaxLines = 1
SPECIFICATION Spec
INVARIANT NoLineLost
CHECK_DEADLOCK FALSE
