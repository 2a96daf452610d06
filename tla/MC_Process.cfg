CONSTANTS
  b1 = b1
  b2 = b2
  b3 = b3
SPECIFICATION Spec
INVARIANTS RefcountExact RingHoldsDuplicates
PROPERTIES BuffersReturn ShutdownCompletes
CHECK_DEADLOCK FALSE
