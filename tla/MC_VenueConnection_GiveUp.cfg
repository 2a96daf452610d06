CONSTANTS
  s1 = s1
  s2 = s2
  NoSub = NoSub
  Subs <- MC_Subs
  MaxAttempts = 1
  QueueCap = 2
  MaxFail = 2
  MaxExtra = 1
  MaxConnects = 1
  ErrorReapedFirst = TRUE
SYMMETRY MC_Symmetry
SPECIFICATION Spec
PROPERTIES
  GiveUpIsFinal
CHECK_DEADLOCK FALSE
