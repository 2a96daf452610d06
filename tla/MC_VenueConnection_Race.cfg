CONSTANTS
  s1 = s1
  s2 = s2
  NoSub = NoSub
  Subs <- MC_Subs
  MaxAttempts = 2
  QueueCap = 2
  MaxFail = 1
  MaxExtra = 1
  MaxConnects = 1
  ErrorReapedFirst = FALSE
SYMMETRY MC_Symmetry
SPECIFICATION RaceSpec
INVARIANT
  OneAttemptAtATime
CHECK_DEADLOCK FALSE
