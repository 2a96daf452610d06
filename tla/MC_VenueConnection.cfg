CONSTANTS
  s1 = s1
  s2 = s2
  NoSub = NoSub
  Subs <- MC_Subs
  MaxAttempts = 2
  QueueCap = 2
  MaxFail = 3
  MaxExtra = 1
  MaxConnects = 1
  ErrorReapedFirst = TRUE
SPECIFICATION Spec
INVARIANTS
  TypeOK
  OneAttemptAtATime
  RetryBudget
PROPERTIES
  SubscriptionsRestored
  RecoveryEnds
CHECK_DEADLOCK FALSE
