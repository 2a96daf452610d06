CONSTANTS
  Letters = {"a", "b"}
  MaxLen = 3
  Defaults <- MC_Defaults
  Unset = Unset
  Uninit = Uninit
  Garbage = Garbage
SPECIFICATION Spec
INVARIANT ListRegistered
CHECK_DEADLOCK FALSE
