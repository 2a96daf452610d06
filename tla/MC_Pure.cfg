CONSTANTS
  Ports = {80, 443, 8443}
  Lengths = {443, 1500}
  MaxIhl = 6
  Letters = {"a", "b"}
  MaxLen = 3
  Unset = Unset
  Uninit = Uninit
  Garbage = Garbage
  FrameLens = {0, 5, 125, 126, 65535, 65536}
  Opcodes = {1, 8}
  Timers = {16909060}
SPECIFICATION Spec
INVARIANTS
  ClassifyMatchesSpec
  WellFormedListRegistered
  FrameMatchesRfc
  FrameRoundTrip
  BackoffMatchesSpec
  GatewayMacFromTables
CHECK_DEADLOCK FALSE
