CONSTANTS
  c1 = c1
  c2 = c2
  k1 = k1
  Clients <- MC_Clients
  Keys <- MC_Keys
  ServerNeedsSni = FALSE
  MaxConnects = 1
  MaxCalls = 2
SPECIFICATION Spec
INVARIANT WireIsProtocol
CHECK_DEADLOCK FALSE
