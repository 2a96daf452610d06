CONSTANTS
  SeqBits = 16
  ISS <- MC_ISS
  IRS <- MC_IRS
  StreamLen = 2
  MAX_RX_BUFFER_SIZE = 2
  MaxSend = 1
  Cap = 3
  MaxLoss = 2
  Faults = {"lose"}
SPECIFICATION Spec
INVARIANT AckedIsReceived
CHECK_DEADLOCK FALSE
