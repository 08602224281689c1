SPECIFICATION Spec
CONSTANTS
  PPT_TX_FIFO_SIZE = 2
  MaxPayload = 3
  MaxTimes = 2
  MaxScans = 2
  MaxBurst = 2
INVARIANTS
  PendingDataValid
CHECK_DEADLOCK FALSE
