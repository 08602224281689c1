SPECIFICATION FairSpec
CONSTANTS
  PPT_TX_FIFO_SIZE = 2
  MaxPayload = 3
  MaxTimes = 2
  MaxScans = 2
  MaxBurst = 1
INVARIANTS
  TypeOK
  SyncMeansIdle
  PendingDataValid
  FreePlaces
  SentAsAsked
  InOrder
PROPERTIES
  SyncReturns
CHECK_DEADLOCK FALSE
