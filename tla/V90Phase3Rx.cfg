SPECIFICATION Spec
CONSTANTS
  Calls <- MCCalls
  None = None
  Chunk = 128
  Lag = 22
  Skip = 14
  MinWindow = 960
  MaxWindow = 12800
  MaxTrouble = 1
  MaxBits = 5200
INVARIANTS FramesAsSent IntactCopyFound
PROPERTY ExchangeEnds
CHECK_DEADLOCK FALSE
