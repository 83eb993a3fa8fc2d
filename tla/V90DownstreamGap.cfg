SPECIFICATION Spec
CONSTANTS
  Params <- MCParams
  Payloads <- MCPayloads
  RingBuf = 32
  Packet = 10
  DilFrames = 1
  RiFrames = 1
  RiBarFrames = 1
  TrnFrames = 1
  MpFrames = 1
  EdFrames = 1
  DataFrames = 2
  MaxFrames = 6
INVARIANT DataOnGrid
CHECK_DEADLOCK FALSE
