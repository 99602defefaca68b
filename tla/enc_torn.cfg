SPECIFICATION EncSpec
CONSTANTS
  LowSize = 16
  BufferSize = 64
  RingStart = 0
  RingEnd = 39
  TxStart = 40
  BitsPerByte = 1
  Fcs = 1
  MinLen = 1
  MaxLen = 10
  PadTo = 2
  CountMax = 7
  TxLog = 1
  Filter = 129
  RxFrames <- MCFrames
  TxFrames = {}
  MaxInjected = 6
  MaxSent = 0
  MaxRestarts = 0
INVARIANT ChainIsWhole
CHECK_DEADLOCK FALSE
