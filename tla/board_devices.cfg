SPECIFICATION MCSpec
CONSTANTS
  ShortBusy = 1
  LongBusy = 2
  LcdBytes <- MCLcdBytes
  MaxLcdSent = 3
  TicksPerSecond = 2
  Commands = {128, 129, 151, 190, 191}
  Data = {37, 255}
  Moments <- MCMoments
  MaxSeconds = 1
  MaxTransactions = 2
  Sector = 2
  Lo = 2
  Hi = 6
  FlashAddrs = {1, 2, 5, 6}
  FlashBytes <- MCFlashBytes
  Controls = {144, 216}
  Readings = {0, 4095, 2730}
  MaxStimuli = 1
  MaxFrames = 2
  FanTicks = 2
  Micros = 3
  UsSpan = 9
  MaxRpm = 60
  MinDuty = 20
  PulsesPerRev = 1
  MaxTicks = 7
  Segments = {0, 6, 91}
  Digits = 2
  Outputs = {0, 1, 7}
  LowSize = 16
  BufferSize = 32
  RingStart = 0
  RingEnd = 23
  TxStart = 24
  BitsPerByte = 2
  Fcs = 1
  MinLen = 1
  MaxLen = 3
  PadTo = 2
  CountMax = 1
  TxLog = 1
  Filter = 129
  RxFrames <- MCRxFrames
  TxFrames <- MCTxFrames
  MaxInjected = 3
  MaxSent = 2
  MaxRestarts = 1
  Timed = {"lcd", "iap", "servo"}
  Untimed = {"xpt"}
  StartOver = {"lcd", "iap"}
  PinsNamed = {"servo"}
  Fallible = {"iap"}
  MaxHooks = 4
  MaxBoardTicks = 2
  MaxResets = 1
INVARIANT NibblesInStep
INVARIANT WritesAreWhole
INVARIANT PulsesAreTimed
INVARIANT DigitsShowTheGlass
INVARIANT ReceivesInOrder
INVARIANT TransmitsWhole
INVARIANT DevicesTickOnce
PROPERTY ShowsWhatWasSent
PROPERTY ReadsAreWhole
PROPERTY CalendarCounts
PROPERTY FlashObeysTheTrigger
PROPERTY ReadingIsWhole
CHECK_DEADLOCK FALSE
