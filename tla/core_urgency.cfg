\* Five requests, all priorities, both sleep modes.
SPECIFICATION MCSpec
CONSTANTS
  ByteBase = 1
  Half = 1
  HasUpper = TRUE
  ResetSP = 0
  Bad = 0
  Vector <- OneAddress
  Firmware <- UrgencyOps
  IEValues <- UrgencyIE
  IPValues <- UrgencyIP
  TimerFlag = {"TF0"}
  Lengths = {1}
  Costs = {0, 1, 3}
  Context = {0}
  MaxStackOps = 0
  MaxPC = 0
INVARIANT TypeOK
INVARIANT BoundedLatency
PROPERTY ImplementsNesting
PROPERTY ServesMostUrgent
