\* Two nested services on a stack that runs off the end of RAM.
SPECIFICATION MCSpec
CONSTANTS
  ByteBase = 2
  Half = 5
  HasUpper = FALSE
  ResetSP = 0
  Bad = 0
  Vector <- HandlerAddr
  Firmware <- StackOps
  IEValues <- StackIE
  IPValues <- StackIP
  TimerFlag = {"TF0"}
  Lengths = {1}
  Costs = {0}
  Context = {0}
  MaxStackOps = 3
  MaxPC = 2
INVARIANT ActiveEncodesServices
PROPERTY RetiReportsItsOwnImbalance
PROPERTY ReturnsWhereInterrupted
