\* Timers 0 and 1 in nine pairs of modes.
SPECIFICATION Spec
CONSTANTS
  ByteBase = 4
  LowBase = 2
  TmodValues <- SomeModes
INVARIANT TypeOK
PROPERTY Timer0OnTime
PROPERTY Timer1OnTime
