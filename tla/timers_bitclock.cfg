\* A bit clocked though timer 1 did not overflow.
SPECIFICATION Spec
CONSTANTS
  ByteBase = 4
  LowBase = 2
  TmodValues <- SomeModes
PROPERTY BitsClockedByTimer1
