\* P3.1 does not follow the bits sent.
SPECIFICATION Spec
CONSTANTS
  Bits = 2
  Ring = 3
  Bytes = {1, 2}
  MaxAsked = 4
PROPERTY PinShowsTheBit
