\* Small programs, each run to its end on chosen operands.
SPECIFICATION MCSpec
CONSTANTS
  CodeSize = 65536
  ExtSize = 4
  HasUpper = TRUE
  Sample = {0, 1, 9, 15, 16, 100, 127, 128, 144, 240, 254, 255}
  Origins = {0, 2046, 65534}
INVARIANT ProgramsCompute
PROPERTY DecimalAddition
PROPERTY FlagsTellTheSum
PROPERTY LatchKeepsOtherBits
PROPERTY HostFollows
PROPERTY ListingFollows
CHECK_DEADLOCK FALSE
