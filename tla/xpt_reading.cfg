SPECIFICATION XptSpec
CONSTANTS
  Controls = {144, 216}
  Readings = {0, 4095, 2730}
  MaxStimuli = 1
  MaxFrames = 2
INVARIANT FallingEdgesSpellIt
CHECK_DEADLOCK FALSE
