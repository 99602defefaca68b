SPECIFICATION MCSpec
CONSTANTS
  Cpus = {"c1", "c2", "c3"}
  FirstCap = 1
  MaxOpens = 5
  PortPins <- MCPortPins
  DevicePins <- MCDevicePins
  MaxStim = 1
  MaxWatch = 2
  MaxChanges = 3
  TickClocks = 3
  Costs = {0, 4}
  Lengths = {2}
  Offsets = {0, 1}
  PcSize = 3
  BudgetPer = 2
  Requests = {1, 2}
  MaxClocks = 3
  MaxRun = 30
  Wanted <- MCWanted
  MaxPlugins = 3
  MaxXdataHooks = 2
  MaxFilters = 1
  MaxExceptions = 1
  Filters <- MCFilters
  Ranges <- MCRanges
  MaxInstalls = 2
  Codes = {1, 2}
  XramRange = 2
  Addresses = {0, 1}
  Opcodes = {165}
  Programs <- MCPrograms
  DamageBytes = {0, 1, 2, 3, 16, 64}
  MaxLoads = 2
INVARIANT ToldOfEveryChange
CHECK_DEADLOCK FALSE
