SPECIFICATION TwoLevelSpec
CONSTANTS
  Blk = {0, 1}
  Sector = {0, 1}
  Byte = {1, 2}
  NSet = 1
  Assoc = 1
  WrPercent = 0
  NoLine = NoLine
  Policies <- MCPolicies
  MshrEntries = 1
  MshrMaxMerge = 2
  Mf = {m1, m2}
  NoMf = NoMf
  NoReq = NoReq
  MissQueueSize = 3
  HitResponseQueueSize = 1
  Latency = {1, 2}
  Chunks = 2
  MaxDirty = 2
  Maintenance = {"flush"}
  CallerStops = FALSE
  StreamOf <- MCStreamOf
  PortWidth = 1
  MaxCycles = 4
  MaxWindows = 2
  Modes = {"caller", "two_level"}
  Requests <- MCRequests
  DramBytes <- MCDram
  Values = {2}
  MaxAccesses = 3
  MaxReads = 5
SYMMETRY Symmetry
INVARIANTS
  StatsAccount
  RefusedOnlyWhileBusy
  HitFindsItsData
CHECK_DEADLOCK FALSE
