CONSTANTS
  Mf = {m1, m2, m3}
  NoMf = NoMf
  NoReq = NoReq
  NoLine = NoLine
  Blk = {0, 1}
  Sector = {0}
  Byte = {1, 2}
  NSet = 1
  Assoc = 1
  MshrEntries = 2
  MshrMaxMerge = 2
  MissQueueSize = 3
  HitResponseQueueSize = 1
  Latency = {1}
  Chunks = 2
  WrPercent = 0
  MaxDirty = 2
  Maintenance = {}
  CallerStops = TRUE
  Policies <- DrainPolicies
  Requests <- FewWrites
SPECIFICATION FairSpec
PROPERTY Drains
CHECK_DEADLOCK FALSE
