CONSTANTS
  Mf = {m1, m2}
  NoMf = NoMf
  NoReq = NoReq
  NoLine = NoLine
  Blk = {0, 1, 2}
  Sector = {0, 1}
  Byte = {1, 2}
  NSet = 1
  Assoc = 2
  MshrEntries = 2
  MshrMaxMerge = 2
  MissQueueSize = 3
  HitResponseQueueSize = 1
  Latency = {1, 2}
  Chunks = 2
  WrPercent = 0
  MaxDirty = 2
  Maintenance = {}
  CallerStops = FALSE
  Policies <- WriteBackPolicies
  Requests <- FewWrites
SYMMETRY Symmetry
SPECIFICATION Spec
INVARIANTS
  ResponseLineHolds
  FillFindsItsLine
  ReservedHasFill
  NoLostWrite
  DirtyExact
