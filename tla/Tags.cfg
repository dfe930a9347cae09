CONSTANTS
  RrpvBits = 2
  ShctSize = 2
  InsertThreshold = 50
  HitPriority = TRUE
  SelectorBits = 2
  BlkBits = 4
  Sizes = {2, 3, 4}
  PartIds <- MCPartIds
  Capacity <- MCCapacity
  WaysOf <- MCWaysOf
  Configs <- MCConfigs
SPECIFICATION TSSpec
CHECK_DEADLOCK FALSE
INVARIANTS  OneCopy VictimAsPromised CountsExact FaLruTracked  
