SPECIFICATION Spec
CONSTANTS
  Bytes = {1, 2}
  Addrs = {1, 2}
  Caches = {1, 2}
  Ways = 1
  NumMSHRs = 2
  DemandReserve = 0
  NumTarget = 2
  CoalesceLimit = 1
  NoAllocateLimit = 2
  DelayThreshold = 1
  LlcWays = 1
  MaxRequests = 4
  Menus <- MCMenus
INVARIANTS  G5AssertionsHold Coherent NoStaleRead AnsweredOnce RmwAtomic NoWriteLost RetryOwed NothingStuck
CHECK_DEADLOCK FALSE
