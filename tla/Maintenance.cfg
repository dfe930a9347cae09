SPECIFICATION Spec
CONSTANTS
  Bytes = {1, 2}
  Addrs = {1, 2}
  Caches = {1, 2}
  Ways = 1
  NumMSHRs = 2
  DemandReserve = 0
  NumTarget = 4
  CoalesceLimit = 1
  NoAllocateLimit = 2
  DelayThreshold = 1
  LlcWays = 1
  MaxRequests = 4
  Menus <- MCMaintenance
INVARIANTS MaintenanceForwarded
CHECK_DEADLOCK FALSE
