CONSTANTS
  NoData = NoData
  Configs <- MCConfigs
SPECIFICATION OcSpec
INVARIANTS EveryMissFetched LineHoldsItsBlock DirtyNeverWraps
