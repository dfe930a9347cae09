CONSTANTS
  Mf = {m1, m2, m3}
  NoMf = NoMf
  NoLine = NoLine
  Blk = {0, 1, 2}
  Sector = {0}
  Byte = {1}
  NSet = 1
  Assoc = 2
  WrPercent = 0
  FragmentEntries = 3
  RequestEntries = 2
  RobEntries = 2
  ResultEntries = 1
  Chunks = 2
  CallerStops = TRUE
  Policies <- LineTags
SPECIFICATION TexFairSpec
INVARIANTS
  HeadFindsItsData
  TexAssertionsHold
  TagsMatchDataWhenDrained
PROPERTIES
  InOrder
  TexDrains
CHECK_DEADLOCK FALSE
