CONSTANTS
  U32Max = 7
  CIntMax = 5
  MinReadBlock = 2
  RowLength = 3
  Requests <- MCRequests
  MaxGen = 1
  MaxCalls = 2
  Missing = Missing
SPECIFICATION Spec
INVARIANTS
  TypeOK
  SegmentsCanonical
  WorkTilesGap
  ReadReturnsCache
  FirstFetchPartitions
  DumpShowsCache
PROPERTIES
  RefinesCache
  EveryCallReturns
CHECK_DEADLOCK FALSE
