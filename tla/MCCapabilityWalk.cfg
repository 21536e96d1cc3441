CONSTANTS
  StdFirst = 4
  ExtFirst = 12
  ExtEnd = 20
  Align = 2
  StdMaxNodes = 4
  ExtMaxNodes = 3
  Ids <- MCIds
SPECIFICATION Spec
INVARIANTS
  TypeOK
  ChainsWellFormed
  StatusExplains
PROPERTIES
  NodesPreserved
  DiscoveryEnds
CHECK_DEADLOCK FALSE
