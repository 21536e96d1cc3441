CONSTANTS
  Topologies <- Anything
  MaxUnreadable = 2
  Foreign <- Bars
  MaxReplaced = 1
  StackSize = 4
SPECIFICATION Spec
INVARIANTS
  TreeShape
  ParentIsInnermost
  NothingElseLost
  StackSuffices
PROPERTY BuildEnds
CHECK_DEADLOCK FALSE
