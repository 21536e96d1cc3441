CONSTANTS
  Topologies <- Hidden
  MaxUnreadable = 1
  Foreign = {}
  MaxReplaced = 0
  StackSize = 4
SPECIFICATION Spec
INVARIANT EveryDeviceListed
CHECK_DEADLOCK FALSE
