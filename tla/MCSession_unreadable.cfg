SPECIFICATION Spec
CONSTANTS
  Slots = {"0000:00:1f.0", "0000:01:00.0"}
  BridgeSlots = {"0000:00:1f.0"}
  FillResults <- MCFillResults
  Gaps <- MCGaps
  Kinds = {"Device", "CardBus"}
  Commands = {"show"}
  MaxPlugs = 3
  MaxScans = 3
INVARIANT UnreadableIsUnavailable
CHECK_DEADLOCK FALSE
