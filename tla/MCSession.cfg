SPECIFICATION Spec
CONSTANTS
  Slots = {"0000:00:1f.0", "0000:01:00.0"}
  BridgeSlots = {"0000:00:1f.0"}
  FillResults <- MCFillResults
  Gaps <- MCGaps
  Kinds = {"Device", "CardBus"}
  Commands <- AllCommands
  MaxPlugs = 3
  MaxScans = 3
INVARIANTS HandleIsNewest SnapshotIsOneScan FoundStaysFound TextAndJsonAgree
PROPERTY CommandEnds
CHECK_DEADLOCK FALSE
