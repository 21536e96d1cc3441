CONSTANTS
  Devices <- MCDevices
  DeafSets <- MCDeafSets
  MaxFlips = 1
SPECIFICATION Spec
INVARIANTS
  BoundedFormatsDecode
  VendorPayloadDecodes
  FailureStaysLocal
  FieldIsJustified
  VfBarsTile
CHECK_DEADLOCK FALSE
