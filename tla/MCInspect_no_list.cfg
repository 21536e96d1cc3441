CONSTANTS
  Devices <- MCDevices
  DeafSets <- MCDeafSets
  MaxFlips = 0
SPECIFICATION Spec
INVARIANT NoListIsNotApplicable
CHECK_DEADLOCK FALSE
