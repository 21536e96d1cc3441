SPECIFICATION Spec
CONSTANTS
  Windows <- MCWindows
  Scale <- MCScale
  Steps <- MCSteps
  Width <- MCWidth
  Low = 2
  Kilo = 2
  Mega = 8
  Builds = {"dev", "release"}
INVARIANTS SizeIsExact PanicsOnlyWhenFull
CHECK_DEADLOCK FALSE
