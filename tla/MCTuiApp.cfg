CONSTANTS
  Reports <- MCReports
  Trees <- MCTrees
  Char = {"a", "b"}
  MaxFilter = 2
  Heights = {0, 1, 3}
  Page = 10
SPECIFICATION Spec
INVARIANTS
  VisibleIsCurrent
  DetailFollowsCursor
  PaneShowsReport
  FailuresAreRed
  CursorOnScreen
  TerminalRestored
PROPERTY FoldingKeepsRow
CHECK_DEADLOCK FALSE
