SPECIFICATION Spec
CONSTANTS
  Workers = {w1, w2}
  Requests = {r1}
  Sources = {a, b}
  None = None
  UpgradeFrom = {"completed", "failed", "processing"}
  MaxRuns = 3
  MaxImports = 1
  MaxRequests = 2
INVARIANTS
  ProjectionIsNewestRun
  BaselineIsUsable
PROPERTIES
  RunNumbersFollowCommits
  ImplementsLog
SYMMETRY HistorySymmetry
CHECK_DEADLOCK FALSE
