SPECIFICATION Spec
CONSTANTS
  Workers = {w1}
  Requests = {r1}
  Sources = {a, b}
  None = None
  UpgradeFrom = {"completed", "failed", "processing"}
  MaxRuns = 1
  MaxImports = 1
  MaxRequests = 1
PROPERTIES
  SnapshotsAreImmutable
CHECK_DEADLOCK FALSE
