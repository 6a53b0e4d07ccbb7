SPECIFICATION PageSpec
CONSTANTS
  Databases <- MCDatabases
  Inputs <- MCInputs
  MaxReplaced = 1
  DiffLimit = 2
  ArchiveBytes = 2
  Nobody = Nobody
  AppId = "lens"
  Throttle = 15
INVARIANTS
  
  PagesPartitionItems
  OvertakenPageNamesItsRows
  GroupsAnswerForTheirRows
  DiffTellsTheChange
  ReportsAgreeWithRuns
  RequestsAreMetered
CHECK_DEADLOCK FALSE
