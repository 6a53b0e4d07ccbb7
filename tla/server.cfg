SPECIFICATION ServerSpec
CONSTANTS
  MaxJobs = 2
  MaxThreads = 2
  NestedStarts = FALSE
  FaultKinds = {"crash", "exit", "statement", "start", "timeout"}
  MaxFaults = 2
INVARIANTS
  CleanExitLeavesNoJob
PROPERTIES
  ResolvedJobsHaveEnded
  QueuedJobsAreTaken
  RequestsSettle
  SignalEndsProcess
CHECK_DEADLOCK FALSE
