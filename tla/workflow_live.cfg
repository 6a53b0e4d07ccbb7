SPECIFICATION LiveSpec
CONSTANTS
  Projects = {p1}
  Servers = {s1, s2}
  Clients = {c1}
  Nobody = Nobody
  NoProject = NoProject
  NewJobTypes = {"import_zip"}
  MaxJobs = 2
  MaxAttempts = 2
  LeaseTicks = 1
  MaxTime = 3
  MayStall = FALSE
  FaultKinds = {"crash"}
  MaxFaults = 1
PROPERTIES
  JobsEnd
  BusyProjectsSettle
CHECK_DEADLOCK FALSE
