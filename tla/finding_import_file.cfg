SPECIFICATION Spec
CONSTANTS
  Projects = {p1}
  Servers = {s1, s2}
  Clients = {c1}
  Nobody = Nobody
  NoProject = NoProject
  NewJobTypes = {"import_zip"}
  MaxJobs = 1
  MaxAttempts = 2
  LeaseTicks = 1
  MaxTime = 3
  MayStall = FALSE
  FaultKinds = {"statement"}
  MaxFaults = 1
INVARIANTS
  ActiveImportKeepsFile
CHECK_DEADLOCK FALSE
