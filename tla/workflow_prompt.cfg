SPECIFICATION Spec
CONSTANTS
  Projects = {p1}
  Servers = {s1, s2}
  Clients = {c1}
  Nobody = Nobody
  NoProject = NoProject
  NewJobTypes = {"import_zip"}
  MaxJobs = 2
  MaxAttempts = 2
  LeaseTicks = 1
  MaxTime = 3
  MayStall = FALSE
  FaultKinds = {"crash", "thread"}
  MaxFaults = 2
SYMMETRY ServerSymmetry
INVARIANTS
  OneProcessPerJob
  ActiveImportKeepsFile
PROPERTIES
  OnlyOwnerReplacesFiles
  ImplementsLifecycle
CHECK_DEADLOCK FALSE
