SPECIFICATION Spec
CONSTANTS
  Projects = {p1}
  Servers = {s1, s2}
  Clients = {c1}
  Nobody = Nobody
  NoProject = NoProject
  NewJobTypes = {"import_zip"}
  MaxJobs = 2
  MaxAttempts = 2
  LeaseTicks = 1
  MaxTime = 3
  MayStall = TRUE
  FaultKinds = {"statement"}
  MaxFaults = 1
SYMMETRY ServerSymmetry
INVARIANTS
  TypeOK
  JobRowsConsistent
PROPERTIES
  TerminalIsFinal
  LeaseNeverShrinks
  StaleThreadLeavesJobAlone
CHECK_DEADLOCK FALSE
