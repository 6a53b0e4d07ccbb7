SPECIFICATION Spec
CONSTANTS
  None = None
  UnitOf <- MCUnitOf
  Collation <- MCCollation
  PascalFiles <- MCPascalFiles
  Inputs <- MCInputs
  MaxCallDepth = 1
  MaxStepsPerTrace = 9
  MaxTraces = 2
INVARIANTS
  TraceTellsWhetherItIsWhole
  StepsWithinLimit
  TraceFollowsTheEventMap
CHECK_DEADLOCK FALSE
