SPECIFICATION Spec
CONSTANTS
  None = None
  NoRefusal = NoRefusal
  ImportLimits <- MCImportLimits
  ChunkSize = 2
  Inputs <- MCInputs
  UnitOf <- MCUnitOf
  Collation <- MCCollation
  EnvironmentNames <- MCEnvironmentNames
  Languages <- MCLanguages
  DbAwareClasses = {"TDBGrid", "TDBEdit"}
INVARIANTS
  SqlIsReadAsWritten
  FilesAreReadAsWritten
  ImpactIsMutual
  AuditFollowsTheTree
  NothingIsMissedSilently
  ConfidenceAnswersToEvidence
  StoredRowsHangTogether
  ImportsAccountForTheirFiles
CHECK_DEADLOCK FALSE
