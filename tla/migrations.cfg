SPECIFICATION Spec
CONSTANTS
  Targets = {0, 3, 4, 7, 8, 15}
  Rows <- SmallRows
INVARIANTS
  SchemaOfRevision
  HeadIsModels
  TenantTablesGuarded
  DeletionReach
  LossOnlyInTheWindow
  FailsForACause
