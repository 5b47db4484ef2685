SPECIFICATION Spec
CONSTANTS
  d1 = d1
  d2 = d2
  j1 = j1
  j2 = j2
  j3 = j3
  r1 = r1
  r2 = r2
  Docs <- OneDoc
  Jobs <- TwoJobs
  Runs <- TwoRuns
  Widths <- TwoWidths
  MaxRetries = 1
  MaxCrashes = 1
  Faults <- AllFaults
INVARIANTS
  ReadyIsSearchable
  OneGenerationPerWidth
  LiveObject
CHECK_DEADLOCK FALSE
