SPECIFICATION FairSpec
CONSTANTS
  d1 = d1
  d2 = d2
  j1 = j1
  j2 = j2
  j3 = j3
  r1 = r1
  r2 = r2
  Docs <- OneDoc
  Jobs <- TwoJobs
  Runs <- TwoRuns
  Widths <- OneWidth
  MaxRetries = 2
  MaxCrashes = 2
  Faults <- NoLossFaults
INVARIANTS
  NoLostWork
PROPERTIES
  Settles
  DeletedObjectsGo
  ImplementsCorpus
CHECK_DEADLOCK FALSE
