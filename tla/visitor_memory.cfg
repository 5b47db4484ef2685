SPECIFICATION NotesSpec
CONSTANTS
  Facts = {a, b, c}
  Workers = {w1, w2}
  MaxEntries = 2
  MaxProposed = 2
  MaxTranscripts = 1
  MaxCopies = 2
SYMMETRY MemorySymmetry
INVARIANTS
  HoldsItsLock
  OncePerFact
  WithinCapacity
  ErasureIsFinal
CHECK_DEADLOCK FALSE
