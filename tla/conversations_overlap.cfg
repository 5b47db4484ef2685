SPECIFICATION Spec
CONSTANTS
  Sessions = {s1}
  Tickets = {t1}
  Requests = {r1, r2}
  MaxMessages = 3
  BatchSize = 1
  MaxBatches = 2
SYMMETRY RequestSymmetry
PROPERTIES
  StampWrongInARace
CHECK_DEADLOCK FALSE
