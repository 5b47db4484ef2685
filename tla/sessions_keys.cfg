SPECIFICATION Spec
CONSTANTS
  t1 = t1
  t2 = t2
  t3 = t3
  NoToken = NoToken
  r1 = r1
  r2 = r2
  h1 = h1
  h2 = h2
  Tokens <- TwoTokens
  Handlers <- TwoHandlers
  Requests <- OneRequest
  TicksPerSecond = 2
  RefreshTTL = 2
  LastTick = 5
  MaxChanges = 2
  ReplicaLags = TRUE
SYMMETRY SessionSymmetry
INVARIANTS
  CutoffHolds
  SignedOutUntilLastSecond
CHECK_DEADLOCK FALSE
