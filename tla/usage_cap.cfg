SPECIFICATION RequestSpec
CONSTANTS
  q1 = q1
  q2 = q2
  q3 = q3
  NoCap = NoCap
  Requests <- ThreeRequests
  Caps <- OneCap
  Sizes <- SmallSizes
  UnitBytes = 2
  LastMonth = 1
  FailClosed <- OneClosed
  Faults <- AllFaults
  Asks <- TwoAsks
  Sessions <- OneSession
  Addresses <- OneAddress
  Parts = 3
  BurstOf <- BurstOfBucket
  RateOf <- RateOfBucket
  Margin = 1
  LastSecond = 4
SYMMETRY RequestSymmetry
INVARIANTS
  WithinCeiling
  RefusalDeserved
  LedgerExact
  WindowBound
  RetryHonest
CHECK_DEADLOCK FALSE
