SPECIFICATION FairSpec
CONSTANTS
  Sessions = {s1, s2}
  Tickets = {t1}
  Requests = {r1}
  MaxMessages = 3
  BatchSize = 1
  MaxBatches = 2
PROPERTIES
  SweepTakesHeldInARace
  EventuallyPurged
CHECK_DEADLOCK FALSE
