SPECIFICATION ProviderSpec
CONSTANTS
  m1 = m1
  m2 = m2
  w1 = w1
  w2 = w2
  Models = {m1, m2}
  Widths = {w1, w2}
  WidthsOf <- TwoWidths
  Docs = {d1, d2}
  Actors = {a1, a2}
  Chatbots = {c1, c2}
  Configurations = {k1, k2, k3}
  Turns = {a1, a2}
  Capacity = 2
  Ttl = 1
  LastSecond = 1
  MaxClients = 3
  MaxSaves = 1
  Letters = {"<", "/", ">", "x"}
  ThinkOpen <- OpenTag
  ThinkClose <- CloseTag
  MaxDelta = 3
  MaxText = 7
  Readers = {d1, d2}
  Writers = {w3, w4}
  MaxVersion = 2
  TTL = 3
  MaxFill = 2
  Lag = 1
  DeletionEvicts = FALSE
SYMMETRY EmbeddingsSymmetry
INVARIANTS
  ClosedForACause
  ShownIsVisible
  StaleBounded
  StaleHasCause
PROPERTIES
  ModelsMixInARace
  WidthUnprovenInARace
  FloorMisleadsInARace
CHECK_DEADLOCK FALSE
