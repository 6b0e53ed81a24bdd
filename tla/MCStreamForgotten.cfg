SPECIFICATION Spec
CONSTANTS
  w1 = w1
  w2 = w2
  w3 = w3
  g1 = g1
  g2 = g2
  d1 = d1
  c1 = c1
  Subscribers = {g1, g2}
  Data <- Chunks
  Writers = {w1, w2}
  Readers = {g1, g2}
  Deleters = {}
  Closers = {}
  PostSeqs = {0, 1}
  GetSeqs = {0, 2}
  MaxChunks = 1
  BodyErrors = TRUE
  MaxSegmentsPerStream = 2
  CanReset = TRUE
INVARIANT SleepersHaveASource
CHECK_DEADLOCK FALSE
