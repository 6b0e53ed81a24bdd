SPECIFICATION FairSpec
CONSTANTS
  w1 = w1
  w2 = w2
  w3 = w3
  g1 = g1
  g2 = g2
  d1 = d1
  c1 = c1
  Subscribers = {g1}
  Data <- Chunks
  Writers = {w1, w2}
  Readers = {g1}
  Deleters = {}
  Closers = {c1}
  PostSeqs = {0}
  GetSeqs <- EdgeSeqs
  MaxChunks = 2
  BodyErrors = FALSE
  MaxSegmentsPerStream = 2
  CanReset = TRUE
INVARIANT PrefixDelivery
INVARIANT WholeSegment
PROPERTY ClosingReleasesAll
CHECK_DEADLOCK FALSE
