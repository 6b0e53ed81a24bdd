SPECIFICATION Spec
CONSTANTS
  w1 = w1
  w2 = w2
  w3 = w3
  g1 = g1
  g2 = g2
  d1 = d1
  c1 = c1
  Subscribers = {g1}
  Data <- Chunks
  Writers = {w1, w2}
  Readers = {g1}
  Deleters = {d1}
  Closers = {}
  PostSeqs <- WrapSeqs
  GetSeqs <- AllSeqs
  MaxChunks = 1
  BodyErrors = TRUE
  MaxSegmentsPerStream = 2
  CanReset = TRUE
SYMMETRY Symmetry
INVARIANT TypeOK
INVARIANT ChannelAgree
INVARIANT NoCrossTalk
INVARIANT ParkedIsCaughtUp
INVARIANT LiveEdgeServed
CHECK_DEADLOCK FALSE
