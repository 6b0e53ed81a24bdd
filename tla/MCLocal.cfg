SPECIFICATION Spec
CONSTANTS
  w1 = w1
  w2 = w2
  w3 = w3
  r1 = r1
  Subscribers = {r1}
  Data <- Chunks
  Writers = {w1, w2, w3}
  SetSeqs = {1}
  MaxReads = 2
  MaxChunks = 1
  Failing = {w1, w2, w3}
  MaxSegmentsPerStream = 2
  CanReset = FALSE
SYMMETRY Symmetry
INVARIANT TypeOK
INVARIANT EveryWriteHasItsEntry
INVARIANT WholeEntry
CHECK_DEADLOCK FALSE
