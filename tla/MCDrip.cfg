SPECIFICATION FairSpec
CONSTANTS
  Readers = {a, b, c}
  Chunks = {x, y}
  BufferSizes = {1, 2}
  MaxLength = 3
  a = a
  b = b
  c = c
  x = x
  y = y
INVARIANT TypeOK
INVARIANT NoLostWakeup
PROPERTY ImplementsRelay
PROPERTY EveryReaderFinishes
CHECK_DEADLOCK FALSE
