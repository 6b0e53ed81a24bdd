CONSTANTS
  Last = 2
  MaxChunks = 2
SPECIFICATION Spec
INVARIANT TypeOK
INVARIANT WholeOnceFollowed
INVARIANT PipesInPlace
PROPERTY NobodyWaitsForEver
\* RunSegmentation returns once its stream has ended.
CHECK_DEADLOCK FALSE
