SPECIFICATION FairSpec
CONSTANTS
  SeekTo <- SeekTargets
  MaxPreconnectErrors = 1
  Window = 2
  MaxSeq = 2
  MaxSeeks = 1
  MaxErrors = 2
INVARIANT TypeOK
INVARIANT InOrder
PROPERTY NobodyIsStuck
CHECK_DEADLOCK FALSE
