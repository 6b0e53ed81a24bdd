SPECIFICATION FairSpec
CONSTANTS
  k1 = k1
  k2 = k2
  Callers = {k1, k2}
  MaxPosts = 4
  MaxWrites = 2
  MaxChunks = 1
  Answers = {"broken"}
INVARIANT TypeOK
INVARIANT EachCallItsNumber
INVARIANT ServerHasTheLastWord
PROPERTY WriteReturns
CHECK_DEADLOCK FALSE
