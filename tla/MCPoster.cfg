SPECIFICATION PosterFairSpec
CONSTANTS
  maxInflightSegments = 2
  MaxSegments = 3
  MaxTries = 2
  Chunks = 2
INVARIANT PosterTypeOK
INVARIANT InFlightBounded
INVARIANT FromTheStart
INVARIANT EveryNumberSettled
PROPERTY OutdatedGivesUp
CHECK_DEADLOCK FALSE
