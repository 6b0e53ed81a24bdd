SPECIFICATION FairSpec
CONSTANTS
  a = a
  b = b
  u1 = u1
  u2 = u2
  c1 = c1
  c2 = c2
  Names = {a}
  Users = {u1, u2}
  Locals = {u2}
  Closers = {c1, c2}
  Autocreate = FALSE
  Changefeed = TRUE
  MaxStreams = 2
  MayStop = TRUE
INVARIANT TypeOK
INVARIANT ClosedIsLeaving
INVARIANT EveryChangeIsTold
PROPERTY IdleIsSwept
CHECK_DEADLOCK FALSE
