CONSTANTS
  Last = 1
  MaxChunks = 1
  PipeSize = 1
SPECIFICATION ProgramSpec
INVARIANT NothingEndsEarly
PROPERTY StopsWhenInputEnds
\* runPublish returns; its copier waits for ever once ffmpeg has died.
CHECK_DEADLOCK FALSE
