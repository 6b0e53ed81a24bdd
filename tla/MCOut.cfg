CONSTANTS
  MaxRetries = 2
  RetryInterval = 2
  PipeSize = 2
  MaxTime = 5
SPECIFICATION OutSpec
INVARIANT OutTypeOK
INVARIANT RetriesOnlyFailures
PROPERTY EndsWithStream
\* runSubscribe returns, and it blocks for ever once ffmpeg was given up.
CHECK_DEADLOCK FALSE
