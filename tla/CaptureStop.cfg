CONSTANTS
  N = 1
  Attempts <- SingleAttempts
  Feed = 1
  Writes = 1
  Errors = 1
  Capacity = 1
SPECIFICATION FairSpec
PROPERTY
  StopReturns
\* an attempt that is over does nothing more
CHECK_DEADLOCK FALSE
