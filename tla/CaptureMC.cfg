CONSTANTS
  N = 2
  Attempts <- ChainAttempts
  Feed = 2
  Writes = 2
  Errors = 2
  Capacity = 1
SPECIFICATION FairSpec
INVARIANTS
  TypeOK
  CaptureComplete
PROPERTIES
  StoppedEnds
  NoPipeDeadlock
\* an attempt that is over does nothing more
CHECK_DEADLOCK FALSE
