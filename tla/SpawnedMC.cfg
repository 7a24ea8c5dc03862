CONSTANTS
  Threads = {t1, t2}
  N = 2
  MaxChunks = 2
  Capacity = 2
  MaxCalls = 2
  None = None
SPECIFICATION FairSpec
INVARIANTS
  TypeOK
  StdoutAccounting
  StatusIsPipefail
  NoneLeft
PROPERTIES
  KeepsPromise
  KillFreesAll
\* the threads may be done, and the handle gone
CHECK_DEADLOCK FALSE
