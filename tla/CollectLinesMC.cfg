CONSTANTS
  Threads = {t1}
  N = 2
  MaxChunks = 3
  Capacity = 2
  MaxCalls = 0
  None = None
SPECIFICATION CollectSpec
INVARIANTS
  EveryLine
PROPERTIES
  RefusalEnds
  CollectEnds
\* the call may have returned
CHECK_DEADLOCK FALSE
