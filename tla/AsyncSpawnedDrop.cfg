CONSTANTS
  N = 1
  MaxChunks = 3
  Capacity = 2
  MaxCalls = 3
SPECIFICATION Spec
INVARIANT
  DroppedWaitLosesNothing
\* the owner may be done, and the handle gone
CHECK_DEADLOCK FALSE
