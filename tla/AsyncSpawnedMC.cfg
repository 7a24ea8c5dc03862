CONSTANTS
  N = 2
  MaxChunks = 3
  Capacity = 2
  MaxCalls = 3
SPECIFICATION FairSpec
INVARIANTS
  TypeOK
  CompleteUnlessCut
PROPERTIES
  Idempotent
  CallsEnd
\* the owner may be done, and the handle gone
CHECK_DEADLOCK FALSE
