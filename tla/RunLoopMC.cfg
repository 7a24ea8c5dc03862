CONSTANTS
  Calls = {c1, c2}
  Second = c2
  Configs <- AllConfigs
  Stdins = {"none", "bytes", "reader", "async_reader"}
  MaxRetries = 2
  Delays = {0, 1}
  Never = Never
SPECIFICATION MCSpec
INVARIANTS
  OnlyLastStartIsLate
  LateStartIsCancelled
  AttemptsMatchStarts
  RetryBudget
  ReaderAccounting
PROPERTIES
  KeepsCallPromise
  CancelledCallsReturn
  BoundedCallsReturn
\* a call that has returned does nothing more
CHECK_DEADLOCK FALSE
