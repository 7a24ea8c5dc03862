CONSTANTS
  Threads = {t1, t2}
  Cmds = {a, b}
  MaxExpectations = 2
  MaxTimes = 2
  MaxCalls = 2
  None = None
SPECIFICATION Spec
INVARIANTS
  FirstMatchAnswers
  OnlyCallbacksPoison
PROPERTIES
  VerifyTells
\* the threads may have made all their calls
CHECK_DEADLOCK FALSE
