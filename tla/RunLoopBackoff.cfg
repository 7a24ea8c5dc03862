CONSTANTS
  Calls = {c1}
  Second = c1
  Configs <- DeadlineRetryConfigs
  Stdins = {"none"}
  MaxRetries = 2
  Delays = {1, 3}
  Never = Never
SPECIFICATION Spec
INVARIANT
  SleepsEndByDeadline
\* a call that has returned does nothing more
CHECK_DEADLOCK FALSE
