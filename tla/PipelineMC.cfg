CONSTANTS
  N = 3
  Modes = {"sync", "async"}
  Timeouts = {0, 2, Never}
  Grace = 1
  Never = Never
SPECIFICATION FairSpec
INVARIANTS
  TypeOK
  NoOrphans
  GraceForTheWaited
  PipefailResult
  SharedTimeout
PROPERTIES
  NoSignalToReapedPid
  StoppedAttemptEnds
\* an attempt that is over does nothing more
CHECK_DEADLOCK FALSE
