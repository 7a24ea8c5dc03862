CONSTANTS
  Files <- SomeFiles
  Envs <- SomeEnvs
  MaxDirs = 3
  MaxChanges = 1
SPECIFICATION Spec
INVARIANTS
  AsTheSystem
  NonePassedOver
\* the program has been spawned
CHECK_DEADLOCK FALSE
