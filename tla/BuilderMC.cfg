CONSTANTS
  Names = {x, y}
  StageOps = {arg}
  Knobs = {timeout}
  MaxStages = 4
  MaxOps = 1
SYMMETRY NameSymmetry
SPECIFICATION Spec
INVARIANT
  SecretsHidden
PROPERTY
  BuildsSequence
\* the Cmd has been spawned
CHECK_DEADLOCK FALSE
