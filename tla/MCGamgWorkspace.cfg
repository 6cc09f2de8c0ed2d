SPECIFICATION Spec
CONSTANTS
  Coarsest = 3
  Matrices = {1, 2}
  Options <- MCOptions
  Controls <- MCControls
  MaxResidual = 2
  MaxSolves = 3
INVARIANTS
  RetrySafe
  OneMatrix
  HonestReport
PROPERTIES
  Returns
CHECK_DEADLOCK FALSE
