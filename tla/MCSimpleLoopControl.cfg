SPECIFICATION Spec
CONSTANTS
  MaxIterations = 2
  MaxCorrectors = 1
INVARIANT
  ControlUsesFirstSolve
