SPECIFICATION BuildSpec
CONSTANTS
  NCells = 6
  Inputs <- MCInputs
  CoarsestCells = 2
  MaxLevels = 3
INVARIANTS
  OneSeed
  Connected
  FollowsMatrix
CHECK_DEADLOCK FALSE
