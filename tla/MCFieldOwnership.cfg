SPECIFICATION LoadingSpec
CONSTANTS
  N = 3
  MaxNesting = 4
  MaxRetained = 5
  Texts <- MCTexts
INVARIANTS
  OneOwner
  PlanWindow
  ReadAsWritten
  SkipsAgree
PROPERTY OneShotSpec
