SPECIFICATION Spec
CONSTANTS
  MaxIterations = 3
  MaxCorrectors = 1
INVARIANTS
  LastAccepted
  StopsForAReason
  ResidualsReported
  TotalsMatchHistory
