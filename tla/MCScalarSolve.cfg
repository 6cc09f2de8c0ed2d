SPECIFICATION Spec
CONSTANTS
  Solvers = {"Jacobi", "GaussSeidel", "symGaussSeidel", "CG", "BiCGStab", "PCG", "GAMG"}
  Preconditioners = {"none", "incompleteCholesky", "faceLdu"}
  Matrices = {1, 2}
  Controls <- MCControls
  Spread = 2
  MaxNorm = 3
  MaxSolves = 2
INVARIANTS
  TrueConvergence
  ClaimKept
  SameIterate
  FreshFactors
CHECK_DEADLOCK FALSE
