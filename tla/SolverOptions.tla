----------------------------- MODULE SolverOptions -----------------------------
(***************************************************************************)
(* The options of an incompressible solve (ferrumCli): what the command    *)
(* line sets goes before what the dictionaries of the case say, and that   *)
(* before the defaults.  The dictionaries are read in any case, and what   *)
(* the solver would have to ignore is refused.                             *)
(*                                                                         *)
(* A setting of the command line and an entry of a dictionary are sets of  *)
(* at most one value; of several entries with one key the first counts.    *)
(***************************************************************************)
EXTENDS SolverArguments, FiniteSets

CONSTANTS
  LinearCap,  \* FERRUM_MAX_CASE_LDU_MAX_ITERATIONS, the default limit as well
  SimpleCap   \* FERRUM_MAX_CASE_SIMPLE_ITERATIONS

ASSUME CapsAssumption == LinearCap \in Nat /\ SimpleCap \in Nat

Equations == {"U", "p"}
YesNo == {"yes", "no"}
Smoothers == {"gaussSeidel", "symGaussSeidel"}

\* The entries of solvers.U and solvers.p.
Words == {"solver", "smoother", "preconditioner", "agglomerator", "outerSolver"}
Numbers == {"tolerance", "relTol"}
GamgAmounts == {"nCellsInCoarsestLevel", "mergeLevels", "nPreSweeps", "preSweepsLevelMultiplier",
                "maxPreSweeps", "nPostSweeps", "postSweepsLevelMultiplier", "maxPostSweeps",
                "nFinestSweeps"}
GamgSwitches == {"cacheAgglomeration", "interpolateCorrection", "scaleCorrection",
                 "directSolveCoarsest"}
LinearKeys == Words \cup Numbers \cup {"maxIter", "minIter", "nSweeps"} \cup GamgAmounts \cup GamgSwitches

\* The entries of SIMPLE, relaxationFactors and transportProperties.
SimpleAmounts == {"minSimpleIterations", "pRefCell", "nNonOrthogonalCorrectors"}
SimpleKeys == SimpleAmounts \cup {"pRefValue", "consistent", "equations.U", "fields.p", "rho", "mu"}

Or(a, b) == IF a # {} THEN a ELSE b

-----------------------------------------------------------------------------
(***************************************************************************)
(* One equation: s the settings of the command line, d the dictionaries.   *)
(***************************************************************************)
SpecificOption(e, k) ==
  CASE k = "solver" -> IF e = "U" THEN "-momentumLinearSolver" ELSE "-pressureLinearSolver"
    [] k = "preconditioner" -> IF e = "U" THEN "-momentumPreconditioner" ELSE "-pressurePreconditioner"
    [] k = "tolerance" -> IF e = "U" THEN "-momentumSolveTolerance" ELSE "-pressureSolveTolerance"
    [] k = "maxIter" -> IF e = "U" THEN "-momentumMaxIterations" ELSE "-pressureMaxIterations"

GeneralOption(k) == CASE k = "solver" -> "-linearSolver"
                      [] k = "tolerance" -> "-solveTolerance"
                      [] k = "maxIter" -> "-maxIterations"

\* The option of the equation, or the one for both.
FromLine(s, e, k) == Or(s[SpecificOption(e, k)], s[GeneralOption(k)])

\* A smoothSolver is its smoother.
CaseSolver(d, e) == IF d.linear[e]["solver"] = {"smoothSolver"}
                    THEN d.linear[e]["smoother"] \cap Smoothers
                    ELSE d.linear[e]["solver"] \cap FlowSolvers

SolverOf(s, d, e) == Or(FromLine(s, e, "solver"), CaseSolver(d, e))

LimitOf(s, d, e) == Amounts(Or(FromLine(s, e, "maxIter"), d.linear[e]["maxIter"]))

\* As if an option of the other equation were a reason not to look.
OverLimitAnyway(s, d, e) == /\ \A x \in Equations : FromLine(s, x, "maxIter") = {}
                            /\ \E n \in Amounts(d.linear[e]["maxIter"]) : n > LinearCap
\* The case asks for more iterations than a case may, and the command line says nothing.
OverLimit(s, d, e) == /\ FromLine(s, e, "maxIter") = {}
                      /\ \E n \in Amounts(d.linear[e]["maxIter"]) : n > LinearCap

GamgRefused(d, e) == \/ d.linear[e]["smoother"] \cap Smoothers = {}
                     \/ ~ d.linear[e]["agglomerator"] \subseteq {"algebraicPair", "faceAreaPair"}
                     \/ ~ d.linear[e]["outerSolver"] \subseteq {"standalone", "FCG"}
                     \/ \E k \in GamgAmounts : ~ d.linear[e][k] \subseteq Whole
                     \/ \E k \in GamgSwitches : ~ d.linear[e][k] \subseteq YesNo
                     \/ \E k \in Numbers : ~ d.linear[e][k] \subseteq NonNegative
                     \/ \E k \in {"nCellsInCoarsestLevel", "mergeLevels"} : "0" \in d.linear[e][k]

ControlsRefused(d, e, solver) ==
  \/ ~ d.linear[e]["minIter"] \subseteq Whole
  \/ IF solver = "GAMG" THEN GamgRefused(d, e)
     ELSE \/ ~ d.linear[e]["relTol"] \subseteq NonNegative
          \/ ~ d.linear[e]["minIter"] \subseteq {"0"}
          \/ solver \in Smoothers /\ ~ d.linear[e]["nSweeps"] \subseteq {"1"}

\* Only two solvers need one from the case.
PreconditionerOf(s, d, e, solver) ==
  Or(s[SpecificOption(e, "preconditioner")],
     IF solver \in {"pcg", "bicgstab"} THEN d.linear[e]["preconditioner"] \cap Preconditioners
     ELSE {"none"})

EquationRefused(s, d, e) ==
  \/ ~ d.linear[e]["tolerance"] \subseteq Finite
  \/ ~ d.linear[e]["relTol"] \subseteq Finite
  \/ ~ d.linear[e]["maxIter"] \subseteq Whole
  \/ OverLimit(s, d, e)
  \/ SolverOf(s, d, e) = {}
  \/ \E x \in SolverOf(s, d, e) : \/ x = "GAMG" /\ e = "U"
                                  \/ ControlsRefused(d, e, x)
                                  \/ PreconditionerOf(s, d, e, x) = {}

\* The profile of a solver that the pressure is not solved with.
ProfileRefused(s, d) ==
  \E pair \in {<<"-profileGamg", "GAMG">>, <<"-profilePcg", "pcg">>} :
     s[pair[1]] # {} /\ SolverOf(s, d, "p") # {pair[2]}

-----------------------------------------------------------------------------
(***************************************************************************)
(* The iterations and the rest of SIMPLE: n the steps the run plan counts. *)
(***************************************************************************)
SimpleMost(s, n) == Or(Amounts(s["-maxSimpleIterations"]), n) \ {0}

\* What the run plan counts is capped, what the command line says is not.
OverSimple(s, n) == s["-maxSimpleIterations"] = {} /\ \E k \in n : k > SimpleCap

SimpleLeast(s, d, n) == Or(Amounts(Or(s["-minSimpleIterations"], d.simple["minSimpleIterations"])),
                           {IF k > 1 THEN 2 ELSE 1 : k \in SimpleMost(s, n)})

SimpleRefused(s, d, n) ==
  \/ s["-rho"] \cup (d.simple["rho"] \cap Finite) = {}
  \/ s["-mu"] \cup (d.simple["mu"] \cap Finite) = {}
  \/ \E k \in SimpleAmounts : ~ d.simple[k] \subseteq Whole
  \/ \E k \in {"pRefValue", "equations.U", "fields.p"} : ~ d.simple[k] \subseteq Finite
  \/ ~ d.simple["consistent"] \subseteq YesNo
  \/ ~ DOMAIN d.residualControl \subseteq Equations
  \/ \E e \in DOMAIN d.residualControl : d.residualControl[e] \notin Finite
  \/ SimpleMost(s, n) = {}
  \/ OverSimple(s, n)

-----------------------------------------------------------------------------
(***************************************************************************)
(* The schemes.  An entry of gradSchemes is a scheme or the name of        *)
(* another entry; a name occurs once on the way, and no way is a circle.   *)
(***************************************************************************)
Gradients == {"Gauss linear", "leastSquares", "cellLimited Gauss linear 1"}
SnGrads == {"corrected", "orthogonal", "uncorrected"}

Alone(grad, key) == key \in DOMAIN grad /\ Len(grad[key]) = 1
NextKey(grad, key) == {grad[k][1].value : k \in {x \in {key} : Alone(grad, x) /\ grad[x][1].alias}}
SchemeOf(grad, key) == {grad[k][1].value : k \in {x \in {key} : Alone(grad, x) /\ ~ grad[x][1].alias}}

\* On a circle there is no scheme, and a way without one is no longer than there are names.
Follow(grad, key) ==
  LET after[n \in 0 .. Cardinality(DOMAIN grad)] ==
        IF n = 0 THEN {key} ELSE UNION {NextKey(grad, k) : k \in after[n - 1]}
  IN  UNION {SchemeOf(grad, k) : k \in UNION {after[n] : n \in DOMAIN after}} \cap Gradients

\* The entry of a name, or the default one.
GradientOf(grad, key) == Follow(grad, IF key \in DOMAIN grad THEN key ELSE "default")

\* A bounded linearUpwind scheme takes the entry limited, which has no default.
ConvectionOf(d) ==
  LET x == Or(d.div["div(phi,U)"], d.div["default"])
  IN  IF x = {"bounded Gauss linearUpwind limited"} THEN Follow(d.grad, "limited")
      ELSE x \cap {"Gauss upwind", "Gauss linearUpwind grad(U)"}

\* Without a correction of its own the laplacian takes that of snGrad.
LaplacianOf(d) ==
  {IF x = "Gauss linear" THEN (CHOOSE y \in d.snGrad : TRUE) ELSE x :
     x \in Or(d.laplacian["laplacian(nu,U)"],
              Or(d.laplacian["laplacian(nuEff,U)"], d.laplacian["default"]))}

SchemesRefused(d) == \/ d.snGrad \cap SnGrads = {}
                     \/ LaplacianOf(d) \cap SnGrads = {}
                     \/ GradientOf(d.grad, "grad(p)") = {}
                     \/ GradientOf(d.grad, "grad(U)") = {}
                     \/ ConvectionOf(d) = {}
                     \/ d.interpolation # {"linear"}

-----------------------------------------------------------------------------
OptionsRefused(s, d, n) == \/ \E e \in Equations : EquationRefused(s, d, e)
                           \/ ProfileRefused(s, d)
                           \/ SimpleRefused(s, d, n)
                           \/ SchemesRefused(d)

\* The limit in the dictionary of the multigrid alone.
GamgLimitOfCase(s, d) == Or(Amounts(d.linear["p"]["maxIter"]), {LinearCap})
\* The limit of the multigrid is the one of the pressure.
GamgLimit(s, d) == Or(LimitOf(s, d, "p"), {LinearCap})

\* The limits a solve runs with.
ResolvedLimits(s, d, n) ==
  [linear |-> [e \in Equations |-> Or(LimitOf(s, d, e), {LinearCap})],
   gamg   |-> IF SolverOf(s, d, "p") = {"GAMG"} THEN GamgLimit(s, d) ELSE {},
   most   |-> SimpleMost(s, n),
   least  |-> SimpleLeast(s, d, n)]

=============================================================================
