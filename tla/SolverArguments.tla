---------------------------- MODULE SolverArguments ----------------------------
(***************************************************************************)
(* The command line of ferrumRun and of ferrum solve (ferrumCli).          *)
(* ferrumRun looks at every argument first: it takes the solver module     *)
(* out, refuses the developer utility, and executes unless some argument   *)
(* asks for an inspection.  The parser then reads the options that are     *)
(* left, one at a time, and checks at the end that each belongs to what    *)
(* is going to run.  An option that has several spellings has one here.    *)
(***************************************************************************)
EXTENDS Naturals, Sequences

CONSTANT
  MostSteps  \* MAX_RUNNER_DRY_RUN_STEPS

ASSUME MostStepsAssumption == MostSteps \in Nat

VARIABLES
  invocation,  \* "utility" for ferrum solve, "plan" or "execute" for ferrumRun
  raw,         \* the arguments before the look at them
  argv,        \* the arguments for the parser
  module,      \* the solver module of the command line: at most one
  at,          \* the argument to look at next
  settings,    \* what the options set: at most one value each
  seen,        \* the families an option was read of
  deferred,    \* -linearSolver is not one of the scalar solvers
  read,        \* the options read with their values, in order
  parse        \* "scanning", "parsing", "accepted", "refused" or "usage"

argumentVars == <<invocation, raw, argv, module, at, settings, seen, deferred, read, parse>>

-----------------------------------------------------------------------------
(***************************************************************************)
(* The options, by what their value has to be.                             *)
(***************************************************************************)
Whole == {"0", "1", "2", "3", "5", "6"}

Amount(t) == CASE t = "0" -> 0 [] t = "1" -> 1 [] t = "2" -> 2 [] t = "3" -> 3 [] t = "5" -> 5 [] t = "6" -> 6

Amounts(ts) == {Amount(t) : t \in ts}

Finite == Whole \cup {"-1", "0.5"}
NonNegative == Finite \ {"-1"}
Positive == NonNegative \ {"0"}
ScalarSolvers == {"cg", "pcg", "jacobi"}
FlowSolvers == ScalarSolvers \cup {"bicgstab", "gaussSeidel", "symGaussSeidel", "GAMG"}
Preconditioners == {"none", "diagonal", "DIC", "FDIC"}

Positives == {"-diffusivity", "-rho", "-mu", "-forceReferenceSpeed", "-forceReferenceArea"}
NonNegatives == {"-solveTolerance", "-momentumSolveTolerance", "-pressureSolveTolerance"}
Counts == {"-maxRunnerSteps", "-maxIterations", "-momentumMaxIterations",
           "-pressureMaxIterations", "-maxSimpleIterations", "-minSimpleIterations"}
Indices == {"-nNonOrthogonalCorrectors", "-pRefCell"}
Solvers == {"-linearSolver", "-momentumLinearSolver", "-pressureLinearSolver"}
Relaxations == {"-velocityRelaxation", "-pressureRelaxation"}
Paths == {"-case", "-planJson", "-solveResidualCsv", "-solveResidualPlot",
          "-solveReportJson", "-solveReportMarkdown", "-writeFinalFields"}

\* The values v with which option o is read.
Takes(o, v) ==
  CASE o \in Positives -> v \in Positive
    [] o \in NonNegatives -> v \in NonNegative
    [] o \in Counts -> /\ v \in Whole \ {"0"}
                       /\ o = "-maxRunnerSteps" => Amount(v) <= MostSteps
    [] o \in Indices -> v \in Whole
    [] o \in {"-source", "-pRefValue"} -> v \in Finite
    [] o \in Relaxations -> v \in {"0.5", "1"}
    [] o \in Solvers -> v \in FlowSolvers
    [] o \in {"-momentumPreconditioner", "-pressurePreconditioner"} -> v \in Preconditioners
    [] o = "-momentumExecution" -> v \in {"serial", "parallel-components"}
    [] o \in {"-solveScalarDiffusion", "-wallFaceLoadsCsv"} -> v # ""
    [] o = "-wallForcePatches" -> v \notin {"", "a,,b", "a,a"}
    [] OTHER -> TRUE

Inspections == {"-preflight", "-runnerDryRun"}
Helps == {"-h", "-help"}
Selector == "-solveScalarDiffusion"
ScalarOptions == {"-diffusivity", "-source"}
LinearOptions == {"-linearSolver", "-solveTolerance", "-maxIterations"}
FlowSwitches == {"-noSimpleConsistent", "-solveVerbose", "-profileGamg", "-profilePcg"}
WallForces == {"-wallForcePatches", "-forceReferenceSpeed", "-forceReferenceArea"}
OnceOnly == WallForces \cup {"-wallFaceLoadsCsv"}
General == {"-case", "-planJson", "-maxRunnerSteps"}
FlowOptions == (Positives \cup NonNegatives \cup Counts \cup Indices \cup Solvers \cup Relaxations
                  \cup Paths \cup OnceOnly
                  \cup {"-pRefValue", "-momentumPreconditioner", "-pressurePreconditioner",
                        "-momentumExecution"})
               \ (General \cup ScalarOptions \cup LinearOptions \cup {"-mu"})
Valued == General \cup {Selector} \cup ScalarOptions \cup LinearOptions \cup {"-mu"} \cup FlowOptions
Options == Valued \cup FlowSwitches \cup Inspections \cup {"-simpleConsistent"}

\* What an option belongs to.
FamilyOf(o) == CASE o \in ScalarOptions -> "scalar"
                 [] o \in LinearOptions -> "linear"
                 [] o = "-mu" -> "shared"
                 [] o \in Inspections -> "inspection"
                 [] o \in General \cup {Selector} -> "general"
                 [] OTHER -> "flow"

\* The setting an option writes.
Writes(o) == IF o = "-noSimpleConsistent" THEN "-simpleConsistent" ELSE o

-----------------------------------------------------------------------------
ArgumentsInit(lines) ==
  /\ \E line \in lines : raw = line.args /\ invocation = line.program
  /\ argv = IF invocation = "utility" THEN raw ELSE <<>>
  /\ module = {}
  /\ at = 1
  /\ settings = [o \in Options |-> {}]
  /\ seen = {}
  /\ deferred = FALSE
  /\ read = <<>>
  /\ parse = IF invocation = "utility" THEN "parsing" ELSE "scanning"

Among(tokens, args) == \E i \in DOMAIN args : args[i] \in tokens

Refuse == /\ parse' = "refused"
          /\ UNCHANGED <<invocation, raw, argv, module, at, settings, seen, deferred, read>>

\* The words that cannot be the value of -solver.
Dashed(v) == v \in Options \cup Helps \cup {"-1", "-solver"}

Usage == /\ parse \in {"scanning", "parsing"}
         /\ at = 1
         /\ Among(Helps, raw)
         /\ parse' = "usage"
         /\ UNCHANGED <<invocation, raw, argv, module, at, settings, seen, deferred, read>>

Scanning == parse = "scanning" /\ ~ Among(Helps, raw) /\ at <= Len(raw)

ScanSolver ==
  /\ Scanning
  /\ raw[at] = "-solver"
  /\ IF module # {} \/ at = Len(raw) THEN Refuse
     ELSE IF Dashed(raw[at + 1]) THEN Refuse
     ELSE /\ module' = {raw[at + 1]}
          /\ at' = at + 2
          /\ UNCHANGED <<invocation, raw, argv, settings, seen, deferred, read, parse>>

\* Any other argument goes on to the parser, but for the developer utility.
ScanOther ==
  /\ Scanning
  /\ raw[at] # "-solver"
  /\ IF raw[at] = Selector THEN Refuse
     ELSE /\ argv' = Append(argv, raw[at])
          /\ at' = at + 1
          /\ UNCHANGED <<invocation, raw, module, settings, seen, deferred, read, parse>>

\* Some argument asks for an inspection, whatever it stands for.
Executes == ~ Among(Inspections, argv)

ScanEnd ==
  /\ parse = "scanning" /\ ~ Among(Helps, raw) /\ at = Len(raw) + 1
  /\ invocation' = IF Executes THEN "execute" ELSE "plan"
  /\ parse' = "parsing"
  /\ at' = 1
  /\ UNCHANGED <<raw, argv, module, settings, seen, deferred, read>>

-----------------------------------------------------------------------------
Parsing == parse = "parsing" /\ ~ Among(Helps, raw) /\ at <= Len(argv)

\* Option o is read with value v, from n arguments.
Read(o, v, n) == /\ settings' = [settings EXCEPT ![Writes(o)] = {v}]
                 /\ seen' = seen \cup {FamilyOf(o)}
                 /\ deferred' = IF o = "-linearSolver" THEN v \notin ScalarSolvers ELSE deferred
                 /\ read' = Append(read, [option |-> Writes(o), value |-> v])
                 /\ at' = at + n
                 /\ UNCHANGED <<invocation, raw, argv, module, parse>>

\* The option may be given once only and is given again.
GivenAgain(o) == o \in OnceOnly /\ settings[o] # {}

ParseValued ==
  /\ Parsing
  /\ argv[at] \in Valued
  /\ IF GivenAgain(argv[at]) \/ at = Len(argv) THEN Refuse
     ELSE IF ~ Takes(argv[at], argv[at + 1]) THEN Refuse
     ELSE Read(argv[at], argv[at + 1], 2)

ParseSwitch ==
  /\ Parsing
  /\ argv[at] \in FlowSwitches \cup Inspections
  /\ Read(argv[at], IF argv[at] = "-noSimpleConsistent" THEN "no" ELSE "yes", 1)

\* A value follows -simpleConsistent unless the next argument has a dash.
ParseConsistent ==
  /\ Parsing
  /\ argv[at] = "-simpleConsistent"
  /\ IF at = Len(argv) THEN Read(argv[at], "yes", 1)
     ELSE IF Dashed(argv[at + 1]) THEN Read(argv[at], "yes", 1)
     ELSE IF argv[at + 1] \in {"yes", "no"} THEN Read(argv[at], argv[at + 1], 2)
     ELSE Refuse

ParseUnknown == Parsing /\ argv[at] \notin Options /\ Refuse

-----------------------------------------------------------------------------
(***************************************************************************)
(* The end: what is going to run, and whether every option belongs to it.  *)
(***************************************************************************)
ScalarSolve == settings[Selector] # {}
FlowSolve == invocation = "execute"

\* The three options of the wall forces come together, the file of the loads with them.
WallForcesWhole == LET given == {o \in WallForces : settings[o] # {}}
                   IN  \/ given = WallForces
                       \/ given = {} /\ settings["-wallFaceLoadsCsv"] = {}

\* Forgetting the options that either solve takes.
UnclaimedByOne == \/ "scalar" \in seen /\ ~ ScalarSolve
                  \/ seen \cap {"shared", "flow"} # {} /\ ~ FlowSolve

\* An option belongs to something that does not run.
Unclaimed == \/ "scalar" \in seen /\ ~ ScalarSolve
             \/ seen \cap {"shared", "flow"} # {} /\ ~ FlowSolve
             \/ "linear" \in seen /\ ~ ScalarSolve /\ ~ FlowSolve

\* An inspection with a solve, and two solves.
Conflict == \/ "inspection" \in seen /\ (ScalarSolve \/ FlowSolve)
            \/ ScalarSolve /\ FlowSolve

ParseEnd == /\ parse = "parsing" /\ ~ Among(Helps, raw) /\ at = Len(argv) + 1
            /\ IF Unclaimed \/ Conflict \/ ~ WallForcesWhole \/ (ScalarSolve /\ deferred)
               THEN Refuse
               ELSE /\ parse' = "accepted"
                    /\ UNCHANGED <<invocation, raw, argv, module, at, settings, seen, deferred, read>>

ArgumentsStep == \/ Usage \/ ScanSolver \/ ScanOther \/ ScanEnd
                 \/ ParseValued \/ ParseSwitch \/ ParseConsistent \/ ParseUnknown \/ ParseEnd

=============================================================================
