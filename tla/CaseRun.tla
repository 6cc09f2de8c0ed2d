-------------------------------- MODULE CaseRun --------------------------------
(***************************************************************************)
(* One run of ferrumRun or ferrum solve (ferrumCli), from its arguments to *)
(* its last file: the arguments are read and the solver module is chosen,  *)
(* the plan of the case is built, the options are resolved, the case is    *)
(* solved, and the outputs that were asked for are written one after       *)
(* another below the current directory.  Any step may fail, and the run    *)
(* may be killed between two of them.                                      *)
(*                                                                         *)
(* The solve itself is not repeated here: it ends with a report or with an *)
(* error.  A file is named by the path to it, a sequence of names, and has *)
(* the content of one output, whole or torn.                               *)
(***************************************************************************)
EXTENDS SolverOptions, RunPlan

CONSTANTS
  PathOf,       \* the path that a value of the command line stands for
  SvgValues,    \* the values that end in .svg
  WithCsv,      \* each value with .csv for its extension
  Selection,    \* the region and the name of a field that a value stands for
  DefaultSteps, \* the most steps of a dry run unless the command line says more
  Cases,        \* the dictionaries, the fields and the solver that a case may have
  Places        \* the paths of the disk

VARIABLES
  case,         \* the dictionaries, the fields and the selection of the solver
  stage,        \* what the run does next
  selectedFrom, \* the case whose controlDict chose the solver: at most one
  limits,       \* the iteration limits it solves with: at most one record
  disk,         \* what is at each path
  open,         \* the output whose file is being written: at most one
  finished,     \* the outputs that were written
  shown,        \* what the file held that the plot shows
  interrupted,  \* a step failed that need not have, or the run was killed
  result        \* "running", "failed" or "ok"

fileVars == <<disk, open, finished, shown>>
caseVars == <<case, stage, selectedFrom, limits, fileVars, interrupted, result>>
vars == <<argumentVars, runVars, caseVars>>

-----------------------------------------------------------------------------
(***************************************************************************)
(* Files.                                                                  *)
(***************************************************************************)
\* The words of a command line.
Arguments == DOMAIN PathOf

Outputs == <<"loads", "csv", "plot", "U", "p", "json", "markdown">>
Absent == [is |-> "absent", holds |-> "nothing", whole |-> FALSE]
Directory == [is |-> "directory", holds |-> "nothing", whole |-> FALSE]
Torn(o) == [is |-> "file", holds |-> o, whole |-> FALSE]
Whole_(o) == [is |-> "file", holds |-> o, whole |-> TRUE]

Above(p, q) == Len(p) < Len(q) /\ \A i \in DOMAIN p : p[i] = q[i]

\* The path a file can have below the root.
Valid(p) == p # <<>> /\ p[1] # ".."

\* The disk has room for every file that may be asked for.
ASSUME CaseRunAssumption ==
  /\ DefaultSteps \in 0 .. MostSteps
  /\ WithCsv \in [Arguments -> Arguments]
  /\ \A v \in Arguments :
       /\ PathOf[v] \in Seq(STRING)
       /\ \A p \in {PathOf[v], Append(PathOf[v], "U"), Append(PathOf[v], "p")} : Valid(p) => p \in Places

\* The directories above a file are there or can be made.
Reachable(p) == \A q \in DOMAIN disk : Above(q, p) => disk[q].is # "file"

Replaceable(p) == Valid(p) /\ Reachable(p) /\ disk[p].is # "directory"

\* The file is opened: the old one is gone, the directories above it are there.
Opened(o, p) == [q \in DOMAIN disk |-> IF q = p THEN Torn(o)
                                       ELSE IF Above(q, p) THEN Directory
                                       ELSE disk[q]]

-----------------------------------------------------------------------------
(***************************************************************************)
(* The outputs that the command line asks for, and where they go.          *)
(***************************************************************************)
\* A plot without a file of residuals brings its own.
CsvValues == IF settings["-solveResidualCsv"] # {} THEN settings["-solveResidualCsv"]
             ELSE {WithCsv[v] : v \in settings["-solveResidualPlot"]}

PathsOf(values) == {PathOf[v] : v \in values}
FieldPaths(name) == {Append(PathOf[v], name) : v \in settings["-writeFinalFields"]}

Target(o) == CASE o = "loads" -> PathsOf(settings["-wallFaceLoadsCsv"])
               [] o = "csv" -> PathsOf(CsvValues)
               [] o = "plot" -> PathsOf(settings["-solveResidualPlot"])
               [] o \in {"U", "p"} -> FieldPaths(o)
               [] o = "json" -> PathsOf(settings["-solveReportJson"])
               [] o = "markdown" -> PathsOf(settings["-solveReportMarkdown"])
               [] o = "planJson" -> PathsOf(settings["-planJson"])

Position(o) == CHOOSE i \in DOMAIN Outputs : Outputs[i] = o

\* The output after the first n that is asked for, or the end of the outputs.
NextOutput(n) == LET left == {i \in n + 1 .. Len(Outputs) : Target(Outputs[i]) # {}}
                 IN  IF left = {} THEN "planJson"
                     ELSE Outputs[CHOOSE i \in left : \A j \in left : i <= j]

\* The files the loads are compared with, and those without the one the plot brings.
ComparedAll == {"csv", "plot", "json", "markdown", "U", "p"}
ComparedAsked == ComparedAll \ (IF settings["-solveResidualCsv"] = {} THEN {"csv"} ELSE {})
Compared == ComparedAll

Collides(p, q) == p = q \/ Above(p, q) \/ Above(q, p)

\* No file is at the path of the loads, above it or below it; they may be in the directory of the fields.
DestinationRefused ==
  \E p \in Target("loads") :
     \/ ~ Valid(p)
     \/ \E o \in Compared : \E q \in Target(o) : ~ Valid(q) \/ Collides(p, q)
     \/ \E q \in PathsOf(settings["-writeFinalFields"]) : ~ Valid(q) \/ p = q \/ Above(p, q)

-----------------------------------------------------------------------------
(***************************************************************************)
(* What a case has to be.                                                  *)
(***************************************************************************)
\* The module that dispatch chooses: the command line's, or the one of a marked controlDict.
Module == IF module # {} THEN module
          ELSE IF case.application = {"ferrumRun"} THEN case.solver ELSE {}

\* -case is looked for among all the arguments, and the first one counts here.
FirstCase(args) == LET at_ == {i \in DOMAIN args : args[i] = "-case"}
                   IN  IF at_ = {} THEN {"."}
                       ELSE {args[i + 1] : i \in {j \in at_ : j < Len(args) /\ \A k \in at_ : j <= k}}

RunCase == Or(settings["-case"], {"."})

\* A steady, laminar SIMPLE case.
ContractHolds == /\ case.sections.SIMPLE = 1
                 /\ ~ case.sections.PISO
                 /\ case.ddt = <<"steadyState">>
                 /\ \/ case.regimes = <<>>
                    \/ Len(case.regimes) = 1 /\ case.regimes[1] = <<"laminar">>

\* The boundary of each field at the chosen walls, each patch listed once.
WallsHold == settings["-wallForcePatches"] # {} => case.walls = [U |-> <<"noSlip">>, p |-> <<"zeroGradient">>]

\* The fields that a selection fits; without a region any region fits.
Selected == {i \in DOMAIN case.fields :
               \E v \in settings[Selector] :
                  /\ case.fields[i].name = Selection[v].name
                  /\ Selection[v].region # {} => case.fields[i].region = Selection[v].region}

-----------------------------------------------------------------------------
Goes(to) == stage' = to /\ UNCHANGED result
Fails == result' = "failed" /\ UNCHANGED stage
Either(ok, to) == IF ok THEN Goes(to) ELSE Fails
Running(at_) == result = "running" /\ stage = at_

ScanArguments == /\ Running("scan")
                 /\ \/ (Usage \/ ScanSolver \/ ScanOther) /\ stage' = stage
                    \/ ScanEnd /\ stage' = "dispatch"
                 /\ result' = IF parse' = "usage" THEN "ok" ELSE IF parse' = "refused" THEN "failed" ELSE result
                 /\ UNCHANGED <<runVars, case, selectedFrom, limits, fileVars, interrupted>>

\* Without a module on the command line the controlDict of a case is read.
Dispatch == /\ Running("dispatch")
            /\ selectedFrom' = IF module = {} THEN FirstCase(argv) ELSE {}
            /\ Either(Module = {"incompressibleFluid"} /\ (module = {} => FirstCase(argv) # {}), "parse")
            /\ UNCHANGED <<argumentVars, runVars, case, limits, fileVars, interrupted>>

ParseArguments == /\ Running("parse")
                  /\ \/ (Usage \/ ParseValued \/ ParseSwitch \/ ParseConsistent \/ ParseUnknown) /\ stage' = stage
                     \/ ParseEnd /\ stage' = "plan"
                  /\ result' = IF parse' = "usage" THEN "ok" ELSE IF parse' = "refused" THEN "failed" ELSE result
                  /\ UNCHANGED <<runVars, case, selectedFrom, limits, fileVars, interrupted>>

Plan == /\ Running("plan")
        /\ BuildRunPlan
        /\ Either(FlowSolve => ContractHolds,
                  IF settings["-runnerDryRun"] # {} THEN "dryRunAsked"
                  ELSE IF ScalarSolve THEN "scalar"
                  ELSE IF FlowSolve THEN "resolve" ELSE "planJson")
        /\ UNCHANGED <<argumentVars, case, selectedFrom, limits, fileVars, interrupted>>

AskDryRun == /\ Running("dryRunAsked")
             /\ DryRunAsked(IF settings["-maxRunnerSteps"] = {} THEN DefaultSteps
                            ELSE The(Amounts(settings["-maxRunnerSteps"])))
             /\ Goes("dryRun")
             /\ UNCHANGED <<argumentVars, case, selectedFrom, limits, fileVars, interrupted>>

\* An inspection has no solve after it.
DryRun == /\ Running("dryRun")
          /\ DryRunStepping
          /\ result' = IF preview' = "refused" THEN "failed" ELSE result
          /\ stage' = IF preview' = "done" THEN "planJson" ELSE stage
          /\ UNCHANGED <<argumentVars, case, selectedFrom, limits, fileVars, interrupted>>

\* The solve of one scalar field writes no file.
SolveScalar == /\ Running("scalar")
               /\ Either(\E i \in Selected : Selected = {i}, "planJson")
               /\ UNCHANGED <<argumentVars, runVars, case, selectedFrom, limits, fileVars, interrupted>>

Resolve == /\ Running("resolve")
           /\ LET n == The(plan).steps
              IN  /\ Either(~ OptionsRefused(settings, case, n), "destination")
                  /\ limits' = IF OptionsRefused(settings, case, n) THEN {}
                               ELSE {ResolvedLimits(settings, case, n)}
           /\ UNCHANGED <<argumentVars, runVars, case, selectedFrom, fileVars, interrupted>>

\* Before the solve: where the loads go, and the walls they are of.
CheckDestination == /\ Running("destination")
                    /\ Either(~ DestinationRefused /\ WallsHold, "solve")
                    /\ UNCHANGED <<argumentVars, runVars, case, selectedFrom, limits, fileVars, interrupted>>

Solve == /\ Running("solve")
         /\ Goes(NextOutput(0))
         /\ UNCHANGED <<argumentVars, runVars, case, selectedFrom, limits, fileVars, interrupted>>

-----------------------------------------------------------------------------
(***************************************************************************)
(* The outputs.                                                            *)
(***************************************************************************)
AtOutput(o) == Running(o) /\ open = {}

\* What has to hold of the disk before o is opened: U looks at p as well.
OpensAlone(o) == \A q \in Target(o) : Replaceable(q)
Opens(o) == OpensAlone(o) /\ (o = "U" => OpensAlone("p"))

OpenOutput(o) == /\ o # "plot"
                 /\ AtOutput(o)
                 /\ IF Opens(o) THEN /\ \E p \in Target(o) : disk' = Opened(o, p)
                                     /\ open' = {o}
                                     /\ UNCHANGED <<stage, result>>
                    ELSE Fails /\ UNCHANGED <<disk, open>>
                 /\ UNCHANGED <<argumentVars, runVars, case, selectedFrom, limits, finished, shown, interrupted>>

\* The plot reads the file of the residuals back; what goes wrong is only a warning.
PlotReads == \A q \in Target("csv") : disk[q].is = "file" /\ disk[q].holds = "csv"

OpenPlot == /\ AtOutput("plot")
            /\ IF settings["-solveResidualPlot"] \subseteq SvgValues /\ PlotReads /\ OpensAlone("plot")
               THEN /\ \E p \in Target("plot") : disk' = Opened("plot", p)
                    /\ open' = {"plot"}
                    /\ shown' = {disk[q] : q \in Target("csv")}
                    /\ UNCHANGED <<stage, result>>
               ELSE Goes(NextOutput(Position("plot"))) /\ UNCHANGED <<disk, open, shown>>
            /\ UNCHANGED <<argumentVars, runVars, case, selectedFrom, limits, finished, interrupted>>

CloseOutput(o) == /\ Running(o)
                  /\ open = {o}
                  /\ disk' = [q \in DOMAIN disk |-> IF {q} = Target(o) THEN Whole_(o) ELSE disk[q]]
                  /\ finished' = finished \cup {o}
                  /\ open' = {}
                  /\ Goes(NextOutput(Position(o)))
                  /\ UNCHANGED <<argumentVars, runVars, case, selectedFrom, limits, shown, interrupted>>

\* A plot that cannot be written to its end.
LosePlot == /\ Running("plot") /\ open = {"plot"}
            /\ open' = {}
            /\ Goes(NextOutput(Position("plot")))
            /\ UNCHANGED <<argumentVars, runVars, case, selectedFrom, limits, disk, finished, shown, interrupted>>

\* The plan is written last, and only where nothing is.
CreatesNew(p) == Valid(p) /\ Reachable(p) /\ disk[p].is = "absent"

OpenPlan == /\ Running("planJson") /\ open = {}
            /\ Target("planJson") # {}
            /\ \E p \in Target("planJson") :
                 IF CreatesNew(p) THEN /\ disk' = Opened("planJson", p)
                                       /\ open' = {"planJson"}
                                       /\ UNCHANGED <<stage, result>>
                 ELSE Fails /\ UNCHANGED <<disk, open>>
            /\ UNCHANGED <<argumentVars, runVars, case, selectedFrom, limits, finished, shown, interrupted>>

ClosePlan == /\ Running("planJson")
             /\ open = {"planJson"} \/ Target("planJson") = {}
             /\ disk' = [q \in DOMAIN disk |-> IF {q} = Target("planJson") THEN Whole_("planJson") ELSE disk[q]]
             /\ finished' = finished \cup {"planJson"}
             /\ open' = {}
             /\ result' = "ok"
             /\ UNCHANGED <<argumentVars, runVars, case, stage, selectedFrom, limits, shown, interrupted>>

\* A step fails or the run is killed: perhaps after the old file was removed.
Interrupt == /\ result = "running" /\ stage \notin {"scan", "dispatch", "parse"}
             /\ \/ UNCHANGED disk
                \/ \E o \in {Outputs[i] : i \in DOMAIN Outputs} : \E p \in Target(o) :
                     /\ AtOutput(o) /\ Opens(o) /\ disk[p].is = "file"
                     /\ disk' = [disk EXCEPT ![p] = Absent]
             /\ interrupted' = TRUE
             /\ result' = "failed"
             /\ UNCHANGED <<argumentVars, runVars, case, stage, selectedFrom, limits, open, finished, shown>>

Ended == result # "running" /\ UNCHANGED vars

CaseInit(lines, controls, policies, cases, disks) ==
  /\ ArgumentsInit(lines)
  /\ RunPlanInit(controls, policies)
  /\ case \in cases
  /\ disk \in disks
  /\ stage = IF invocation = "utility" THEN "parse" ELSE "scan"
  /\ selectedFrom = {}
  /\ limits = {}
  /\ open = {}
  /\ finished = {}
  /\ shown = {}
  /\ interrupted = FALSE
  /\ result = "running"

\* What a run may begin with.
CommandLines == [program : {"utility", "plan"}, args : Seq(Arguments)]
OldFiles == [is : {"file"}, holds : {"old"}, whole : BOOLEAN]
Disks == {d \in [Places -> {Absent, Directory} \cup OldFiles] :
            \A p, q \in Places : d[p] # Absent /\ Above(q, p) => d[q] = Directory}
Init == CaseInit(CommandLines, Controls, Policies, Cases, Disks)

Next == \/ ScanArguments \/ Dispatch \/ ParseArguments \/ Plan \/ AskDryRun \/ DryRun
        \/ SolveScalar \/ Resolve \/ CheckDestination \/ Solve
        \/ \E o \in {Outputs[i] : i \in DOMAIN Outputs} : OpenOutput(o) \/ CloseOutput(o)
        \/ OpenPlot \/ LosePlot \/ OpenPlan \/ ClosePlan \/ Interrupt \/ Ended

Spec == Init /\ [][Next]_vars

-----------------------------------------------------------------------------
(***************************************************************************)
(* Properties.                                                             *)
(***************************************************************************)
LastOf(o) == {read[i].value : i \in {j \in DOMAIN read : /\ read[j].option = o
                                                         /\ \A k \in j + 1 .. Len(read) : read[k].option # o}}
Solves(family) == CASE family = "scalar" -> ScalarSolve
                    [] family \in {"shared", "flow"} -> FlowSolve
                    [] family = "linear" -> ScalarSolve \/ FlowSolve
                    [] family = "inspection" -> ~ ScalarSolve /\ ~ FlowSolve
                    [] family = "general" -> TRUE

\* No argument is dropped between the look at the arguments, the parser and the checks
\* at its end, three passes with their own idea of an option: once a command line is
\* accepted, what was read last of an option is what is set, an option that may be
\* given once was read once, the solve an option belongs to is the one that runs, the
\* solve of a scalar field has a solver of its own, whatever -linearSolver said before,
\* and the options of the wall forces are all there or none.  The case that is solved is
\* that of the last -case that was read; the controlDict that chose the solver is that
\* of the first one, as long as no other option has -case for its value.
FirstOf(o) == {read[i].value : i \in {j \in DOMAIN read : /\ read[j].option = o
                                                          /\ \A k \in 1 .. j - 1 : read[k].option # o}}
CaseIsOption == \A i \in DOMAIN read : read[i].value # "-case"
ArgumentsKept ==
  parse = "accepted" =>
    /\ \A i \in DOMAIN read : /\ settings[read[i].option] = LastOf(read[i].option)
                              /\ Solves(FamilyOf(read[i].option))
                              /\ read[i].option \in OnceOnly =>
                                   \A j \in DOMAIN read : read[j].option = read[i].option => j = i
    /\ {o \in WallForces : settings[o] # {}} \in {{}, WallForces}
    /\ ScalarSolve => settings["-linearSolver"] \subseteq ScalarSolvers
    /\ RunCase = Or(LastOf("-case"), {"."})
    /\ CaseIsOption => selectedFrom \subseteq Or(FirstOf("-case"), {"."})

\* The iterations of a solve have no limit above the cap of the cases unless the user
\* gave it on the command line, and what the user gave there is the limit, of the
\* multigrid too: whatever solver, equation or run plan it is resolved through.
CaseFileCapped ==
  \A l \in limits :
    /\ \A e \in Equations :
         LET given == Amounts(FromLine(settings, e, "maxIter"))
         IN  IF given # {} THEN l.linear[e] = given ELSE \A n \in l.linear[e] : n <= LinearCap
    /\ LET given == Amounts(FromLine(settings, "p", "maxIter"))
       IN  l.gamg # {} => IF given # {} THEN l.gamg = given ELSE \A n \in l.gamg : n <= LinearCap
    /\ settings["-maxSimpleIterations"] = {} => \A n \in l.most : n <= SimpleCap

\* A run that ends well has left each file that was asked for whole, though an output
\* may be asked for where another one already is; the file of the loads is never lost
\* to a later output; and a plot shows nothing but a whole file of residuals.
OutputsKept ==
  /\ "loads" \in finished => \A p \in Target("loads") : disk[p] = Whole_("loads")
  /\ shown \subseteq {Whole_("csv")}
  /\ result = "ok" /\ FlowSolve =>
       \A o \in {Outputs[i] : i \in DOMAIN Outputs} \ {"plot"} : \A p \in Target(o) :
         /\ o \in finished
         /\ disk[p].whole \/ disk[p].holds = "plot"
         /\ \E x \in finished \cup {"plot"} : p \in Target(x) /\ disk[p].holds = x

\* The two fields of a solution are written as one: unless a step fails that need not
\* have, a run leaves both or neither, and a run that fails leaves no file torn but
\* perhaps that of the plot.
FieldsTogether ==
  ~ interrupted =>
    /\ stage \notin {"U", "p"} \/ result # "running" => ({"U", "p"} \cap finished \in {{}, {"U", "p"}})
    /\ result = "failed" => \A q \in DOMAIN disk :
         disk[q].is = "file" /\ ~ disk[q].whole => disk[q].holds \in {"plot", "old"}

=============================================================================
