------------------------------- MODULE MCCaseRun -------------------------------
(* Runs in which one part is unusual: the arguments, the numbers of the plan, the dictionaries, or the outputs. *)
EXTENDS CaseRun

RECURSIVE Lines(_, _)
Lines(chunks, n) == IF n = 0 THEN {<<>>} ELSE Lines(chunks, n - 1) \cup {c \o l : c \in chunks, l \in Lines(chunks, n - 1)}
Given_(o, values) == {<<o, v>> : v \in values}
By(programs, args) == {[program |-> p, args |-> a] : p \in programs, a \in args}

(* A regular case: it passes every check. *)
MCStages == <<"mesh", "solve">>
Times(s, e, dt, i, stop, by) == [startTime |-> s, endTime |-> e, deltaT |-> dt, writeInterval |-> i, stopAt |-> stop, writeControl |-> by]
Steady == Times({0}, {4}, {2}, {4}, "endTime", "timeStep")
RegularLinear == [e \in Equations |-> [k \in LinearKeys |->
                    IF k = "solver" THEN {IF e = "U" THEN "smoothSolver" ELSE "GAMG"}
                    ELSE IF k = "smoother" THEN {"gaussSeidel"}
                    ELSE IF k = "maxIter" /\ e = "p" THEN {"1"} ELSE {}]]
Regular == [application |-> {"ferrumRun"}, solver |-> {"incompressibleFluid"},
            sections |-> [SIMPLE |-> 1, PISO |-> FALSE], ddt |-> <<"steadyState">>, regimes |-> << <<"laminar">> >>,
            walls |-> [U |-> <<"noSlip">>, p |-> <<"zeroGradient">>],
            fields |-> <<[region |-> {}, name |-> "T"], [region |-> {"fluid"}, name |-> "p"], [region |-> {}, name |-> "p"]>>,
            linear |-> RegularLinear,
            simple |-> [k \in SimpleKeys |-> IF k \in {"rho", "mu"} THEN {"1"} ELSE {}],
            residualControl |-> [e \in {"U"} |-> "0.5"],
            snGrad |-> {"corrected"},
            laplacian |-> [k \in {"laplacian(nu,U)", "laplacian(nuEff,U)", "default"} |-> IF k = "default" THEN {"Gauss linear"} ELSE {}],
            div |-> [k \in {"div(phi,U)", "default"} |-> IF k = "default" THEN {} ELSE {"bounded Gauss linearUpwind limited"}],
            grad |-> [k \in {"default", "limited"} |-> IF k = "default" THEN <<[alias |-> FALSE, value |-> "Gauss linear"]>>
                                                      ELSE <<[alias |-> TRUE, value |-> "default"]>>],
            interpolation |-> {"linear"}]

(* The places on the disk. *)
MCWords == Options \cup Helps \cup {"-solver", "incompressibleFluid", "..", "a", "b", "d", "d/U", "d/x", "r.csv", "r.svg", "j", "up",
            "p", "fluid/p", "T", "a,a", "", "0", "1", "2", "3", "5", "6", "-1", "0.5", "pcg", "GAMG", "DIC", "yes", "no", "-bad"}
MCPathOf == [w \in MCWords |-> CASE w = "d" -> <<"d">> [] w = "d/U" -> <<"d", "U">> [] w = "d/x" -> <<"d", "x">>
                                 [] w = "r.csv" -> <<"r">> [] w = "r.svg" -> <<"s">> [] w = "up" -> <<"..", "r">>
                                 [] OTHER -> <<"j">>]
MCWithCsv == [w \in MCWords |-> IF w = "r.svg" THEN "r.csv" ELSE IF w = "d/x" THEN "d/U" ELSE w]
MCSelection == [w \in MCWords |-> CASE w = "fluid/p" -> [region |-> {"fluid"}, name |-> "p"]
                                    [] OTHER -> [region |-> {}, name |-> w]]
Files == {<<"d">>, <<"d", "U">>, <<"d", "x">>, <<"r">>, <<"s">>, <<"j">>}
MCPlaces == Files \cup {Append(q, x) : q \in Files, x \in {"U", "p"}}
Old == [is |-> "file", holds |-> "old", whole |-> TRUE]
DiskWith(files, directories) == [q \in MCPlaces |-> IF q \in files THEN Old ELSE IF q \in directories THEN Directory ELSE Absent]
EmptyDisk == DiskWith({}, {})

(* Arguments. *)
Chunks == {<<"-case">>, <<"-case", "a">>, <<"-case", "b">>, <<"-preflight">>, <<"-runnerDryRun">>, <<"-solver", "incompressibleFluid">>, <<"-solver">>, <<"-rho", "1">>,
           <<"-rho", "2">>, <<"-rho", "0">>, <<"-mu", "1">>, <<"-diffusivity", "1">>, <<"-solveScalarDiffusion", "T">>,
           <<"-linearSolver", "pcg">>, <<"-linearSolver", "GAMG">>, <<"-maxIterations", "3">>, <<"-simpleConsistent">>,
           <<"-simpleConsistent", "no">>, <<"-noSimpleConsistent">>, <<"-bad">>, <<"-help">>, <<"-profileGamg">>,
           <<"-wallForcePatches", "a">>, <<"-forceReferenceSpeed", "1">>, <<"-forceReferenceArea", "1">>,
           <<"-wallFaceLoadsCsv", "r.csv">>, <<"-maxRunnerSteps", "1">>, <<"-planJson">>}
ArgumentLines == By({"utility", "plan"}, Lines(Chunks, 3))

(* The dry run. *)
DryRunLines == By({"utility"}, {<<"-runnerDryRun">>, <<"-runnerDryRun", "-maxRunnerSteps", "3">>, <<"-runnerDryRun", "-maxRunnerSteps", "5">>,
                                 <<"-runnerDryRun", "-maxRunnerSteps", "6">>, <<"-runnerDryRun", "-maxRunnerSteps", "1", "-planJson", "j">>})
Moments == {{}, {0}, {1}}
DryRunControls == {Times(s, e, dt, i, stop, by) : s \in Moments, e \in {{}, {1}, {5}, {6}}, dt \in {{}, {1}, {2}, {3}},
                     i \in {{}, {0}, {1}, {2}, {3}, {4}}, stop \in {"endTime"}, by \in WriteControls}
                  \cup {[Steady EXCEPT !.stopAt = "writeNow"]}
MCPolicies == {{}, {[default |-> "gpu", entries |-> <<>>]},
               {[default |-> "cpu", entries |-> <<[stage |-> "solve", choice |-> "gpu"]>>]},
               {[default |-> "gpu", entries |-> <<[stage |-> "solve", choice |-> "gpu"], [stage |-> "solve", choice |-> "cpu"]>>]},
               {[default |-> "cpu", entries |-> <<[stage |-> "mesh", choice |-> "auto"], [stage |-> "solve", choice |-> "auto"]>>]}}

(* The dictionaries. *)
CaseLines == By({"plan"}, Lines({<<"-solver", "incompressibleFluid">>, <<"-maxIterations", "3">>, <<"-pressureMaxIterations", "3">>,
                                    <<"-momentumMaxIterations", "1">>, <<"-maxSimpleIterations", "3">>, <<"-pressureLinearSolver", "pcg">>,
                                    <<"-pressurePreconditioner", "DIC">>, <<"-wallForcePatches", "a", "-forceReferenceSpeed", "1", "-forceReferenceArea", "1">>}, 2))
             \cup By({"utility"}, {<<"-solveScalarDiffusion", "p">>, <<"-solveScalarDiffusion", "fluid/p">>, <<"-solveScalarDiffusion", "T">>, <<>>})
LinearWords == {"GAMG", "pcg", "smoothSolver", "bad"}
LinearValues(k) == CASE k = "solver" -> {{}} \cup {{x} : x \in LinearWords}
                     [] k \in {"tolerance", "relTol"} -> {{"bad"}, {"0.5"}, {"-1"}}
                     [] k = "maxIter" -> {{}, {"2"}, {"3"}, {"0.5"}}
                     [] k \in Words -> {{}, {"bad"}, {"DIC"}, {"FCG"}, {"faceAreaPair"}}
                     [] OTHER -> {{"0"}, {"1"}, {"2"}, {"bad"}}
LinearCases == {[Regular EXCEPT !.linear[e][k] = v] : e \in Equations, k \in LinearKeys, v \in UNION {LinearValues(x) : x \in LinearKeys}}
SomeLinear == {<<"solver", {"pcg"}>>, <<"solver", {"smoothSolver"}>>, <<"solver", {"bad"}>>, <<"maxIter", {}>>, <<"maxIter", {"2"}>>, <<"maxIter", {"3"}>>,
               <<"preconditioner", {"DIC"}>>, <<"relTol", {"0.5"}>>, <<"minIter", {"1"}>>, <<"nSweeps", {"2"}>>}
PairCases == {[Regular EXCEPT !.linear[e][x[1]] = x[2], !.linear[f][y[1]] = y[2]] : <<e, f>> \in {<<"U", "p">>, <<"p", "p">>}, x, y \in SomeLinear}
Aliases(a, b) == [k \in {"default", "limited"} |-> IF k = "default" THEN a ELSE b]
To(x) == <<[alias |-> TRUE, value |-> x]>>
Scheme(x) == <<[alias |-> FALSE, value |-> x]>>
SimpleCases == {[Regular EXCEPT !.simple[k] = v] : k \in SimpleKeys, v \in {{}, {"1"}, {"0.5"}, {"bad"}, {"yes"}}}
OtherCases ==
  {[Regular EXCEPT !.residualControl = r] : r \in {[e \in {"p"} |-> "bad"], [e \in {"U", "T"} |-> "1"]}}
  \cup {[Regular EXCEPT !.snGrad = x] : x \in {{}, {"limited"}, {"orthogonal"}}}
  \cup {[Regular EXCEPT !.laplacian["default"] = x] : x \in {{}, {"bad"}, {"corrected"}}}
  \cup {[Regular EXCEPT !.div["div(phi,U)"] = x] : x \in {{}, {"Gauss upwind"}, {"Gauss vanLeer"}}}
  \cup {[Regular EXCEPT !.grad = x] : x \in {Aliases(To("limited"), To("default")), Aliases(Scheme("leastSquares"), <<>>),
                                            Aliases(To("limited"), Scheme("leastSquares")), Aliases(Scheme("bad"), To("grad(U)"))}}
  \cup {[Regular EXCEPT !.interpolation = {}], [Regular EXCEPT !.application = {"simpleFoam"}], [Regular EXCEPT !.solver = {}],
        [Regular EXCEPT !.sections.SIMPLE = 2], [Regular EXCEPT !.sections.PISO = TRUE], [Regular EXCEPT !.ddt = <<"steadyState", "Euler">>],
        [Regular EXCEPT !.regimes = <<>>], [Regular EXCEPT !.regimes = << <<"RAS">> >>], [Regular EXCEPT !.walls.U = <<"noSlip", "noSlip">>]}
MCCases == LinearCases \cup PairCases \cup SimpleCases \cup OtherCases
CaseControls == {Steady, [Steady EXCEPT !.endTime = {8}], [Steady EXCEPT !.deltaT = {}]}

(* The outputs. *)
Execute(args) == <<"-solver", "incompressibleFluid">> \o args
Loads(v) == <<"-wallFaceLoadsCsv", v, "-wallForcePatches", "a", "-forceReferenceSpeed", "1", "-forceReferenceArea", "1">>
LoadsWords == {<<>>} \cup {Loads(v) : v \in {"r.csv", "d", "d/U", "d/x", "up"}}
CsvWords == {<<>>} \cup Given_("-solveResidualCsv", {"r.csv", "d/x"})
PlotWords == {<<>>} \cup Given_("-solveResidualPlot", {"r.svg", "d/x", "j"})
FieldWords == {<<>>} \cup Given_("-writeFinalFields", {"d", "up", "j"})
ReportWords == {<<>>} \cup Given_("-solveReportJson", {"r.csv", "d/x"}) \cup Given_("-solveReportMarkdown", {"d/x", "d/U"})
PlanWords == {<<>>} \cup Given_("-planJson", {"j", "r.csv", "d"})
OutputLines == By({"plan"}, {Execute(l \o c \o g \o f \o r \o j) : l \in LoadsWords, c \in CsvWords, g \in PlotWords,
                                  f \in FieldWords, r \in ReportWords, j \in PlanWords})
D == {<<"d">>}
MCDisks == {EmptyDisk, DiskWith(D, {}), DiskWith({}, D), DiskWith({<<"d", "U">>, <<"r">>}, D), DiskWith({<<"d", "U">>, <<"s">>}, D \cup {<<"d", "p">>}),
            DiskWith({<<"r">>, <<"j">>}, {}), DiskWith({}, D \cup {<<"d", "U">>, <<"r">>}), DiskWith({<<"d", "x">>, <<"d", "p">>}, D)}

MCAllCases == MCCases \cup {Regular}

(* What these runs begin with is what any run may begin with. *)
ASSUME Instance == /\ \A line \in ArgumentLines \cup DryRunLines \cup CaseLines \cup OutputLines : line \in [program : {"utility", "plan"}, args : Seq(MCWords)]
                   /\ \A d \in MCDisks : d \in Disks

MCInit == \/ CaseInit(ArgumentLines, {Steady}, {{}}, {Regular}, {EmptyDisk})
          \/ CaseInit(DryRunLines, DryRunControls, MCPolicies, {Regular}, {EmptyDisk})
          \/ CaseInit(CaseLines, {Steady}, {{}}, MCCases, {EmptyDisk})
          \/ CaseInit(CaseLines, CaseControls, {{}}, SimpleCases, {EmptyDisk})
          \/ CaseInit(OutputLines, {Steady}, {{}}, {Regular}, MCDisks)

MCSpec == MCInit /\ [][Next]_vars
=============================================================================
