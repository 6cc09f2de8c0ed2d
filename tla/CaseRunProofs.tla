---------------------------- MODULE CaseRunProofs ----------------------------
(***************************************************************************)
(* Proofs about a run of a case, for any command line, any dictionaries,   *)
(* any disk and any numbers of the plan.                                   *)
(***************************************************************************)
EXTENDS CaseRun, FiniteSetTheorems, NaturalsInduction, WellFoundedInduction, TLAPS

-----------------------------------------------------------------------------
(***************************************************************************)
(* Numbers.                                                                *)
(***************************************************************************)
Below == {p \in Nat \X Nat : p[1] < p[2]}

\* A set of numbers has a least one.
LEMMA LeastOf ==
  ASSUME NEW S \in SUBSET Nat, S # {}
  PROVE  \E m \in S : \A k \in S : m <= k
<1>1. IsWellFoundedOn(Below, Nat)
  BY NatLessThanWellFounded DEF OpToRel, Below
<1>2. PICK m \in S : \A k \in S : ~(<<k, m>> \in Below)
  BY <1>1, WFMin, Zenon
<1>3. \A k \in S : ~(k < m)
  BY <1>2 DEF Below
<1> QED
  BY <1>3

\* And a greatest one, if there is a bound.
LEMMA GreatestOf ==
  ASSUME NEW S \in SUBSET Nat, S # {}, NEW n \in Nat, \A k \in S : k <= n
  PROVE  \E m \in S : \A k \in S : k <= m
<1> DEFINE T == {n - k : k \in S}
<1>1. \A k \in S : n - k \in Nat
  OBVIOUS
<1>2. T \in SUBSET Nat /\ T # {}
  BY <1>1
<1>3. PICK t \in T : \A u \in T : t <= u
  <2> HIDE DEF T
  <2> QED
    BY <1>2, LeastOf
<1>4. PICK m \in S : t = n - m
  OBVIOUS
<1>5. \A k \in S : n - m <= n - k
  BY <1>3, <1>4
<1> QED
  BY <1>5

LEMMA SetInduction ==
  ASSUME NEW S, 0 \in S, \A n \in Nat : n \in S => n + 1 \in S
  PROVE  Nat \subseteq S
<1> SUFFICES ASSUME NEW k \in Nat, k \notin S PROVE FALSE
  OBVIOUS
<1> DEFINE T == Nat \ S
<1>1. T \in SUBSET Nat /\ T # {}
  OBVIOUS
<1> HIDE DEF T
<1>2. PICK x \in T : \A y \in T : x <= y
  BY <1>1, LeastOf
<1>3. x \in Nat /\ x \notin S
  BY <1>2 DEF T
<1>4. x # 0 /\ x - 1 \in Nat /\ x - 1 < x /\ (x - 1) + 1 = x
  BY <1>3
<1>5. x - 1 \notin T
  BY <1>2, <1>3, <1>4
<1> QED
  BY <1>3, <1>4, <1>5 DEF T

-----------------------------------------------------------------------------
(***************************************************************************)
(* The options.                                                            *)
(***************************************************************************)
Values == Arguments \cup {"yes", "no"}
Families == {"scalar", "linear", "shared", "inspection", "general", "flow"}

LEMMA OptionSets ==
  /\ Valued \subseteq Options
  /\ FlowSwitches \cup Inspections \subseteq Options
  /\ "-simpleConsistent" \in Options \ Valued
  /\ "-noSimpleConsistent" \notin Valued
  /\ (FlowSwitches \cup Inspections) \cap Valued = {}
  /\ "-simpleConsistent" \notin FlowSwitches \cup Inspections
  /\ OnceOnly \subseteq Valued /\ Counts \subseteq Valued /\ WallForces \subseteq Valued
  /\ "-case" \in Valued /\ "-planJson" \in Valued /\ Selector \in Valued
  /\ "-solveResidualCsv" \in Valued /\ "-solveResidualPlot" \in Valued
  /\ "-writeFinalFields" \in Valued /\ "-wallFaceLoadsCsv" \in Valued
  /\ "-solveReportJson" \in Valued /\ "-solveReportMarkdown" \in Valued
  /\ "-maxRunnerSteps" \in Counts
  /\ "-runnerDryRun" \in Inspections
BY DEF Options, Valued, FlowSwitches, Inspections, OnceOnly, Counts, WallForces, Selector, General,
       ScalarOptions, LinearOptions, FlowOptions, Positives, NonNegatives, Indices, Solvers, Relaxations, Paths

LEMMA OptionFacts ==
  ASSUME NEW o \in Options
  PROVE  /\ Writes(o) \in Options
         /\ Writes(o) # o => o = "-noSimpleConsistent" /\ Writes(o) = "-simpleConsistent"
         /\ FamilyOf(Writes(o)) = FamilyOf(o)
         /\ FamilyOf(o) \in Families
         /\ o \in Inspections => FamilyOf(o) = "inspection"
<1>1. Writes(o) \in Options /\ (Writes(o) # o => o = "-noSimpleConsistent" /\ Writes(o) = "-simpleConsistent")
  BY OptionSets DEF Writes
<1>2. FamilyOf(o) \in Families /\ (o \in Inspections => FamilyOf(o) = "inspection")
  BY DEF FamilyOf, Families, ScalarOptions, LinearOptions, Inspections, General, Selector
<1>3. FamilyOf("-noSimpleConsistent") = "flow" /\ FamilyOf("-simpleConsistent") = "flow"
  BY DEF FamilyOf, ScalarOptions, LinearOptions, Inspections, General, Selector
<1> QED
  BY <1>1, <1>2, <1>3

LEMMA CountsTake ==
  ASSUME NEW o \in Counts, NEW v, Takes(o, v)
  PROVE  v \in Whole \ {"0"}
<1>1. o \notin Positives /\ o \notin NonNegatives
  BY DEF Counts, Positives, NonNegatives
<1>2. o \notin Indices /\ o \notin {"-source", "-pRefValue"} /\ o \notin Relaxations /\ o \notin Solvers
  BY DEF Counts, Indices, Relaxations, Solvers
<1>3. /\ o \notin {"-momentumPreconditioner", "-pressurePreconditioner"} /\ o # "-momentumExecution"
      /\ o \notin {"-solveScalarDiffusion", "-wallFaceLoadsCsv"} /\ o # "-wallForcePatches"
  BY DEF Counts
<1> QED
  BY <1>1, <1>2, <1>3 DEF Takes

-----------------------------------------------------------------------------
(***************************************************************************)
(* The arguments.                                                          *)
(***************************************************************************)
ArgumentsType ==
  /\ invocation \in {"utility", "plan", "execute"}
  /\ raw \in Seq(Arguments) /\ argv \in Seq(Arguments)
  /\ at \in Nat \ {0}
  /\ settings \in [Options -> AtMostOne(Values)]
  /\ \A o \in Valued : settings[o] \subseteq Arguments
  /\ \A o \in Counts : settings[o] \subseteq Whole \ {"0"}
  /\ parse \in {"scanning", "parsing", "accepted", "refused", "usage"}
  /\ read \in Seq([option : Options, value : Values])

\* What was read is what is set.
ReadKept ==
  /\ \A o \in Options : settings[o] = LastOf(o)
  /\ \A i \in DOMAIN read : /\ settings[read[i].option] # {}
                            /\ FamilyOf(read[i].option) \in seen
                            /\ read[i].option \in OnceOnly =>
                                 \A j \in DOMAIN read : read[j].option = read[i].option => j = i
  /\ parse = "scanning" => read = <<>> /\ settings = [o \in Options |-> {}]
  /\ deferred \/ settings["-linearSolver"] \subseteq ScalarSolvers
  /\ parse = "accepted" => ~ Unclaimed /\ ~ Conflict /\ WallForcesWhole /\ ~ (ScalarSolve /\ deferred)
  /\ FlowSolve => ~ Among(Helps, raw)

\* As long as -case is no value, the first one among the arguments is the first one read.
CaseKept ==
  /\ parse = "scanning" => read = <<>>
  /\ parse \in {"parsing", "accepted"} /\ CaseIsOption =>
       FirstOf("-case") = IF \E j \in DOMAIN argv : j < at /\ argv[j] = "-case" THEN FirstCase(argv) ELSE {}
  /\ parse \in {"parsing", "accepted"} =>
       ((\E i \in DOMAIN read : read[i].option = "-case") => \E j \in DOMAIN argv : j < at /\ argv[j] = "-case")
  /\ parse \in {"parsing", "accepted"} /\ CaseIsOption =>
       ((\E j \in DOMAIN argv : j < at /\ argv[j] = "-case") => \E i \in DOMAIN read : read[i].option = "-case")
  /\ parse = "accepted" => at = Len(argv) + 1

\* Each look at the arguments has its stage.
ParseStage ==
  /\ stage = "scan" => parse \in {"scanning", "usage", "refused"} /\ selectedFrom = {}
  /\ stage = "dispatch" => parse = "parsing"
  /\ stage = "parse" => parse \in {"parsing", "usage", "refused"}
  /\ stage \notin {"scan", "dispatch", "parse"} => parse = "accepted" \/ (parse = "refused" /\ result = "failed")
  /\ parse \in {"scanning", "parsing"} => stage \in {"scan", "dispatch", "parse"}
  /\ result = "ok" => parse = "accepted" \/ ~ FlowSolve
  /\ selectedFrom \in {{}, FirstCase(argv)}
  /\ settings["-runnerDryRun"] # {} => "inspection" \in seen

ArgumentsInv == ArgumentsType /\ ReadKept /\ CaseKept /\ ParseStage

LEMMA LastAppended ==
  ASSUME NEW R, read \in Seq(R), NEW w, NEW v, read' = Append(read, [option |-> w, value |-> v])
  PROVE  /\ LastOf(w)' = {v}
         /\ \A x : x # w => LastOf(x)' = LastOf(x)
<1>1. Len(read) \in Nat /\ DOMAIN read = 1 .. Len(read)
  OBVIOUS
<1>2. /\ Len(read') = Len(read) + 1 /\ DOMAIN read' = 1 .. Len(read) + 1
      /\ \A i \in 1 .. Len(read) : read'[i] = read[i]
      /\ read'[Len(read) + 1] = [option |-> w, value |-> v]
  OBVIOUS
<1>3. LastOf(w)' = {v}
  BY <1>1, <1>2 DEF LastOf
<1>4. ASSUME NEW x, x # w
      PROVE  LastOf(x)' = LastOf(x)
  <2>1. {j \in DOMAIN read' : /\ read'[j].option = x
                              /\ \A k \in j + 1 .. Len(read') : read'[k].option # x}
        = {j \in DOMAIN read : /\ read[j].option = x
                               /\ \A k \in j + 1 .. Len(read) : read[k].option # x}
    BY <1>1, <1>2, <1>4
  <2> QED
    BY <2>1, <1>1, <1>2 DEF LastOf
<1> QED
  BY <1>3, <1>4

\* An option is read.
LEMMA ReadStep ==
  ASSUME ArgumentsType, ReadKept, NEW o \in Options, NEW v \in Values, NEW n \in {1, 2},
         Parsing, Read(o, v, n),
         o \in OnceOnly => settings[o] = {},
         o \in Valued => v \in Arguments,
         o \in Counts => v \in Whole \ {"0"}
  PROVE  ArgumentsType' /\ ReadKept' /\ (settings'["-runnerDryRun"] # {} => settings["-runnerDryRun"] # {} \/ "inspection" \in seen')
<1> DEFINE w == Writes(o)
<1>1. /\ w \in Options /\ (w # o => o = "-noSimpleConsistent" /\ w = "-simpleConsistent")
      /\ FamilyOf(w) = FamilyOf(o)
      /\ o \in Inspections => FamilyOf(o) = "inspection"
  BY OptionFacts
<1>2. /\ settings' = [settings EXCEPT ![w] = {v}]
      /\ seen' = seen \cup {FamilyOf(o)}
      /\ read' = Append(read, [option |-> w, value |-> v])
      /\ at' = at + n
      /\ UNCHANGED <<invocation, raw, argv, module, parse>>
      /\ parse = "parsing"
  BY DEF Read, Parsing
<1> HIDE DEF w
<1>3. w \in Valued \/ w \in Counts \/ w \in OnceOnly \/ w = "-case" => w = o
  BY <1>1, OptionSets
<1>4. ArgumentsType'
  <2>1. settings' \in [Options -> AtMostOne(Values)]
    BY <1>1, <1>2 DEF ArgumentsType, AtMostOne
  <2>2. read' \in Seq([option : Options, value : Values])
    BY <1>1, <1>2 DEF ArgumentsType
  <2>3. \A x \in Valued : settings'[x] \subseteq Arguments
    BY <1>1, <1>2, <1>3, OptionSets DEF ArgumentsType
  <2>4. \A x \in Counts : settings'[x] \subseteq Whole \ {"0"}
    BY <1>1, <1>2, <1>3, OptionSets DEF ArgumentsType
  <2> QED
    BY <1>2, <2>1, <2>2, <2>3, <2>4 DEF ArgumentsType
<1>5. LastOf(w)' = {v} /\ \A x : x # w => LastOf(x)' = LastOf(x)
  BY <1>2, LastAppended DEF ArgumentsType
<1>6. \A x \in Options : settings'[x] = LastOf(x)'
  BY <1>1, <1>2, <1>5 DEF ReadKept, ArgumentsType
<1>7. /\ DOMAIN read' = 1 .. Len(read) + 1 /\ DOMAIN read = 1 .. Len(read) /\ Len(read) \in Nat
      /\ \A i \in 1 .. Len(read) : read'[i] = read[i] /\ read[i].option \in Options
      /\ read'[Len(read) + 1] = [option |-> w, value |-> v]
  <2>1. read \in Seq([option : Options, value : Values])
    BY DEF ArgumentsType
  <2>2. read' = Append(read, [option |-> w, value |-> v])
    BY <1>2
  <2> DEFINE R == [option : Options, value : Values]
  <2>3. read \in Seq(R)
    BY <2>1
  <2>4. \A x \in R : x.option \in Options
    OBVIOUS
  <2> HIDE DEF R
  <2>5. \A i \in 1 .. Len(read) : read[i] \in R
    BY <2>3
  <2> QED
    BY <2>2, <2>3, <2>4, <2>5
<1>8. ASSUME NEW i \in DOMAIN read'
      PROVE  /\ settings'[read'[i].option] # {}
             /\ FamilyOf(read'[i].option) \in seen'
             /\ read'[i].option \in OnceOnly => \A j \in DOMAIN read' : read'[j].option = read'[i].option => j = i
  <2>1. settings'[w] = {v} /\ \A x \in Options : x # w => settings'[x] = settings[x]
    BY <1>1, <1>2 DEF ArgumentsType
  <2>2. \A j \in 1 .. Len(read) : w \in OnceOnly => read[j].option # w
    BY <1>3, <1>7 DEF ReadKept
  <2>3. CASE i = Len(read) + 1
    <3>1. read'[i].option = w
      BY <2>3, <1>7
    <3>2. \A j \in 1 .. Len(read) : w \in OnceOnly => read'[j].option # w
      BY <2>2, <1>7
    <3> QED
      BY <3>1, <3>2, <2>1, <2>3, <1>1, <1>2, <1>7
  <2>4. CASE i \in 1 .. Len(read)
    BY <2>1, <2>2, <2>4, <1>1, <1>2, <1>7 DEF ReadKept
  <2> QED
    BY <2>3, <2>4, <1>7
<1>9. deferred' \/ settings'["-linearSolver"] \subseteq ScalarSolvers
  <2>1. "-linearSolver" \in Options \ {"-simpleConsistent"}
    BY DEF Options, Valued, LinearOptions
  <2>2. deferred' = IF o = "-linearSolver" THEN v \notin ScalarSolvers ELSE deferred
    BY DEF Read
  <2>3. CASE o = "-linearSolver"
    BY <1>1, <1>2, <2>2, <2>3 DEF ArgumentsType
  <2>4. CASE o # "-linearSolver"
    <3>1. w # "-linearSolver"
      BY <1>1, <2>1, <2>4
    <3>2. settings'["-linearSolver"] = settings["-linearSolver"] /\ deferred' = deferred
      BY <1>2, <2>1, <2>2, <2>4, <3>1 DEF ArgumentsType
    <3> QED
      BY <3>2 DEF ReadKept
  <2> QED
    BY <2>3, <2>4
<1>10. ReadKept'
  BY <1>2, <1>6, <1>8, <1>9, Zenon DEF ReadKept, FlowSolve
<1>11. settings'["-runnerDryRun"] # {} => settings["-runnerDryRun"] # {} \/ "inspection" \in seen'
  BY <1>1, <1>2, OptionSets DEF ArgumentsType
<1> QED
  BY <1>4, <1>10, <1>11

\* The first -case that is read is the first one among the arguments.
LEMMA CaseStep ==
  ASSUME ArgumentsType, CaseKept, NEW o \in Options, NEW v \in Values, NEW n \in {1, 2},
         Parsing, Read(o, v, n), o = argv[at],
         n = 2 => at < Len(argv) /\ v = argv[at + 1], o = "-case" => n = 2
  PROVE  CaseKept'
<1> DEFINE w == Writes(o)
           Passed(m) == \E j \in DOMAIN argv : j < m /\ argv[j] = "-case"
           Had == \E i \in DOMAIN read : read[i].option = "-case"
<1>1. /\ read' = Append(read, [option |-> w, value |-> v]) /\ at' = at + n
      /\ argv' = argv /\ parse' = "parsing" /\ parse = "parsing" /\ at \in 1 .. Len(argv) /\ DOMAIN argv = 1 .. Len(argv)
  BY DEF Read, Parsing, ArgumentsType
<1>2. w = "-case" <=> o = "-case"
  BY OptionFacts
<1> HIDE DEF w
<1>3. /\ DOMAIN read = 1 .. Len(read) /\ DOMAIN read' = 1 .. Len(read) + 1 /\ Len(read) \in Nat
      /\ \A i \in 1 .. Len(read) : read'[i] = read[i]
      /\ read'[Len(read) + 1] = [option |-> w, value |-> v]
  <2>1. read \in Seq([option : Options, value : Values])
    BY DEF ArgumentsType
  <2> QED
    BY <1>1, <2>1
<1>4. CaseIsOption' => CaseIsOption /\ v # "-case"
  BY <1>3 DEF CaseIsOption
<1>5. (\E i \in DOMAIN read' : read'[i].option = "-case") <=> Had \/ o = "-case"
  BY <1>2, <1>3
<1>6. /\ Passed(at) => Passed(at + n)
      /\ o = "-case" => Passed(at + n)
      /\ Passed(at + n) /\ v # "-case" => Passed(at) \/ o = "-case"
  BY <1>1
<1>7. Had => Passed(at)
  BY <1>1 DEF CaseKept
<1>8. CaseIsOption => (Passed(at) => Had)
  BY <1>1 DEF CaseKept
<1>9. CaseIsOption => FirstOf("-case") = IF Passed(at) THEN FirstCase(argv) ELSE {}
  BY <1>1 DEF CaseKept
<1>10. ASSUME Had \/ o # "-case"
       PROVE  FirstOf("-case")' = FirstOf("-case")
  <2>1. {j \in DOMAIN read' : read'[j].option = "-case" /\ \A k \in 1 .. j - 1 : read'[k].option # "-case"}
        = {j \in DOMAIN read : read[j].option = "-case" /\ \A k \in 1 .. j - 1 : read[k].option # "-case"}
    BY <1>2, <1>3, <1>10
  <2> QED
    BY <2>1, <1>3 DEF FirstOf
<1>11. ASSUME ~ Had, o = "-case"
       PROVE  FirstOf("-case")' = {v}
  <2>1. {j \in DOMAIN read' : read'[j].option = "-case" /\ \A k \in 1 .. j - 1 : read'[k].option # "-case"}
        = {Len(read) + 1}
    BY <1>2, <1>3, <1>11
  <2> QED
    BY <2>1, <1>3 DEF FirstOf
<1>12. ASSUME ~ Passed(at), o = "-case"
       PROVE  FirstCase(argv) = {v}
  <2>1. v = argv[at + 1] /\ at < Len(argv)
    BY <1>12
  <2> DEFINE cases == {i \in DOMAIN argv : argv[i] = "-case"}
  <2>2. at \in cases /\ \A k \in cases : at <= k
    <3>1. Len(argv) \in Nat
      BY DEF ArgumentsType
    <3>2. at \in cases
      BY <1>1, <1>12
    <3>3. \A k \in DOMAIN argv : k \in Nat /\ at \in Nat /\ (~ (k < at) => at <= k)
      BY <1>1, <3>1
    <3>4. \A k \in cases : k \in DOMAIN argv /\ ~ (k < at)
      BY <1>12
    <3> QED
      BY <3>2, <3>3, <3>4
  <2>3. {j \in cases : j < Len(argv) /\ \A k \in cases : j <= k} = {at}
    BY <1>1, <2>1, <2>2
  <2> QED
    BY <2>1, <2>2, <2>3 DEF FirstCase
<1>13. CaseIsOption' => FirstOf("-case")' = IF Passed(at + n) THEN FirstCase(argv) ELSE {}
  <2> SUFFICES ASSUME CaseIsOption' PROVE FirstOf("-case")' = IF Passed(at + n) THEN FirstCase(argv) ELSE {}
    OBVIOUS
  <2> HIDE DEF Passed, Had
  <2>1. CASE Had \/ o # "-case"
    BY <1>4, <1>6, <1>7, <1>8, <1>9, <1>10, <2>1
  <2>2. CASE ~ Had /\ o = "-case"
    BY <1>4, <1>6, <1>8, <1>11, <1>12, <2>2
  <2> QED
    BY <2>1, <2>2
<1>14. CaseIsOption' => (Passed(at + n) => Had \/ o = "-case")
  BY <1>4, <1>6, <1>8
<1>15. Had \/ o = "-case" => Passed(at + n)
  BY <1>6, <1>7
<1> HIDE DEF Had
<1>16. (\E j \in DOMAIN argv' : j < at' /\ argv'[j] = "-case") <=> Passed(at + n)
  BY <1>1
<1> HIDE DEF Passed
<1>17. FirstCase(argv)' = FirstCase(argv)
  BY <1>1 DEF FirstCase
<1> QED
  BY <1>1, <1>5, <1>13, <1>14, <1>15, <1>16, <1>17 DEF CaseKept

LEMMA RefuseStep ==
  ASSUME ArgumentsType, ReadKept, Refuse
  PROVE  ArgumentsType' /\ ReadKept' /\ CaseKept'
<1>1. ArgumentsType'
  BY DEF ArgumentsType, Refuse
<1>2. \A o : LastOf(o)' = LastOf(o)
  BY DEF LastOf, Refuse
<1>3. parse' = "refused" /\ UNCHANGED <<invocation, raw, settings, seen, deferred, read>>
  BY DEF Refuse
<1>4. CaseKept'
  BY <1>3 DEF CaseKept
<1> QED
  BY <1>1, <1>2, <1>3, <1>4 DEF ReadKept, FlowSolve, Among

\* The look at all the arguments leaves what is set alone.
LEMMA ScanStep ==
  ASSUME ArgumentsInv, ScanArguments
  PROVE  ArgumentsInv'
<1>1. /\ stage = "scan" /\ result = "running" /\ parse = "scanning"
      /\ ArgumentsType /\ ReadKept /\ CaseKept /\ ParseStage
      /\ UNCHANGED selectedFrom
      /\ result' = IF parse' = "usage" THEN "ok" ELSE IF parse' = "refused" THEN "failed" ELSE result
  <2>1. /\ stage = "scan" /\ result = "running" /\ UNCHANGED selectedFrom
        /\ result' = IF parse' = "usage" THEN "ok" ELSE IF parse' = "refused" THEN "failed" ELSE result
        /\ Usage \/ ScanSolver \/ ScanOther \/ ScanEnd
    BY DEF ScanArguments, Running
  <2>2. parse \in {"scanning", "parsing"}
    BY <2>1 DEF Usage, ScanSolver, ScanOther, ScanEnd, Scanning
  <2> QED
    BY <2>1, <2>2 DEF ArgumentsInv, ParseStage
<1>2. /\ read = <<>> /\ settings = [o \in Options |-> {}] /\ selectedFrom = {}
      /\ FlowSolve => ~ Among(Helps, raw)
      /\ \A o \in Options : settings[o] = LastOf(o)
  BY <1>1 DEF ReadKept, ParseStage
<1>3. ASSUME Refuse, stage' = stage
      PROVE  ArgumentsInv'
  <2>1. ArgumentsType' /\ ReadKept' /\ CaseKept'
    BY <1>1, <1>3, RefuseStep
  <2>2. parse' = "refused" /\ UNCHANGED <<argv, settings, seen, invocation>>
    BY <1>3 DEF Refuse
  <2>3. ParseStage'
    BY <1>1, <1>2, <1>3, <2>2, OptionSets DEF ParseStage, FlowSolve
  <2> QED
    BY <2>1, <2>3 DEF ArgumentsInv
<1>4. ASSUME UNCHANGED <<raw, settings, seen, deferred, read>>,
             argv' \in Seq(Arguments), at' \in Nat \ {0},
             invocation' \in {"utility", "plan", "execute"},
             FlowSolve' => ~ Among(Helps, raw)',
             \/ parse' = "scanning" /\ stage' = stage
             \/ parse' = "usage" /\ stage' = stage /\ ~ FlowSolve'
             \/ parse' = "parsing" /\ stage' = "dispatch" /\ at' = 1
      PROVE  ArgumentsInv'
  <2>1. ArgumentsType'
    BY <1>1, <1>4 DEF ArgumentsType
  <2>2. \A o : LastOf(o)' = LastOf(o)
    BY <1>4 DEF LastOf
  <2>3. settings' = settings /\ read' = read /\ settings["-runnerDryRun"] = {}
    BY <1>2, <1>4, OptionSets
  <2>4. parse' # "accepted"
    BY <1>4
  <2>5. ReadKept'
    <3>1. \A o \in Options : settings'[o] = LastOf(o)'
      BY <1>2, <2>2, <2>3
    <3>2. read' = <<>> /\ settings' = [o \in Options |-> {}]
      BY <1>2, <2>3, Zenon
    <3>3. DOMAIN read' = {}
      BY <3>2
    <3>4. deferred' \/ settings'["-linearSolver"] \subseteq ScalarSolvers
      BY <1>1, <1>4, <2>3 DEF ReadKept
    <3> QED
      BY <1>4, <2>4, <3>1, <3>2, <3>3, <3>4 DEF ReadKept
  <2>6. ParseStage'
    BY <1>1, <1>2, <1>4, <2>3, OptionSets DEF ParseStage
  <2>7. CaseKept'
    <3>1. read' = <<>> /\ DOMAIN read' = {}
      BY <1>2, <2>3
    <3>2. FirstOf("-case")' = {}
      BY <3>1 DEF FirstOf
    <3>3. parse' \in {"parsing", "accepted"} => ~ \E j \in DOMAIN argv' : j < at'
      BY <1>4
    <3> QED
      BY <2>4, <3>1, <3>2, <3>3 DEF CaseKept
  <2> QED
    BY <2>1, <2>5, <2>6, <2>7 DEF ArgumentsInv
<1>5. CASE Usage /\ stage' = stage
  <2>1. /\ UNCHANGED <<invocation, raw, argv, at, settings, seen, deferred, read>> /\ parse' = "usage"
        /\ Among(Helps, raw)
    BY <1>5 DEF Usage
  <2>2. argv' \in Seq(Arguments) /\ at' \in Nat \ {0} /\ invocation' \in {"utility", "plan", "execute"}
    BY <2>1, <1>1 DEF ArgumentsType
  <2>3. ~ FlowSolve'
    BY <2>1, <1>2 DEF FlowSolve
  <2> QED
    BY <1>4, <1>5, <2>1, <2>2, <2>3
<1>6. CASE ScanSolver /\ stage' = stage
  <2>1. Refuse \/ (UNCHANGED <<invocation, raw, argv, settings, seen, deferred, read, parse>> /\ at' = at + 2)
    BY <1>6 DEF ScanSolver
  <2>2. CASE UNCHANGED <<invocation, raw, argv, settings, seen, deferred, read, parse>> /\ at' = at + 2
    <3>1. argv' \in Seq(Arguments) /\ at' \in Nat \ {0} /\ invocation' \in {"utility", "plan", "execute"}
      BY <2>2, <1>1 DEF ArgumentsType
    <3>2. FlowSolve' => ~ Among(Helps, raw)'
      BY <2>2, <1>2 DEF FlowSolve, Among
    <3> QED
      BY <1>1, <1>4, <1>6, <2>2, <3>1, <3>2
  <2> QED
    BY <1>3, <1>6, <2>1, <2>2
<1>7. CASE ScanOther /\ stage' = stage
  <2>1. \/ Refuse
        \/ UNCHANGED <<invocation, raw, settings, seen, deferred, read, parse>> /\ at' = at + 1 /\ argv' = Append(argv, raw[at])
    BY <1>7 DEF ScanOther
  <2>2. CASE UNCHANGED <<invocation, raw, settings, seen, deferred, read, parse>> /\ at' = at + 1 /\ argv' = Append(argv, raw[at])
    <3>1. raw[at] \in Arguments
      BY <1>7, <1>1 DEF ScanOther, Scanning, ArgumentsType
    <3>2. argv' \in Seq(Arguments) /\ at' \in Nat \ {0} /\ invocation' \in {"utility", "plan", "execute"}
      BY <2>2, <3>1, <1>1 DEF ArgumentsType
    <3>3. FlowSolve' => ~ Among(Helps, raw)'
      BY <2>2, <1>2 DEF FlowSolve, Among
    <3> QED
      BY <1>1, <1>4, <1>7, <2>2, <3>2, <3>3
  <2> QED
    BY <1>3, <1>7, <2>1, <2>2
<1>8. CASE ScanEnd /\ stage' = "dispatch"
  <2>1. /\ UNCHANGED <<raw, argv, settings, seen, deferred, read>> /\ parse' = "parsing" /\ at' = 1
        /\ ~ Among(Helps, raw)
        /\ invocation' \in {"execute", "plan"}
    BY <1>8 DEF ScanEnd
  <2>2. argv' \in Seq(Arguments) /\ at' \in Nat \ {0} /\ invocation' \in {"utility", "plan", "execute"}
    BY <2>1, <1>1 DEF ArgumentsType
  <2>3. ~ Among(Helps, raw)'
    BY <2>1 DEF Among
  <2> QED
    BY <1>4, <1>8, <2>1, <2>2, <2>3
<1> QED
  BY <1>5, <1>6, <1>7, <1>8 DEF ScanArguments

LEMMA ParseStep ==
  ASSUME ArgumentsInv, ParseArguments
  PROVE  ArgumentsInv'
<1>1. /\ stage = "parse" /\ result = "running"
      /\ ArgumentsType /\ ReadKept /\ CaseKept /\ ParseStage
      /\ UNCHANGED selectedFrom
      /\ result' = IF parse' = "usage" THEN "ok" ELSE IF parse' = "refused" THEN "failed" ELSE result
  BY DEF ParseArguments, Running, ArgumentsInv
<1>2. /\ selectedFrom \in {{}, FirstCase(argv)}
      /\ settings["-runnerDryRun"] # {} => "inspection" \in seen
      /\ settings \in [Options -> AtMostOne(Values)]
      /\ argv \in Seq(Arguments) /\ raw \in Seq(Arguments) /\ at \in Nat \ {0} /\ Len(argv) \in Nat
      /\ FlowSolve => ~ Among(Helps, raw)
  BY <1>1 DEF ParseStage, ArgumentsType, ReadKept
<1>3. ASSUME Refuse, stage' = stage \/ stage' = "plan"
      PROVE  ArgumentsInv'
  <2>1. ArgumentsType' /\ ReadKept' /\ CaseKept'
    BY <1>1, <1>3, RefuseStep
  <2>2. parse' = "refused" /\ UNCHANGED <<argv, settings, seen, invocation>>
    BY <1>3 DEF Refuse
  <2>3. ParseStage'
    BY <1>1, <1>2, <1>3, <2>2 DEF ParseStage, FlowSolve
  <2> QED
    BY <2>1, <2>3 DEF ArgumentsInv
<1>4. ASSUME NEW o \in Options, NEW v \in Values, NEW n \in {1, 2}, Parsing, Read(o, v, n), stage' = stage,
             o \in OnceOnly => settings[o] = {},
             o \in Valued => v \in Arguments,
             o \in Counts => v \in Whole \ {"0"},
             o = argv[at], n = 2 => at < Len(argv) /\ v = argv[at + 1], o = "-case" => n = 2
      PROVE  ArgumentsInv'
  <2>1. ArgumentsType' /\ ReadKept' /\ (settings'["-runnerDryRun"] # {} => settings["-runnerDryRun"] # {} \/ "inspection" \in seen')
    BY <1>1, <1>4, ReadStep
  <2>2. UNCHANGED <<argv, invocation, parse>> /\ seen \subseteq seen' /\ parse = "parsing"
    BY <1>4 DEF Read, Parsing
  <2>3. ParseStage'
    BY <1>1, <1>2, <1>4, <2>1, <2>2 DEF ParseStage, FlowSolve
  <2>4. CaseKept'
    BY <1>1, <1>4, CaseStep
  <2> QED
    BY <2>1, <2>3, <2>4 DEF ArgumentsInv
<1>5. CASE Usage /\ stage' = stage
  <2>1. /\ UNCHANGED <<invocation, raw, argv, at, settings, seen, deferred, read>> /\ parse' = "usage"
        /\ ~ FlowSolve /\ ~ FlowSolve'
    BY <1>2, <1>5 DEF Usage, FlowSolve
  <2>2. ArgumentsType'
    BY <2>1, <1>1 DEF ArgumentsType
  <2>3. \A x : LastOf(x)' = LastOf(x)
    BY <2>1 DEF LastOf
  <2>4. ReadKept'
    BY <2>1, <2>3, <1>1 DEF ReadKept
  <2>5. ParseStage'
    BY <2>1, <1>1, <1>2, <1>5 DEF ParseStage
  <2>6. CaseKept'
    BY <2>1 DEF CaseKept
  <2> QED
    BY <2>2, <2>4, <2>5, <2>6 DEF ArgumentsInv
<1>6. CASE ParseValued /\ stage' = stage
  <2>1. /\ Parsing /\ argv[at] \in Valued
        /\ \/ Refuse
           \/ /\ ~ GivenAgain(argv[at]) /\ at # Len(argv)
              /\ Takes(argv[at], argv[at + 1]) /\ Read(argv[at], argv[at + 1], 2)
    BY <1>6 DEF ParseValued
  <2>2. CASE /\ ~ GivenAgain(argv[at]) /\ at # Len(argv)
             /\ Takes(argv[at], argv[at + 1]) /\ Read(argv[at], argv[at + 1], 2)
    <3>1. at \in DOMAIN argv /\ at < Len(argv) /\ argv[at + 1] \in Arguments
      BY <1>2, <2>1, <2>2 DEF Parsing
    <3>2. argv[at] \in Options /\ argv[at + 1] \in Values
      BY <2>1, <3>1, OptionSets DEF Values
    <3>3. argv[at] \in Counts => argv[at + 1] \in Whole \ {"0"}
      BY <2>2, CountsTake
    <3>4. argv[at] \in OnceOnly => settings[argv[at]] = {}
      BY <2>2 DEF GivenAgain
    <3> QED
      BY <1>4, <1>6, <2>1, <2>2, <3>1, <3>2, <3>3, <3>4
  <2> QED
    BY <1>3, <1>6, <2>1, <2>2
<1>7. CASE ParseSwitch /\ stage' = stage
  <2> DEFINE v == IF argv[at] = "-noSimpleConsistent" THEN "no" ELSE "yes"
  <2>1. Parsing /\ argv[at] \in FlowSwitches \cup Inspections /\ Read(argv[at], v, 1)
    BY <1>7 DEF ParseSwitch
  <2>2. v \in Values
    BY DEF Values
  <2>3. /\ argv[at] \in Options /\ argv[at] \notin Valued /\ argv[at] \notin OnceOnly
        /\ argv[at] \notin Counts /\ argv[at] # "-case"
    BY <2>1, OptionSets
  <2> HIDE DEF v
  <2> QED
    BY <1>4, <1>7, <2>1, <2>2, <2>3
<1>8. CASE ParseConsistent /\ stage' = stage
  <2>1. /\ Parsing /\ argv[at] = "-simpleConsistent"
        /\ \/ Refuse
           \/ \E v \in {"yes", "no"}, n \in {1, 2} :
                Read(argv[at], v, n) /\ (n = 2 => at # Len(argv) /\ v = argv[at + 1])
    BY <1>8 DEF ParseConsistent
  <2>2. /\ argv[at] \in Options /\ argv[at] \notin Valued /\ argv[at] \notin OnceOnly
        /\ argv[at] \notin Counts /\ argv[at] # "-case"
    BY <2>1, OptionSets
  <2> QED
    BY <1>2, <1>3, <1>4, <1>8, <2>1, <2>2 DEF Values, Parsing
<1>9. CASE ParseUnknown /\ stage' = stage
  BY <1>3, <1>9 DEF ParseUnknown
<1>10. CASE ParseEnd /\ stage' = "plan"
  <2>1. \/ Refuse
        \/ /\ ~ Unclaimed /\ ~ Conflict /\ WallForcesWhole /\ ~ (ScalarSolve /\ deferred)
           /\ parse = "parsing" /\ parse' = "accepted" /\ at = Len(argv) + 1
           /\ UNCHANGED <<invocation, raw, argv, module, at, settings, seen, deferred, read>>
    BY <1>10 DEF ParseEnd
  <2>2. CASE /\ ~ Unclaimed /\ ~ Conflict /\ WallForcesWhole /\ ~ (ScalarSolve /\ deferred)
             /\ parse = "parsing" /\ parse' = "accepted" /\ at = Len(argv) + 1
             /\ UNCHANGED <<invocation, raw, argv, module, at, settings, seen, deferred, read>>
    <3>1. ArgumentsType'
      BY <2>2, <1>1 DEF ArgumentsType
    <3>2. (\A x : LastOf(x)' = LastOf(x)) /\ FirstOf("-case")' = FirstOf("-case")
      BY <2>2 DEF LastOf, FirstOf
    <3>3. ~ Unclaimed' /\ ~ Conflict' /\ WallForcesWhole' /\ ~ (ScalarSolve /\ deferred)'
      BY <2>2 DEF Unclaimed, Conflict, WallForcesWhole, ScalarSolve, FlowSolve
    <3>4. FlowSolve' => ~ Among(Helps, raw)'
      BY <2>2, <1>2 DEF FlowSolve, Among
    <3>5. ReadKept'
      BY <2>2, <3>2, <3>3, <3>4, <1>1 DEF ReadKept
    <3>6. ParseStage'
      BY <2>2, <1>1, <1>2, <1>10 DEF ParseStage
    <3>7. CaseKept'
      BY <2>2, <3>2, <1>1 DEF CaseKept, CaseIsOption, FirstCase
    <3> QED
      BY <3>1, <3>5, <3>6, <3>7 DEF ArgumentsInv
  <2> QED
    BY <1>3, <1>10, <2>1, <2>2
<1> QED
  BY <1>5, <1>6, <1>7, <1>8, <1>9, <1>10 DEF ParseArguments

-----------------------------------------------------------------------------
(***************************************************************************)
(* The order of the outputs.                                               *)
(***************************************************************************)
OutputNames == {"loads", "csv", "plot", "U", "p", "json", "markdown"}

LEMMA OutputFacts ==
  /\ DOMAIN Outputs = 1 .. 7 /\ Len(Outputs) = 7
  /\ {Outputs[i] : i \in DOMAIN Outputs} = OutputNames
  /\ \A i \in 1 .. 7 : Outputs[i] \in OutputNames /\ Position(Outputs[i]) = i
  /\ \A o \in OutputNames : Position(o) \in 1 .. 7 /\ Outputs[Position(o)] = o
  /\ Outputs[1] = "loads" /\ Outputs[2] = "csv" /\ Outputs[3] = "plot" /\ Outputs[4] = "U" /\ Outputs[5] = "p"
<1>1. /\ DOMAIN Outputs = 1 .. 7 /\ Len(Outputs) = 7
      /\ Outputs[1] = "loads" /\ Outputs[2] = "csv" /\ Outputs[3] = "plot" /\ Outputs[4] = "U" /\ Outputs[5] = "p"
      /\ Outputs[6] = "json" /\ Outputs[7] = "markdown"
  BY DEF Outputs
<1>2. \A i \in 1 .. 7 : Outputs[i] \in OutputNames
  BY <1>1 DEF OutputNames
<1>3. \A o \in OutputNames : \E i \in 1 .. 7 : Outputs[i] = o
  BY <1>1 DEF OutputNames
<1>4. \A i, j \in 1 .. 7 : Outputs[i] = Outputs[j] => i = j
  BY <1>1
<1>5. \A o \in OutputNames : Position(o) \in 1 .. 7 /\ Outputs[Position(o)] = o
  BY <1>1, <1>3 DEF Position
<1>6. \A i \in 1 .. 7 : Position(Outputs[i]) = i
  BY <1>2, <1>4, <1>5
<1> QED
  BY <1>1, <1>2, <1>3, <1>5, <1>6

\* The next output is the first one asked for of those left.
LEMMA NextOutputFacts ==
  ASSUME NEW n \in 0 .. 7
  PROVE  \/ /\ NextOutput(n) = "planJson"
            /\ \A i \in 1 .. 7 : n < i => Target(Outputs[i]) = {}
         \/ \E k \in 1 .. 7 : /\ n < k /\ NextOutput(n) = Outputs[k] /\ Target(Outputs[k]) # {}
                             /\ \A i \in 1 .. 7 : n < i /\ i < k => Target(Outputs[i]) = {}
<1> DEFINE left == {i \in n + 1 .. Len(Outputs) : Target(Outputs[i]) # {}}
<1>1. Len(Outputs) = 7
  BY OutputFacts
<1>2. NextOutput(n) = IF left = {} THEN "planJson" ELSE Outputs[CHOOSE i \in left : \A j \in left : i <= j]
  BY DEF NextOutput
<1>3. left \in SUBSET Nat /\ \A i \in 1 .. 7 : i \in left <=> n < i /\ Target(Outputs[i]) # {}
  BY <1>1
<1>4. \A i \in left : i \in 1 .. 7
  BY <1>1
<1> HIDE DEF left
<1>5. CASE left = {}
  BY <1>2, <1>3, <1>5
<1>6. CASE left # {}
  <2> DEFINE k == CHOOSE i \in left : \A j \in left : i <= j
  <2>1. k \in left /\ \A j \in left : k <= j
    BY <1>3, <1>6, LeastOf
  <2>2. NextOutput(n) = Outputs[k]
    BY <1>2, <1>6
  <2> HIDE DEF k
  <2>3. k \in 1 .. 7 /\ n < k /\ Target(Outputs[k]) # {}
    BY <1>3, <1>4, <2>1
  <2>4. \A i \in 1 .. 7 : n < i /\ i < k => Target(Outputs[i]) = {}
    BY <1>3, <2>1, <2>3
  <2> QED
    BY <2>2, <2>3, <2>4
<1> QED
  BY <1>5, <1>6

-----------------------------------------------------------------------------
(***************************************************************************)
(* The stages.  Once its arguments are read, a run goes on with them.      *)
(***************************************************************************)
ArgumentStages == {"scan", "dispatch", "parse"}
OtherStages == {"plan", "dryRunAsked", "dryRun", "scalar", "resolve", "destination", "solve", "planJson"}
               \cup OutputNames

LEMMA StageSets == OtherStages \cap ArgumentStages = {}
BY DEF OtherStages, ArgumentStages, OutputNames

\* What a step does that is none of the arguments.
LaterStep == /\ UNCHANGED <<argumentVars, selectedFrom>>
             /\ \/ UNCHANGED <<stage, result>>
                \/ /\ result = "running"
                   /\ result' \in {"running", "failed", "ok"}
                   /\ \/ UNCHANGED stage
                      \/ stage \notin ArgumentStages /\ stage' \in OtherStages
                   /\ result' = "ok" => stage \notin ArgumentStages

LEMMA LaterSteps ==
  ASSUME Next, ~ ScanArguments, ~ ParseArguments, ~ Dispatch
  PROVE  LaterStep
<1>1. \A n \in 0 .. 7 : NextOutput(n) \in OtherStages
  BY NextOutputFacts, OutputFacts DEF OtherStages
<1>2. \A o \in OutputNames : Position(o) \in 1 .. 7
  BY OutputFacts
<1>3. ArgumentStages \cap OutputNames = {}
  BY DEF ArgumentStages, OutputNames
<1>4. CASE Plan
  BY <1>4 DEF Plan, Running, Either, Goes, Fails, LaterStep, OtherStages, ArgumentStages
<1>5. CASE AskDryRun
  BY <1>5 DEF AskDryRun, Running, Goes, LaterStep, OtherStages, ArgumentStages
<1>6. CASE DryRun
  BY <1>6 DEF DryRun, Running, LaterStep, OtherStages, ArgumentStages
<1>7. CASE SolveScalar
  BY <1>7 DEF SolveScalar, Running, Either, Goes, Fails, LaterStep, OtherStages, ArgumentStages
<1>8. CASE Resolve
  BY <1>8 DEF Resolve, Running, Either, Goes, Fails, LaterStep, OtherStages, ArgumentStages
<1>9. CASE CheckDestination
  BY <1>9 DEF CheckDestination, Running, Either, Goes, Fails, LaterStep, OtherStages, ArgumentStages
<1>10. CASE Solve
  BY <1>10, <1>1 DEF Solve, Running, Goes, LaterStep, ArgumentStages
<1>11. ASSUME NEW o \in OutputNames, OpenOutput(o)
       PROVE  LaterStep
  BY <1>11 DEF OpenOutput, AtOutput, Running, Fails, LaterStep
<1>12. ASSUME NEW o \in OutputNames, CloseOutput(o)
       PROVE  LaterStep
  <2>1. Position(o) \in 0 .. 7 /\ o \notin ArgumentStages
    BY <1>2, <1>3
  <2> QED
    BY <1>12, <1>1, <2>1 DEF CloseOutput, Running, Goes, LaterStep
<1>13. CASE OpenPlot \/ LosePlot
  <2>1. Position("plot") \in 0 .. 7
    BY <1>2 DEF OutputNames
  <2> QED
    BY <1>13, <1>1, <2>1 DEF OpenPlot, LosePlot, AtOutput, Running, Goes, LaterStep, ArgumentStages
<1>14. CASE OpenPlan
  BY <1>14 DEF OpenPlan, Running, Fails, LaterStep
<1>15. CASE ClosePlan
  BY <1>15 DEF ClosePlan, Running, LaterStep, ArgumentStages
<1>16. CASE Interrupt
  BY <1>16 DEF Interrupt, LaterStep
<1>17. CASE Ended
  BY <1>17 DEF Ended, vars, caseVars, LaterStep
<1> QED
  BY <1>4, <1>5, <1>6, <1>7, <1>8, <1>9, <1>10, <1>11, <1>12, <1>13, <1>14, <1>15, <1>16, <1>17, OutputFacts DEF Next

LEMMA ArgumentsFrame ==
  ASSUME ArgumentsType, ReadKept, CaseKept, UNCHANGED argumentVars
  PROVE  ArgumentsType' /\ ReadKept' /\ CaseKept'
<1>1. UNCHANGED <<invocation, raw, argv, module, at, settings, seen, deferred, read, parse>>
  BY DEF argumentVars
<1>2. (\A x : LastOf(x)' = LastOf(x)) /\ FirstOf("-case")' = FirstOf("-case")
  BY <1>1 DEF LastOf, FirstOf
<1>3. /\ Unclaimed' = Unclaimed /\ Conflict' = Conflict /\ WallForcesWhole' = WallForcesWhole
      /\ ScalarSolve' = ScalarSolve
  BY <1>1 DEF Unclaimed, Conflict, WallForcesWhole, ScalarSolve, FlowSolve
<1>4. FlowSolve' = FlowSolve /\ Among(Helps, raw)' = Among(Helps, raw)
  BY <1>1 DEF FlowSolve, Among
<1>5. ArgumentsType'
  BY <1>1 DEF ArgumentsType
<1>6. CaseKept'
  BY <1>1, <1>2 DEF CaseKept, CaseIsOption, FirstCase
<1> QED
  BY <1>1, <1>2, <1>3, <1>4, <1>5, <1>6 DEF ReadKept

LEMMA ArgumentsStart ==
  ASSUME Init
  PROVE  ArgumentsInv
<1>1. /\ raw \in Seq(Arguments) /\ invocation \in {"utility", "plan"}
      /\ argv = IF invocation = "utility" THEN raw ELSE <<>>
      /\ at = 1 /\ settings = [o \in Options |-> {}] /\ read = <<>>
      /\ parse = IF invocation = "utility" THEN "parsing" ELSE "scanning"
      /\ stage = IF invocation = "utility" THEN "parse" ELSE "scan"
      /\ selectedFrom = {} /\ result = "running"
  BY DEF Init, CaseInit, ArgumentsInit, CommandLines
<1>2. /\ settings["-linearSolver"] = {} /\ settings["-runnerDryRun"] = {}
      /\ \A o \in Options : settings[o] = {}
  <2>1. "-linearSolver" \in Options
    BY DEF Options, Valued, LinearOptions
  <2> QED
    BY <1>1, <2>1, OptionSets
<1>3. ArgumentsType
  <2>1. argv \in Seq(Arguments)
    BY <1>1
  <2>2. \A o \in Options : {} \in AtMostOne(Values)
    BY DEF AtMostOne
  <2> QED
    BY <1>1, <1>2, <2>1, <2>2, OptionSets DEF ArgumentsType
<1>4. ReadKept
  <2>1. DOMAIN read = {}
    BY <1>1
  <2>2. \A o \in Options : settings[o] = LastOf(o)
    BY <1>2, <2>1 DEF LastOf
  <2> QED
    BY <1>1, <1>2, <2>1, <2>2 DEF ReadKept, FlowSolve
<1>5. ParseStage
  BY <1>1, <1>2 DEF ParseStage
<1>6. CaseKept
  <2>1. DOMAIN read = {} /\ ~ \E j \in DOMAIN argv : j < at
    BY <1>1
  <2>2. FirstOf("-case") = {}
    BY <2>1 DEF FirstOf
  <2> QED
    BY <1>1, <2>1, <2>2 DEF CaseKept
<1> QED
  BY <1>3, <1>4, <1>5, <1>6 DEF ArgumentsInv

LEMMA ArgumentsNext ==
  ASSUME ArgumentsInv, [Next]_vars
  PROVE  ArgumentsInv'
<1>1. ArgumentsType /\ ReadKept /\ CaseKept /\ ParseStage
  BY DEF ArgumentsInv
<1>2. CASE ScanArguments
  BY <1>2, ScanStep
<1>3. CASE ParseArguments
  BY <1>3, ParseStep
<1>4. CASE Dispatch
  <2>1. /\ stage = "dispatch" /\ result = "running" /\ UNCHANGED argumentVars
        /\ selectedFrom' \in {{}, FirstCase(argv)}
        /\ \/ stage' = "parse" /\ result' = result
           \/ stage' = stage /\ result' = "failed"
    BY <1>4 DEF Dispatch, Running, Either, Goes, Fails
  <2>2. ArgumentsType' /\ ReadKept' /\ CaseKept'
    BY <1>1, <2>1, ArgumentsFrame
  <2>3. ParseStage'
    BY <1>1, <2>1 DEF ParseStage, argumentVars, FlowSolve
  <2> QED
    BY <2>2, <2>3 DEF ArgumentsInv
<1>5. CASE LaterStep
  <2>1. UNCHANGED argumentVars /\ UNCHANGED selectedFrom
    BY <1>5 DEF LaterStep
  <2>2. ArgumentsType' /\ ReadKept' /\ CaseKept'
    BY <1>1, <2>1, ArgumentsFrame
  <2>3. UNCHANGED <<argv, settings, seen, parse, invocation>>
    BY <2>1 DEF argumentVars
  <2>4. ParseStage'
    BY <1>1, <1>5, <2>1, <2>3, StageSets DEF ParseStage, LaterStep, ArgumentStages, FlowSolve
  <2> QED
    BY <2>2, <2>4 DEF ArgumentsInv
<1>6. CASE UNCHANGED vars
  BY <1>5, <1>6 DEF vars, caseVars, LaterStep
<1> QED
  BY <1>2, <1>3, <1>4, <1>5, <1>6, LaterSteps

\* What was read of the arguments is what is set, and each pass over them has its stage.
THEOREM ArgumentsInvariance == Spec => []ArgumentsInv
<1>1. Init => ArgumentsInv
  BY ArgumentsStart
<1>2. ArgumentsInv /\ [Next]_vars => ArgumentsInv'
  BY ArgumentsNext
<1> QED
  BY <1>1, <1>2, PTL DEF Spec

\* As long as -case is no value, the look at the arguments takes the first case the parser takes.
LEMMA SameCase ==
  ASSUME ArgumentsInv, parse = "accepted", CaseIsOption
  PROVE  selectedFrom \subseteq Or(FirstOf("-case"), {"."})
<1>1. /\ argv \in Seq(Arguments) /\ at = Len(argv) + 1
      /\ selectedFrom \in {{}, FirstCase(argv)}
      /\ FirstOf("-case") = IF \E j \in DOMAIN argv : j < at /\ argv[j] = "-case" THEN FirstCase(argv) ELSE {}
  BY DEF ArgumentsInv, ArgumentsType, CaseKept, ParseStage
<1>2. \A j \in DOMAIN argv : j < at
  BY <1>1
<1>3. CASE \E j \in DOMAIN argv : argv[j] = "-case"
  BY <1>1, <1>2, <1>3 DEF Or
<1>4. CASE ~ \E j \in DOMAIN argv : argv[j] = "-case"
  <2>1. {j \in DOMAIN argv : argv[j] = "-case"} = {}
    BY <1>4
  <2>2. FirstCase(argv) = {"."} /\ FirstOf("-case") = {}
    BY <1>1, <1>4, <2>1 DEF FirstCase
  <2> QED
    BY <1>1, <2>2 DEF Or
<1> QED
  BY <1>3, <1>4

\* An accepted command line has lost no argument on its way through the passes.
THEOREM ArgumentsAreKept == Spec => []ArgumentsKept
<1>1. ASSUME ArgumentsInv
      PROVE  ArgumentsKept
  <2> SUFFICES ASSUME parse = "accepted"
               PROVE  /\ \A i \in DOMAIN read : /\ settings[read[i].option] = LastOf(read[i].option)
                                                /\ Solves(FamilyOf(read[i].option))
                                                /\ read[i].option \in OnceOnly =>
                                                     \A j \in DOMAIN read : read[j].option = read[i].option => j = i
                      /\ {o \in WallForces : settings[o] # {}} \in {{}, WallForces}
                      /\ ScalarSolve => settings["-linearSolver"] \subseteq ScalarSolvers
                      /\ RunCase = Or(LastOf("-case"), {"."})
                      /\ CaseIsOption => selectedFrom \subseteq Or(FirstOf("-case"), {"."})
    BY DEF ArgumentsKept
  <2>1. /\ read \in Seq([option : Options, value : Values])
        /\ \A o \in Options : settings[o] = LastOf(o)
        /\ ~ Unclaimed /\ ~ Conflict /\ WallForcesWhole
    BY <1>1 DEF ArgumentsInv, ArgumentsType, ReadKept
  <2>2. ASSUME NEW i \in DOMAIN read
        PROVE  /\ settings[read[i].option] = LastOf(read[i].option)
               /\ Solves(FamilyOf(read[i].option))
               /\ read[i].option \in OnceOnly =>
                    \A j \in DOMAIN read : read[j].option = read[i].option => j = i
    <3> DEFINE R == [option : Options, value : Values]
    <3>0. read \in Seq(R) /\ \A x \in R : x.option \in Options
      BY <2>1
    <3> HIDE DEF R
    <3>5. read[i] \in R
      BY <3>0
    <3>1. read[i].option \in Options
      BY <3>0, <3>5
    <3>2. FamilyOf(read[i].option) \in Families /\ FamilyOf(read[i].option) \in seen
      BY <1>1, <3>1, OptionFacts DEF ArgumentsInv, ReadKept
    <3>3. \A f \in Families \cap seen : Solves(f)
      BY <2>1 DEF Families, Solves, Unclaimed, Conflict
    <3> QED
      BY <1>1, <2>1, <3>1, <3>2, <3>3 DEF ArgumentsInv, ReadKept
  <2>3. {o \in WallForces : settings[o] # {}} \in {{}, WallForces}
    BY <2>1 DEF WallForcesWhole
  <2>4. CaseIsOption => selectedFrom \subseteq Or(FirstOf("-case"), {"."})
    BY <1>1, SameCase
  <2>5. ScalarSolve => settings["-linearSolver"] \subseteq ScalarSolvers
    BY <1>1 DEF ArgumentsInv, ReadKept
  <2>6. RunCase = Or(LastOf("-case"), {"."})
    BY <2>1, OptionSets DEF RunCase
  <2> QED
    BY <2>2, <2>3, <2>4, <2>5, <2>6
<1> QED
  BY <1>1, ArgumentsInvariance, PTL
-----------------------------------------------------------------------------
(***************************************************************************)
(* Quotients.                                                              *)
(***************************************************************************)
LEMMA Quotient ==
  ASSUME NEW a \in Int, NEW b \in Nat \ {0}
  PROVE  a \div b \in Int /\ b * (a \div b) <= a /\ a < b * (a \div b) + b
OBVIOUS

LEMMA QuotientIs ==
  ASSUME NEW a \in Int, NEW b \in Nat \ {0}, NEW q \in Int, b * q <= a, a < b * q + b
  PROVE  a \div b = q
OBVIOUS

LEMMA NoRest ==
  ASSUME NEW a \in Int, NEW b \in Nat \ {0}
  PROVE  a % b = 0 <=> a = b * (a \div b)
<1>1. a % b = a - b * (a \div b)
  OBVIOUS
<1>2. b * (a \div b) \in Int
  BY Quotient
<1> QED
  BY <1>1, <1>2

\* The numbers up to n that have a property, one number more.
LEMMA CountOneMore ==
  ASSUME NEW P, NEW n \in Nat, IsFiniteSet({k \in 1 .. n : k \in P})
  PROVE  /\ IsFiniteSet({k \in 1 .. n + 1 : k \in P})
         /\ Cardinality({k \in 1 .. n : k \in P}) \in Nat
         /\ Cardinality({k \in 1 .. n + 1 : k \in P})
              = Cardinality({k \in 1 .. n : k \in P}) + IF n + 1 \in P THEN 1 ELSE 0
<1> DEFINE A == {k \in 1 .. n : k \in P}
           B == {k \in 1 .. n + 1 : k \in P}
<1>1. Cardinality(A) \in Nat
  BY FS_CardinalityType
<1>2. CASE n + 1 \in P
  <2>1. B = A \cup {n + 1} /\ n + 1 \notin A
    BY <1>2
  <2> HIDE DEF A, B
  <2>2. IsFiniteSet(A)
    BY DEF A
  <2>3. IsFiniteSet(B) /\ Cardinality(B) = Cardinality(A) + 1
    BY <2>1, <2>2, FS_AddElement
  <2> QED
    BY <1>1, <1>2, <2>3 DEF A, B
<1>3. CASE n + 1 \notin P
  <2>1. B = A
    BY <1>3
  <2> QED
    BY <1>1, <1>3, <2>1
<1> QED
  BY <1>2, <1>3

\* What counts up by one at the numbers with a property is how many there are.
LEMMA CountBy ==
  ASSUME NEW P, NEW F, DOMAIN F = Nat, F[0] = 0,
         \A n \in Nat : F[n] \in Int /\ F[n + 1] = F[n] + IF n + 1 \in P THEN 1 ELSE 0
  PROVE  \A n \in Nat : /\ IsFiniteSet({k \in 1 .. n : k \in P})
                        /\ Cardinality({k \in 1 .. n : k \in P}) = F[n]
<1> DEFINE A(n) == {k \in 1 .. n : k \in P}
           S == {n \in Nat : IsFiniteSet(A(n)) /\ Cardinality(A(n)) = F[n]}
<1>1. 0 \in S
  <2>1. A(0) = {}
    OBVIOUS
  <2> QED
    BY <2>1, FS_EmptySet
<1>2. ASSUME NEW n \in Nat, n \in S
      PROVE  n + 1 \in S
  <2>1. /\ IsFiniteSet(A(n + 1))
        /\ Cardinality(A(n + 1)) = Cardinality(A(n)) + IF n + 1 \in P THEN 1 ELSE 0
    BY <1>2, CountOneMore
  <2>2. Cardinality(A(n)) = F[n] /\ F[n + 1] = F[n] + IF n + 1 \in P THEN 1 ELSE 0
    BY <1>2
  <2> HIDE DEF A
  <2> QED
    BY <2>1, <2>2
<1> HIDE DEF S
<1>3. Nat \subseteq S
  BY <1>1, <1>2, SetInduction
<1> QED
  BY <1>3 DEF S

LEMMA CountMultiples ==
  ASSUME NEW m \in Nat \ {0}, NEW n \in Nat
  PROVE  Cardinality({k \in 1 .. n : k % m = 0}) = n \div m
<1> DEFINE P == {k \in Nat : k % m = 0}
           F == [k \in Nat |-> k \div m]
<1>1. F[0] = 0
  BY QuotientIs
<1>2. ASSUME NEW k \in Nat
      PROVE  F[k] \in Int /\ F[k + 1] = F[k] + IF k + 1 \in P THEN 1 ELSE 0
  <2> DEFINE q == k \div m
             r == (k + 1) \div m
  <2>1. q \in Int /\ m * q <= k /\ k < m * q + m
    BY Quotient
  <2>2. r \in Int /\ m * r <= k + 1 /\ k + 1 < m * r + m
    BY Quotient
  <2>3. k + 1 \in P <=> k + 1 = m * r
    BY NoRest
  <2>4. F[k] = q /\ F[k + 1] = r
    OBVIOUS
  <2> HIDE DEF q, r, P, F
  <2>5. m * q \in Int /\ m * r \in Int /\ m * (q + 1) = m * q + m /\ m * (r - 1) = m * r - m
    BY <2>1, <2>2
  <2>6. CASE k + 1 = m * q + m
    <3>1. r = q + 1
      BY <2>1, <2>5, <2>6, QuotientIs DEF r
    <3> QED
      BY <2>1, <2>3, <2>4, <2>5, <2>6, <3>1
  <2>7. CASE k + 1 # m * q + m
    <3>1. k + 1 < m * q + m /\ m * q <= k + 1
      BY <2>1, <2>5, <2>7
    <3>2. r = q
      BY <2>1, <3>1, QuotientIs DEF r
    <3>3. k + 1 # m * r
      BY <2>1, <2>5, <3>2
    <3> QED
      BY <2>1, <2>3, <2>4, <3>2, <3>3
  <2> QED
    BY <2>6, <2>7
<1>3. {k \in 1 .. n : k % m = 0} = {k \in 1 .. n : k \in P}
  OBVIOUS
<1>4. DOMAIN F = Nat /\ F[n] = n \div m
  OBVIOUS
<1> HIDE DEF P, F
<1>5. \A j \in Nat : F[j] \in Int /\ F[j + 1] = F[j] + IF j + 1 \in P THEN 1 ELSE 0
  BY <1>2
<1>6. \A j \in Nat : /\ IsFiniteSet({k \in 1 .. j : k \in P})
                    /\ Cardinality({k \in 1 .. j : k \in P}) = F[j]
  BY <1>1, <1>4, <1>5, CountBy, Zenon
<1> QED
  BY <1>3, <1>4, <1>6

\* In steps no longer than the interval no multiple of it is jumped over.
LEMMA CountCrossings ==
  ASSUME NEW d \in Nat \ {0}, NEW i \in Nat \ {0}, d <= i, NEW n \in Nat
  PROVE  Cardinality({k \in 1 .. n : (k * d) \div i > ((k - 1) * d) \div i /\ (k * d) \div i >= 1})
           = (n * d) \div i
<1> DEFINE F == [k \in Nat |-> (k * d) \div i]
           P == {k \in Nat \ {0} : (k * d) \div i > ((k - 1) * d) \div i /\ (k * d) \div i >= 1}
<1>1. F[0] = 0
  BY QuotientIs
<1>2. ASSUME NEW k \in Nat
      PROVE  F[k] \in Int /\ F[k + 1] = F[k] + IF k + 1 \in P THEN 1 ELSE 0
  <2> DEFINE a == k * d
             q == a \div i
             b == (k + 1) * d
             r == b \div i
  <2>1. a \in Int /\ 0 <= a /\ b = a + d /\ b \in Int
    OBVIOUS
  <2>2. F[k] = q /\ F[k + 1] = r
    OBVIOUS
  <2>3. k + 1 \in P <=> r > q /\ r >= 1
    <3>1. (k + 1) - 1 = k
      OBVIOUS
    <3> QED
      BY <3>1
  <2> HIDE DEF a, b, P, F
  <2>4. q \in Int /\ i * q <= a /\ a < i * q + i
    BY <2>1, Quotient
  <2>5. r \in Int /\ i * r <= b /\ b < i * r + i
    BY <2>1, Quotient
  <2>6. i * q \in Int /\ i * (q + 1) = i * q + i /\ i * r \in Int
    BY <2>4, <2>5
  <2>7. q >= 0
    <3> SUFFICES ASSUME q <= -1 PROVE FALSE
      BY <2>4
    <3>1. i * q <= -i
      BY <2>4
    <3> QED
      BY <2>1, <2>4, <2>6, <3>1
  <2> HIDE DEF q, r
  <2>8. CASE b < i * q + i
    <3>1. r = q
      BY <2>1, <2>4, <2>6, <2>8, QuotientIs DEF r
    <3> QED
      BY <2>2, <2>3, <2>4, <3>1
  <2>9. CASE ~ (b < i * q + i)
    <3>1. i * (q + 1) <= b /\ b < i * (q + 1) + i
      BY <2>1, <2>4, <2>6, <2>9
    <3>2. r = q + 1
      BY <2>1, <2>4, <3>1, QuotientIs DEF r
    <3> QED
      BY <2>2, <2>3, <2>4, <2>7, <3>2
  <2> QED
    BY <2>8, <2>9
<1>3. {k \in 1 .. n : (k * d) \div i > ((k - 1) * d) \div i /\ (k * d) \div i >= 1} = {k \in 1 .. n : k \in P}
  OBVIOUS
<1>4. DOMAIN F = Nat /\ F[n] = (n * d) \div i
  OBVIOUS
<1> HIDE DEF P, F
<1>5. \A j \in Nat : F[j] \in Int /\ F[j + 1] = F[j] + IF j + 1 \in P THEN 1 ELSE 0
  BY <1>2
<1>6. \A j \in Nat : /\ IsFiniteSet({k \in 1 .. j : k \in P})
                    /\ Cardinality({k \in 1 .. j : k \in P}) = F[j]
  BY <1>1, <1>4, <1>5, CountBy, Zenon
<1> QED
  BY <1>3, <1>4, <1>6
-----------------------------------------------------------------------------
(***************************************************************************)
(* The plan and its dry run.                                               *)
(***************************************************************************)
PlanMade(c, p) == [steps   |-> EstimatedSteps(c),
                   writes  |-> EstimatedWrites(c),
                   stages  |-> [i \in DOMAIN Stages |-> BackendOf(p, Stages[i])],
                   usesCpu |-> UsesCpu(p),
                   usesGpu |-> UsesGpu(p)]

DueUpTo(n) == {k \in 1 .. n : WriteDue(control, k)}
Event == [kind : {"start", "stage", "write"}, step : Nat, target : {"none"} \cup Choices]

\* What the dry run has expanded is the first steps, each with its stages and its write.
Expanded ==
  /\ events \in Seq(Event)
  /\ IsFiniteSet(DueUpTo(step - 1))
  /\ Len(events) = (step - 1) * (Len(Stages) + 1) + Cardinality(DueUpTo(step - 1))
  /\ IsFiniteSet(Written) /\ Cardinality(Written) = Cardinality(DueUpTo(step - 1))
  /\ \A i \in DOMAIN events : events[i].kind = "stage" => events[i].target \in Named(Policy(policy))

RunPlanInv ==
  /\ control \in Controls /\ policy \in Policies
  /\ plan \in {{}, {PlanMade(control, Policy(policy))}}
  /\ most \in Nat /\ step \in Nat \ {0}
  /\ preview \in {"none", "counting", "expanding", "done", "refused"}
  /\ Expanded
  /\ preview \in {"none", "counting"} => step = 1 /\ events = <<>>
  /\ preview \in {"counting", "expanding", "done"} => plan # {}
  /\ preview = "expanding" => step <= PreviewSteps + 1
  /\ preview = "done" => step = PreviewSteps + 1
  /\ stage \in ArgumentStages \cup {"plan", "dryRunAsked"} => preview = "none"
  /\ stage \in {"dryRunAsked", "resolve"} => plan # {}

LEMMA PolicyFacts ==
  ASSUME policy \in Policies
  PROVE  /\ Policy(policy).default \in Choices
         /\ Policy(policy).entries \in Seq([stage : STRING, choice : Choices])
<1>1. policy = {} \/ \E p \in [default : Choices, entries : Seq([stage : STRING, choice : Choices])] : policy = {p}
  BY DEF Policies, AtMostOne
<1>2. CASE policy = {}
  <2>1. Policy(policy) = CpuOnly
    BY <1>2 DEF Policy
  <2> QED
    BY <2>1 DEF CpuOnly, Choices
<1>3. ASSUME NEW p \in [default : Choices, entries : Seq([stage : STRING, choice : Choices])], policy = {p}
      PROVE  Policy(policy) = p
  BY <1>3 DEF Policy, The
<1> QED
  BY <1>1, <1>2, <1>3

\* A backend that a stage gets is named in the policy.
LEMMA BackendNamed ==
  ASSUME NEW p, p.entries \in Seq([stage : STRING, choice : Choices]), p.default \in Choices, NEW s
  PROVE  BackendOf(p, s) \in Named(p) /\ BackendOf(p, s) \in Choices
<1>1. EntriesFor(p, s) \in SUBSET Nat /\ \A i \in EntriesFor(p, s) : i \in DOMAIN p.entries /\ i <= Len(p.entries)
  BY DEF EntriesFor
<1>2. CASE EntriesFor(p, s) = {}
  BY <1>2 DEF BackendOf, Named
<1>3. CASE EntriesFor(p, s) # {}
  <2> DEFINE i == CHOOSE m \in EntriesFor(p, s) : \A j \in EntriesFor(p, s) : j <= m
  <2>1. Len(p.entries) \in Nat
    OBVIOUS
  <2>2. i \in EntriesFor(p, s)
    BY <1>1, <1>3, <2>1, GreatestOf
  <2>3. BackendOf(p, s) = p.entries[i].choice
    BY <1>3 DEF BackendOf
  <2> HIDE DEF i
  <2> DEFINE E == [stage : STRING, choice : Choices]
  <2>4. p.entries \in Seq(E) /\ \A e \in E : e.choice \in Choices
    OBVIOUS
  <2> HIDE DEF E
  <2>5. p.entries[i].choice \in Choices
    BY <1>1, <2>2, <2>4
  <2> QED
    BY <1>1, <2>2, <2>3, <2>5 DEF Named
<1> QED
  BY <1>2, <1>3

\* The steps of the plan reach the end, and one fewer would not.
LEMMA StepsFacts ==
  ASSUME control \in Controls
  PROVE  /\ EstimatedSteps(control) \in AtMostOne(Nat)
         /\ \A n \in EstimatedSteps(control) :
              /\ Timed(control) /\ Duration(control) \in Nat
              /\ \E d \in Nat \ {0} : /\ control.deltaT = {d}
                                      /\ n \in Nat /\ n * d \in Nat
                                      /\ Duration(control) <= n * d /\ n * d < Duration(control) + d
                                      /\ Duration(control) % d = 0 => n * d = Duration(control)
<1>1. /\ control.deltaT \in AtMostOne(Int) /\ control.startTime \in AtMostOne(Int) /\ control.endTime \in AtMostOne(Int)
  BY DEF Controls
<1>2. ASSUME Timed(control)
      PROVE  Duration(control) \in Nat
  <2>1. control.startTime # {} /\ control.endTime # {} /\ The(control.startTime) <= The(control.endTime)
    BY <1>2 DEF Timed, Given, EndTime
  <2>2. The(control.startTime) \in Int /\ The(control.endTime) \in Int
    BY <1>1, <2>1 DEF The, AtMostOne
  <2> QED
    BY <2>1, <2>2 DEF Duration
<1>3. ASSUME NEW d \in Nat \ {0}, NEW D \in Nat
      PROVE  /\ -((-D) \div d) \in Nat /\ (-((-D) \div d)) * d \in Nat
             /\ D <= (-((-D) \div d)) * d /\ (-((-D) \div d)) * d < D + d
             /\ D % d = 0 => (-((-D) \div d)) * d = D
  <2> DEFINE q == (-D) \div d
  <2>1. q \in Int /\ d * q <= -D /\ -D < d * q + d
    BY Quotient
  <2>2. D % d = 0 => D = d * (D \div d) /\ D \div d \in Int
    BY NoRest, Quotient
  <2> HIDE DEF q
  <2>3. d * q \in Int /\ (-q) * d = -(d * q)
    BY <2>1
  <2>4. q <= 0
    <3> SUFFICES ASSUME q >= 1 PROVE FALSE
      BY <2>1
    <3> QED
      BY <2>1
  <2>5. ASSUME D % d = 0 PROVE d * q = -D
    <3>1. PICK t \in Int : D = d * t
      BY <2>2, <2>5
    <3>2. d * (-t) = -D /\ -t \in Int
      BY <3>1
    <3>3. (-D) \div d = -t
      BY <3>2, QuotientIs
    <3> QED
      BY <3>2, <3>3 DEF q
  <2>6. -q \in Nat /\ (-q) * d \in Nat /\ D <= (-q) * d /\ (-q) * d < D + d
    BY <2>1, <2>3, <2>4
  <2>7. D % d = 0 => (-q) * d = D
    BY <2>1, <2>3, <2>5
  <2> QED
    BY <2>6, <2>7 DEF q
<1>4. ASSUME NEW n \in EstimatedSteps(control)
      PROVE  \E d \in Nat \ {0} : /\ control.deltaT = {d} /\ Timed(control) /\ n = -((-Duration(control)) \div d)
  <2>1. PICK d \in {x \in control.deltaT : x > 0 /\ Timed(control)} : n = -((-Duration(control)) \div d)
    BY <1>4 DEF EstimatedSteps
  <2>2. control.deltaT = {d} /\ d \in Nat \ {0} /\ Timed(control)
    BY <1>1, <2>1 DEF AtMostOne
  <2> QED
    BY <2>1, <2>2
<1>5. \A n \in EstimatedSteps(control) :
        /\ Timed(control) /\ Duration(control) \in Nat
        /\ \E d \in Nat \ {0} : /\ control.deltaT = {d}
                                /\ n \in Nat /\ n * d \in Nat
                                /\ Duration(control) <= n * d /\ n * d < Duration(control) + d
                                /\ Duration(control) % d = 0 => n * d = Duration(control)
  <2> TAKE n \in EstimatedSteps(control)
  <2>1. PICK d \in Nat \ {0} : /\ control.deltaT = {d} /\ Timed(control) /\ n = -((-Duration(control)) \div d)
    BY <1>4
  <2>2. Duration(control) \in Nat
    BY <1>2, <2>1
  <2> QED
    BY <1>3, <2>1, <2>2
<1>6. EstimatedSteps(control) \in AtMostOne(Nat)
  <2>1. \A n, m \in EstimatedSteps(control) : n = m
    <3> TAKE n, m \in EstimatedSteps(control)
    <3>1. PICK d \in Nat \ {0} : /\ control.deltaT = {d} /\ n = -((-Duration(control)) \div d)
      BY <1>4
    <3>2. PICK e \in Nat \ {0} : /\ control.deltaT = {e} /\ m = -((-Duration(control)) \div e)
      BY <1>4
    <3>3. d = e
      BY <3>1, <3>2
    <3> QED
      BY <3>1, <3>2, <3>3
  <2>2. EstimatedSteps(control) \subseteq Nat
    BY <1>5
  <2> QED
    BY <2>1, <2>2 DEF AtMostOne
<1> QED
  BY <1>5, <1>6
\* u is s and then t.
Joined(R, s, t, u) == /\ u \in Seq(R) /\ Len(u) = Len(s) + Len(t)
                      /\ Len(s) \in Nat /\ Len(t) \in Nat
                      /\ DOMAIN s = 1 .. Len(s) /\ DOMAIN u = 1 .. Len(s) + Len(t)
                      /\ \A i \in 1 .. Len(s) : u[i] = s[i]
                      /\ \A i \in 1 .. Len(t) : u[Len(s) + i] = t[i]

LEMMA Concatenated ==
  ASSUME NEW R, NEW s \in Seq(R), NEW t \in Seq(R)
  PROVE  Joined(R, s, t, s \o t)
BY DEF Joined

LEMMA OnceMore ==
  ASSUME NEW a \in Nat, NEW b \in Nat
  PROVE  (a + 1) * b = a * b + b /\ a * b \in Nat
OBVIOUS

\* The events of one step: one for its start, one for each stage, and its write if one is due.
LEMMA StepEventsFacts ==
  ASSUME RunPlanInv, plan # {}, NEW k \in Nat
  PROVE  /\ StepEvents(k) \in Seq(Event)
         /\ Len(StepEvents(k)) = Len(Stages) + 1 + (IF WriteDue(control, k) THEN 1 ELSE 0)
         /\ \A i \in 1 .. Len(StepEvents(k)) :
              /\ StepEvents(k)[i].kind = "write" <=> WriteDue(control, k) /\ i = Len(Stages) + 2
              /\ StepEvents(k)[i].kind = "stage" => StepEvents(k)[i].target \in Named(Policy(policy))
<1> DEFINE p == Policy(policy)
           n == Len(Stages)
           due == WriteDue(control, k)
           S == <<[kind |-> "start", step |-> k, target |-> "none"]>>
           T == [i \in DOMAIN Stages |-> [kind |-> "stage", step |-> k, target |-> The(plan).stages[i]]]
           W == IF due THEN <<[kind |-> "write", step |-> k, target |-> "none"]>> ELSE <<>>
           E == StepEvents(k)
<1>1. Stages \in Seq(STRING) /\ n \in Nat /\ DOMAIN Stages = 1 .. n
  BY RunPlanAssumption
<1>2. plan = {PlanMade(control, p)} /\ policy \in Policies
  BY DEF RunPlanInv
<1>3. The(plan) = PlanMade(control, p)
  BY <1>2 DEF The
<1>4. \A i \in 1 .. n : The(plan).stages[i] \in Named(p) /\ The(plan).stages[i] \in Choices
  <2>1. p.default \in Choices /\ p.entries \in Seq([stage : STRING, choice : Choices])
    BY <1>2, PolicyFacts
  <2>2. \A i \in 1 .. n : The(plan).stages[i] = BackendOf(p, Stages[i])
    BY <1>1, <1>3 DEF PlanMade
  <2> HIDE DEF p
  <2> QED
    BY <2>1, <2>2, BackendNamed
<1>5. E = (S \o T) \o W
  BY DEF StepEvents
<1>6. S \in Seq(Event) /\ Len(S) = 1 /\ S[1].kind = "start"
  BY DEF Event
<1>7. T \in Seq(Event) /\ Len(T) = n /\ \A i \in 1 .. n : T[i].kind = "stage" /\ T[i].target \in Named(p)
  <2>1. T \in [1 .. n -> Event]
    BY <1>1, <1>4 DEF Event
  <2>2. DOMAIN T = 1 .. n /\ \A i \in 1 .. n : T[i].kind = "stage" /\ T[i].target \in Named(p)
    BY <1>1, <1>4
  <2> HIDE DEF T
  <2> QED
    BY <1>1, <2>1, <2>2
<1>8. W \in Seq(Event) /\ Len(W) = (IF due THEN 1 ELSE 0) /\ (due => W[1].kind = "write")
  <2>1. CASE due
    BY <2>1 DEF Event
  <2>2. CASE ~ due
    BY <2>2
  <2> QED
    BY <2>1, <2>2
<1> HIDE DEF S, T, W, E, due, n, p
<1>11. /\ S \o T \in Seq(Event) /\ Len(S \o T) = 1 + n /\ (S \o T)[1] = S[1]
       /\ \A i \in 1 .. n : (S \o T)[1 + i] = T[i]
  <2>1. Joined(Event, S, T, S \o T)
    BY <1>6, <1>7, Concatenated, Zenon
  <2> QED
    BY <1>1, <1>6, <1>7, <2>1 DEF Joined
<1>12. /\ E \in Seq(Event) /\ Len(E) = (1 + n) + Len(W)
       /\ \A i \in 1 .. 1 + n : E[i] = (S \o T)[i]
       /\ \A i \in 1 .. Len(W) : E[(1 + n) + i] = W[i]
  <2> DEFINE Q == S \o T
  <2>1. Q \in Seq(Event) /\ Len(Q) = 1 + n /\ E = Q \o W
    BY <1>5, <1>11
  <2> HIDE DEF Q
  <2>2. Joined(Event, Q, W, E)
    BY <1>8, <2>1, Concatenated
  <2>3. E \in Seq(Event) /\ Len(E) = (1 + n) + Len(W)
    BY <1>1, <2>1, <2>2 DEF Joined
  <2>4. \A i \in 1 .. 1 + n : E[i] = Q[i]
    BY <1>1, <2>1, <2>2 DEF Joined
  <2>5. \A i \in 1 .. Len(W) : E[(1 + n) + i] = W[i]
    BY <1>1, <2>1, <2>2 DEF Joined
  <2> QED
    BY <2>3, <2>4, <2>5 DEF Q
<1>9. /\ E \in Seq(Event) /\ Len(E) = n + 1 + (IF due THEN 1 ELSE 0)
  BY <1>1, <1>8, <1>12
<1>10. ASSUME NEW i \in 1 .. Len(E)
       PROVE  /\ E[i].kind = "write" <=> due /\ i = n + 2
              /\ E[i].kind = "stage" => E[i].target \in Named(p)
  <2>1. CASE i = 1
    <3>1. E[i] = S[1]
      BY <1>1, <1>11, <1>12, <2>1
    <3> QED
      BY <1>1, <1>6, <2>1, <3>1
  <2>2. CASE i \in 2 .. n + 1
    <3>2. i - 1 \in 1 .. n /\ i = 1 + (i - 1)
      BY <1>1, <2>2
    <3>1. E[i] = T[i - 1] /\ i - 1 \in 1 .. n
      <4>3. i \in 1 .. 1 + n
        BY <1>1, <2>2
      <4>1. E[i] = (S \o T)[i]
        BY <1>12, <4>3
      <4>2. (S \o T)[1 + (i - 1)] = T[i - 1]
        BY <1>11, <3>2
      <4> QED
        BY <3>2, <4>1, <4>2, Zenon
    <3> QED
      BY <1>1, <1>7, <2>2, <3>1
  <2>3. CASE i = n + 2 /\ due
    <3>1. E[i] = W[1]
      BY <1>1, <1>8, <1>12, <2>3
    <3> QED
      BY <1>1, <1>8, <2>3, <3>1
  <2> QED
    BY <1>1, <1>9, <2>1, <2>2, <2>3
<1> QED
  BY <1>9, <1>10 DEF E, n, due, p

\* What the dry run looks at beside the events.
PlanFrame == UNCHANGED <<control, policy, plan, most>>

LEMMA PlanFrameFacts ==
  ASSUME PlanFrame
  PROVE  /\ PreviewSteps' = PreviewSteps
         /\ \A k : WriteDue(control, k)' = WriteDue(control, k)
         /\ \A n : DueUpTo(n)' = DueUpTo(n)
         /\ PlanMade(control, Policy(policy))' = PlanMade(control, Policy(policy))
         /\ Named(Policy(policy))' = Named(Policy(policy))
<1>1. control' = control /\ policy' = policy /\ plan' = plan /\ most' = most
  BY DEF PlanFrame
<1>2. PreviewSteps' = PreviewSteps
  BY <1>1 DEF PreviewSteps
<1>3. \A k : WriteDue(control, k)' = WriteDue(control, k)
  BY <1>1
<1>4. \A n : DueUpTo(n)' = DueUpTo(n)
  BY <1>1 DEF DueUpTo
<1> QED
  BY <1>1, <1>2, <1>3, <1>4

LEMMA ExpandedFrame ==
  ASSUME Expanded, UNCHANGED <<control, policy, step, events>>
  PROVE  Expanded'
<1>1. control' = control /\ policy' = policy /\ step' = step /\ events' = events
  OBVIOUS
<1>2. Written' = Written /\ DueUpTo(step - 1)' = DueUpTo(step - 1)
  BY <1>1 DEF Written, DueUpTo
<1>3. Named(Policy(policy))' = Named(Policy(policy))
  BY <1>1
<1> QED
  BY <1>1, <1>2, <1>3 DEF Expanded

LEMMA DryRunStepKeeps ==
  ASSUME RunPlanInv, DryRunStep
  PROVE  Expanded'
<1>1. /\ preview = "expanding" /\ step <= PreviewSteps /\ step' = step + 1
      /\ events' = events \o StepEvents(step) /\ PlanFrame
  BY DEF DryRunStep, PlanFrame
<1>2. /\ step \in Nat \ {0} /\ plan # {} /\ Expanded
      /\ control' = control /\ policy' = policy
  BY <1>1 DEF RunPlanInv, PlanFrame
<1> DEFINE E == StepEvents(step)
           n == Len(Stages)
           due == WriteDue(control, step)
           P == {k \in Nat : WriteDue(control, k)}
<1>3. /\ E \in Seq(Event) /\ Len(E) = n + 1 + (IF due THEN 1 ELSE 0) /\ n \in Nat
      /\ \A i \in 1 .. Len(E) : /\ E[i].kind = "write" <=> due /\ i = n + 2
                                /\ E[i].kind = "stage" => E[i].target \in Named(Policy(policy))
  <2>1. step \in Nat /\ plan # {}
    BY <1>2
  <2>2. n \in Nat
    BY RunPlanAssumption
  <2> QED
    BY <2>1, <2>2, StepEventsFacts, Zenon
<1>4. /\ IsFiniteSet(DueUpTo(step)) /\ Cardinality(DueUpTo(step - 1)) \in Nat
      /\ Cardinality(DueUpTo(step)) = Cardinality(DueUpTo(step - 1)) + IF due THEN 1 ELSE 0
  <2>1. step - 1 \in Nat /\ (step - 1) + 1 = step
    BY <1>2
  <2>2. \A k \in Nat : DueUpTo(k) = {j \in 1 .. k : j \in P}
    BY DEF DueUpTo
  <2>3. step \in P <=> due
    BY <1>2
  <2> HIDE DEF P
  <2>4. DueUpTo(step - 1) = {j \in 1 .. step - 1 : j \in P} /\ DueUpTo(step) = {j \in 1 .. (step - 1) + 1 : j \in P}
    BY <1>2, <2>1, <2>2
  <2>5. IsFiniteSet({j \in 1 .. step - 1 : j \in P})
    BY <1>2, <2>4 DEF Expanded
  <2>6. /\ IsFiniteSet({j \in 1 .. (step - 1) + 1 : j \in P})
        /\ Cardinality({j \in 1 .. step - 1 : j \in P}) \in Nat
        /\ Cardinality({j \in 1 .. (step - 1) + 1 : j \in P})
             = Cardinality({j \in 1 .. step - 1 : j \in P}) + IF (step - 1) + 1 \in P THEN 1 ELSE 0
    BY <2>1, <2>5, CountOneMore
  <2> QED
    BY <2>1, <2>3, <2>4, <2>6
<1> HIDE DEF E, n, due, P
<1>5. /\ events \in Seq(Event) /\ Len(events) \in Nat
      /\ Len(events) = (step - 1) * (n + 1) + Cardinality(DueUpTo(step - 1))
      /\ IsFiniteSet(Written) /\ Cardinality(Written) = Cardinality(DueUpTo(step - 1))
      /\ \A i \in 1 .. Len(events) : events[i].kind = "stage" => events[i].target \in Named(Policy(policy))
  BY <1>2 DEF Expanded, n
<1>6. /\ events' \in Seq(Event) /\ Len(events') = Len(events) + Len(E)
      /\ DOMAIN events' = 1 .. Len(events) + Len(E)
      /\ \A i \in 1 .. Len(events) : events'[i] = events[i]
      /\ \A i \in 1 .. Len(E) : events'[Len(events) + i] = E[i]
  <2>1. events' = events \o E
    BY <1>1 DEF E
  <2>2. Joined(Event, events, E, events \o E)
    BY <1>3, <1>5, Concatenated, Zenon
  <2> QED
    BY <2>1, <2>2 DEF Joined
<1>7. ASSUME NEW i \in DOMAIN events', ~ i \in 1 .. Len(events)
      PROVE  \E j \in 1 .. Len(E) : i = Len(events) + j
  <2>1. i - Len(events) \in 1 .. Len(E) /\ i = Len(events) + (i - Len(events))
    BY <1>3, <1>5, <1>6, <1>7
  <2> QED
    BY <2>1
<1>8. Written' = Written \cup (IF due THEN {Len(events) + n + 2} ELSE {})
  <2>1. Written = {i \in 1 .. Len(events) : events[i].kind = "write"}
    BY <1>5 DEF Written
  <2>2. Written' = {i \in DOMAIN events' : events'[i].kind = "write"}
    BY DEF Written
  <2>3. ASSUME NEW i \in 1 .. Len(events)
        PROVE  i \in Written' <=> i \in Written
    BY <2>1, <2>2, <2>3, <1>3, <1>5, <1>6
  <2>4. ASSUME NEW j \in 1 .. Len(E)
        PROVE  Len(events) + j \in Written' <=> due /\ j = n + 2
    BY <2>2, <2>4, <1>3, <1>5, <1>6
  <2>5. due => n + 2 \in 1 .. Len(E)
    BY <1>3
  <2>6. \A i \in Written' : i \in 1 .. Len(events) \/ \E j \in 1 .. Len(E) : i = Len(events) + j
    BY <1>7, <2>2
  <2>7. \A i \in Written : i \in Written'
    BY <2>1, <2>3
  <2>8. \A i \in Written' : i \in Written \/ (due /\ i = Len(events) + (n + 2))
    BY <2>3, <2>4, <2>6
  <2>9. due => Len(events) + (n + 2) \in Written'
    BY <2>4, <2>5
  <2>10. Len(events) + n + 2 = Len(events) + (n + 2)
    BY <1>3, <1>5
  <2> HIDE DEF Written
  <2> QED
    BY <2>7, <2>8, <2>9, <2>10
<1>9. IsFiniteSet(Written') /\ Cardinality(Written') = Cardinality(DueUpTo(step))
  <2>1. Written \subseteq 1 .. Len(events)
    BY <1>5 DEF Written
  <2>2. CASE due
    <3>1. Len(events) + n + 2 \notin Written
      BY <1>3, <1>5, <2>1
    <3>2. Written' = Written \cup {Len(events) + n + 2}
      BY <1>8, <2>2
    <3>3. IsFiniteSet(Written') /\ Cardinality(Written') = Cardinality(Written) + 1
      BY <1>5, <3>1, <3>2, FS_AddElement
    <3> QED
      BY <1>4, <1>5, <2>2, <3>3
  <2>3. CASE ~ due
    BY <1>4, <1>5, <1>8, <2>3
  <2> QED
    BY <2>2, <2>3
<1>10. DueUpTo(step - 1)' = DueUpTo(step)
  BY <1>1, <1>2 DEF DueUpTo
<1>11. Len(events') = (step' - 1) * (n + 1) + Cardinality(DueUpTo(step))
  <2>1. step' - 1 = (step - 1) + 1 /\ step - 1 \in Nat
    BY <1>1, <1>2
  <2> DEFINE a == (step - 1) * (n + 1)
             b == (step' - 1) * (n + 1)
             c == Cardinality(DueUpTo(step - 1))
  <2>2. b = a + (n + 1) /\ a \in Nat
    BY <1>3, <2>1, OnceMore
  <2>3. Len(events) = a + c /\ c \in Nat
    BY <1>4, <1>5
  <2> HIDE DEF a, b, c
  <2>4. Len(events') = a + c + (n + 1 + (IF due THEN 1 ELSE 0))
    BY <1>3, <1>6, <2>3
  <2>5. Cardinality(DueUpTo(step)) = c + (IF due THEN 1 ELSE 0)
    BY <1>4 DEF c
  <2> QED
    BY <1>3, <2>2, <2>3, <2>4, <2>5 DEF b
<1>12. ASSUME NEW i \in DOMAIN events', events'[i].kind = "stage"
       PROVE  events'[i].target \in Named(Policy(policy))
  BY <1>3, <1>5, <1>6, <1>7, <1>12
<1>13. Named(Policy(policy))' = Named(Policy(policy))
  BY <1>2
<1> QED
  BY <1>4, <1>6, <1>9, <1>10, <1>11, <1>12, <1>13 DEF Expanded, n
LEMMA RunPlanStart ==
  ASSUME Init
  PROVE  RunPlanInv
<1>1. /\ control \in Controls /\ policy \in Policies /\ plan = {} /\ most = 1 /\ step = 1
      /\ events = <<>> /\ preview = "none" /\ stage \in ArgumentStages
  BY DEF Init, CaseInit, RunPlanInit, ArgumentStages
<1>2. Expanded
  <2>1. DueUpTo(step - 1) = {} /\ Written = {} /\ DOMAIN events = {} /\ Len(events) = 0 /\ step - 1 = 0
    BY <1>1 DEF DueUpTo, Written
  <2>2. IsFiniteSet({}) /\ Cardinality({}) = 0
    BY FS_EmptySet
  <2>3. Len(Stages) \in Nat
    BY RunPlanAssumption
  <2>4. events \in Seq(Event)
    BY <1>1
  <2>5. (step - 1) * (Len(Stages) + 1) = 0
    BY <2>1, <2>3
  <2> QED
    BY <2>1, <2>2, <2>4, <2>5 DEF Expanded
<1> QED
  BY <1>1, <1>2 DEF RunPlanInv, ArgumentStages

\* A step that leaves the plan and the dry run alone, and does not go on to either.
LEMMA RunPlanFrame ==
  ASSUME RunPlanInv, UNCHANGED runVars,
         stage' \in ArgumentStages \cup {"plan", "dryRunAsked"} => stage \in ArgumentStages \cup {"plan", "dryRunAsked"},
         stage' \in {"dryRunAsked", "resolve"} => stage \in {"dryRunAsked", "resolve"}
  PROVE  RunPlanInv'
<1>1. UNCHANGED <<control, policy, plan, most, step, events, preview>>
  BY DEF runVars
<1>2. PlanFrame
  BY <1>1 DEF PlanFrame
<1>3. Expanded'
  BY <1>1, ExpandedFrame DEF RunPlanInv
<1>4. PreviewSteps' = PreviewSteps /\ PlanMade(control, Policy(policy))' = PlanMade(control, Policy(policy))
  BY <1>2, PlanFrameFacts
<1> QED
  BY <1>1, <1>3, <1>4 DEF RunPlanInv

\* The most steps of a dry run are a number.
LEMMA MostIsNumber ==
  ASSUME ArgumentsType
  PROVE  (IF settings["-maxRunnerSteps"] = {} THEN DefaultSteps ELSE The(Amounts(settings["-maxRunnerSteps"]))) \in Nat
<1>1. DefaultSteps \in Nat
  BY CaseRunAssumption
<1>2. CASE settings["-maxRunnerSteps"] # {}
  <2>1. settings["-maxRunnerSteps"] \subseteq Whole
    BY OptionSets DEF ArgumentsType
  <2>2. \A t \in Whole : Amount(t) \in Nat
    BY DEF Whole, Amount
  <2>3. Amounts(settings["-maxRunnerSteps"]) \subseteq Nat /\ Amounts(settings["-maxRunnerSteps"]) # {}
    BY <1>2, <2>1, <2>2 DEF Amounts
  <2>4. The(Amounts(settings["-maxRunnerSteps"])) \in Amounts(settings["-maxRunnerSteps"])
    BY <2>3 DEF The
  <2> QED
    BY <1>2, <2>3, <2>4
<1> QED
  BY <1>1, <1>2

LEMMA PreviewNumber ==
  ASSUME RunPlanInv, plan # {}
  PROVE  PreviewSteps \in Nat
<1>1. plan = {PlanMade(control, Policy(policy))} /\ control \in Controls /\ most \in Nat
  BY DEF RunPlanInv
<1>2. The(plan).steps = EstimatedSteps(control)
  <2>1. The(plan) = PlanMade(control, Policy(policy))
    BY <1>1 DEF The
  <2> QED
    BY <2>1 DEF PlanMade
<1>3. EstimatedSteps(control) \in AtMostOne(Nat)
  BY <1>1, StepsFacts
<1>4. Given(The(plan).steps) => The(The(plan).steps) \in Nat
  BY <1>2, <1>3 DEF Given, The, AtMostOne
<1> QED
  BY <1>1, <1>4 DEF PreviewSteps

LEMMA RunPlanNext ==
  ASSUME ArgumentsInv, RunPlanInv, [Next]_vars
  PROVE  RunPlanInv'
<1>0. ArgumentStages \cup {"plan", "dryRunAsked"} = {"scan", "dispatch", "parse", "plan", "dryRunAsked"}
  BY DEF ArgumentStages
<1>1. CASE ScanArguments
  <2>1. UNCHANGED runVars /\ stage = "scan" /\ stage' \in {"scan", "dispatch"}
    BY <1>1 DEF ScanArguments, Running
  <2> QED
    BY <1>0, <2>1, RunPlanFrame
<1>2. CASE Dispatch
  <2>1. UNCHANGED runVars /\ stage = "dispatch" /\ stage' \in {"dispatch", "parse"}
    BY <1>2 DEF Dispatch, Running, Either, Goes, Fails
  <2> QED
    BY <1>0, <2>1, RunPlanFrame
<1>3. CASE ParseArguments
  <2>1. UNCHANGED runVars /\ stage = "parse" /\ stage' \in {"parse", "plan"}
    BY <1>3 DEF ParseArguments, Running
  <2> QED
    BY <1>0, <2>1, RunPlanFrame
<1>4. CASE Plan
  <2>1. /\ stage = "plan" /\ BuildRunPlan
        /\ stage' \in {"plan", "dryRunAsked", "scalar", "resolve", "planJson"}
    BY <1>4 DEF Plan, Running, Either, Goes, Fails
  <2>2. /\ plan' = {PlanMade(control, Policy(policy))}
        /\ UNCHANGED <<control, policy, most, step, events, preview>>
    BY <2>1 DEF BuildRunPlan, PlanMade
  <2>3. preview = "none" /\ Expanded
    BY <1>0, <2>1 DEF RunPlanInv
  <2>4. Expanded'
    BY <2>2, <2>3, ExpandedFrame
  <2>5. PlanMade(control, Policy(policy))' = PlanMade(control, Policy(policy))
    BY <2>2
  <2> QED
    BY <2>2, <2>3, <2>4, <2>5 DEF RunPlanInv
<1>5. CASE AskDryRun
  <2> DEFINE n == IF settings["-maxRunnerSteps"] = {} THEN DefaultSteps ELSE The(Amounts(settings["-maxRunnerSteps"]))
  <2>1. stage = "dryRunAsked" /\ DryRunAsked(n) /\ stage' = "dryRun"
    BY <1>5 DEF AskDryRun, Running, Goes
  <2>2. n \in Nat
    BY MostIsNumber DEF ArgumentsInv
  <2> HIDE DEF n
  <2>3. most' = n /\ preview' = "counting" /\ UNCHANGED <<control, policy, plan, step, events>>
    BY <2>1 DEF DryRunAsked
  <2>4. /\ preview = "none" /\ plan # {} /\ step = 1 /\ events = <<>> /\ Expanded
        /\ control \in Controls /\ policy \in Policies /\ plan \in {{}, {PlanMade(control, Policy(policy))}}
    BY <1>0, <2>1 DEF RunPlanInv
  <2>5. Expanded'
    BY <2>3, <2>4, ExpandedFrame
  <2>6. PlanMade(control, Policy(policy))' = PlanMade(control, Policy(policy))
    BY <2>3
  <2> QED
    BY <1>0, <2>1, <2>2, <2>3, <2>4, <2>5, <2>6 DEF RunPlanInv
<1>6. CASE DryRun
  <2>1. /\ stage = "dryRun" /\ stage' \in {"dryRun", "planJson"}
        /\ DryRunCount \/ DryRunStep \/ DryRunEnd
    BY <1>6 DEF DryRun, Running, DryRunStepping
  <2>2. /\ PlanFrame
        /\ preview \in {"counting", "expanding"}
    BY <2>1 DEF DryRunCount, DryRunStep, DryRunEnd, PlanFrame
  <2>3. PreviewSteps' = PreviewSteps /\ PlanMade(control, Policy(policy))' = PlanMade(control, Policy(policy))
    BY <2>2, PlanFrameFacts
  <2>4. PreviewSteps \in Nat
    BY <2>2, PreviewNumber DEF RunPlanInv
  <2>5. CASE DryRunStep
    <3>1. Expanded'
      BY <2>5, DryRunStepKeeps
    <3>2. preview = "expanding" /\ preview' = preview /\ step <= PreviewSteps /\ step' = step + 1
      BY <2>5 DEF DryRunStep
    <3> QED
      BY <1>0, <2>1, <2>2, <2>3, <2>4, <3>1, <3>2 DEF RunPlanInv, PlanFrame
  <2>6. CASE DryRunCount
    <3>1. UNCHANGED <<step, events>> /\ preview = "counting" /\ preview' \in {"refused", "expanding"}
      BY <2>6 DEF DryRunCount
    <3>2. Expanded'
      BY <2>2, <3>1, ExpandedFrame DEF RunPlanInv, PlanFrame
    <3>3. step = 1 /\ step <= PreviewSteps + 1
      BY <2>4, <3>1 DEF RunPlanInv
    <3> QED
      BY <1>0, <2>1, <2>2, <2>3, <3>1, <3>2, <3>3 DEF RunPlanInv, PlanFrame
  <2>7. CASE DryRunEnd
    <3>1. UNCHANGED <<step, events>> /\ preview = "expanding" /\ preview' = "done" /\ step = PreviewSteps + 1
      BY <2>7 DEF DryRunEnd
    <3>2. Expanded'
      BY <2>2, <3>1, ExpandedFrame DEF RunPlanInv, PlanFrame
    <3> QED
      BY <1>0, <2>1, <2>2, <2>3, <3>1, <3>2 DEF RunPlanInv, PlanFrame
  <2> QED
    BY <2>1, <2>5, <2>6, <2>7
<1>7. ASSUME Next, ~ ScanArguments, ~ Dispatch, ~ ParseArguments, ~ Plan, ~ AskDryRun, ~ DryRun
      PROVE  /\ UNCHANGED runVars
             /\ stage' = stage \/ stage' \in {"planJson", "destination", "solve"} \cup OutputNames
  <2>1. \A n \in 0 .. 7 : NextOutput(n) \in {"planJson"} \cup OutputNames
    BY NextOutputFacts, OutputFacts
  <2>2. \A o \in OutputNames : Position(o) \in 0 .. 7
    BY OutputFacts
  <2>3. CASE SolveScalar
    BY <2>3 DEF SolveScalar, Either, Goes, Fails
  <2>4. CASE Resolve
    BY <2>4 DEF Resolve, Either, Goes, Fails
  <2>5. CASE CheckDestination
    BY <2>5 DEF CheckDestination, Either, Goes, Fails
  <2>6. CASE Solve
    BY <2>6, <2>1 DEF Solve, Goes
  <2>7. ASSUME NEW o \in OutputNames, OpenOutput(o) \/ CloseOutput(o)
        PROVE  /\ UNCHANGED runVars
               /\ stage' = stage \/ stage' \in {"planJson", "destination", "solve"} \cup OutputNames
    BY <2>7, <2>1, <2>2 DEF OpenOutput, CloseOutput, Goes, Fails
  <2>8. CASE OpenPlot \/ LosePlot
    <3>1. Position("plot") \in 0 .. 7
      BY <2>2 DEF OutputNames
    <3> QED
      BY <2>8, <2>1, <3>1 DEF OpenPlot, LosePlot, Goes
  <2>9. CASE OpenPlan \/ ClosePlan
    BY <2>9 DEF OpenPlan, ClosePlan, Fails
  <2>10. CASE Interrupt
    BY <2>10 DEF Interrupt
  <2>11. CASE Ended
    BY <2>11 DEF Ended, vars, caseVars
  <2> QED
    BY <1>7, <2>3, <2>4, <2>5, <2>6, <2>7, <2>8, <2>9, <2>10, <2>11, OutputFacts DEF Next
<1>8. {"planJson", "destination", "solve"} \cup OutputNames
        = {"planJson", "destination", "solve", "loads", "csv", "plot", "U", "p", "json", "markdown"}
  BY DEF OutputNames
<1>9. CASE UNCHANGED vars
  <2>1. UNCHANGED runVars /\ stage' = stage
    BY <1>9 DEF vars, caseVars
  <2> QED
    BY <2>1, RunPlanFrame
<1>10. CASE Next /\ ~ ScanArguments /\ ~ Dispatch /\ ~ ParseArguments /\ ~ Plan /\ ~ AskDryRun /\ ~ DryRun
  BY <1>0, <1>7, <1>8, <1>10, RunPlanFrame
<1> QED
  BY <1>1, <1>2, <1>3, <1>4, <1>5, <1>6, <1>9, <1>10

\* The plan is the one of the dictionaries, and the dry run has expanded its first steps.
THEOREM RunPlanInvariance == Spec => []RunPlanInv
<1>1. Init => RunPlanInv
  BY RunPlanStart
<1>2. ArgumentsInv /\ RunPlanInv /\ [Next]_vars => RunPlanInv'
  BY RunPlanNext
<1> QED
  BY <1>1, <1>2, ArgumentsInvariance, PTL DEF Spec
-----------------------------------------------------------------------------
(***************************************************************************)
(* The closed forms of the plan count what the dry run expands.            *)
(***************************************************************************)
LEMMA PlanIs ==
  ASSUME RunPlanInv, plan # {}
  PROVE  /\ The(plan).steps = EstimatedSteps(control)
         /\ The(plan).writes = EstimatedWrites(control)
         /\ The(plan).usesCpu = UsesCpu(Policy(policy))
         /\ The(plan).usesGpu = UsesGpu(Policy(policy))
<1>1. plan = {PlanMade(control, Policy(policy))}
  BY DEF RunPlanInv
<1>2. The(plan) = PlanMade(control, Policy(policy))
  BY <1>1 DEF The
<1> QED
  BY <1>2 DEF PlanMade

\* When writes go by steps, the plan divides by the interval.
LEMMA StepWrites ==
  ASSUME control \in Controls, control.writeControl = "timeStep",
         NEW N \in Nat, EstimatedSteps(control) = {N}, NEW n \in EstimatedWrites(control)
  PROVE  Cardinality(DueUpTo(N)) = n
<1>1. EstimatedWrites(control) = {m \div k : m \in EstimatedSteps(control), k \in EverySteps(control)}
  BY DEF EstimatedWrites
<1>2. PICK k \in EverySteps(control) : n = N \div k
  BY <1>1
<1>3. control.writeInterval \in AtMostOne(Int)
  BY DEF Controls
<1>4. PICK i \in Int : /\ control.writeInterval = {i} /\ i > 0 /\ i % Unit = 0 /\ k = i \div Unit
  BY <1>2, <1>3 DEF EverySteps, AtMostOne
<1>5. EverySteps(control) = {k}
  BY <1>4 DEF EverySteps
<1>6. k \in Nat \ {0}
  <2>1. i = 2 * (i \div 2) /\ i \div 2 \in Int
    BY <1>4, NoRest, Quotient DEF Unit
  <2> QED
    BY <1>4, <2>1 DEF Unit
<1>7. DueUpTo(N) = {j \in 1 .. N : j % k = 0}
  BY <1>5 DEF DueUpTo, WriteDue
<1> QED
  BY <1>2, <1>6, <1>7, CountMultiples

\* When they go by time, and no step jumps over a whole interval, the last step may make one more.
LEMMA TimeWrites ==
  ASSUME control \in Controls, control.writeControl = "runTime",
         NEW N \in Nat, EstimatedSteps(control) = {N}, NEW n \in EstimatedWrites(control),
         NEW d \in control.deltaT, NEW i \in control.writeInterval, d <= i
  PROVE  /\ Cardinality(DueUpTo(N)) - n \in {0, 1}
         /\ Duration(control) % d = 0 => Cardinality(DueUpTo(N)) = n
<1> DEFINE D == Duration(control)
           c == Cardinality(DueUpTo(N))
<1>1. PICK e \in Nat \ {0} : /\ control.deltaT = {e} /\ N * e \in Nat
                             /\ D <= N * e /\ N * e < D + e
                             /\ D % e = 0 => N * e = D
  BY StepsFacts
<1>2. D \in Nat /\ Timed(control)
  BY StepsFacts
<1>3. d = e /\ d \in Nat \ {0}
  BY <1>1
<1>4. control.writeInterval \in AtMostOne(Int)
  BY DEF Controls
<1>5. control.writeInterval = {i} /\ i \in Int
  BY <1>4 DEF AtMostOne
<1>6. i \in Nat \ {0}
  BY <1>3, <1>5
<1>7. EstimatedWrites(control) = {D \div x : x \in {y \in control.writeInterval : y > 0 /\ Timed(control)}}
  BY DEF EstimatedWrites
<1>8. n = D \div i
  BY <1>5, <1>7
<1>9. Given(control.startTime)
  BY <1>2 DEF Timed
<1>10. DueUpTo(N) = {k \in 1 .. N : (k * d) \div i > ((k - 1) * d) \div i /\ (k * d) \div i >= 1}
  <2>1. \A k \in 1 .. N : WriteDue(control, k) <=> TimeDue(control, k)
    BY <1>9 DEF WriteDue
  <2>2. \A k \in 1 .. N : TimeDue(control, k) <=> (k * d) \div i > ((k - 1) * d) \div i /\ (k * d) \div i >= 1
    BY <1>1, <1>3, <1>5, <1>6 DEF TimeDue
  <2> QED
    BY <2>1, <2>2 DEF DueUpTo
<1>11. c = (N * d) \div i
  BY <1>3, <1>6, <1>10, CountCrossings
<1> DEFINE a == N * d
<1>12. a \in Nat /\ D <= a /\ a < D + d /\ (D % d = 0 => a = D)
  BY <1>1, <1>3
<1> HIDE DEF D, c, a
<1>13. c = a \div i
  BY <1>11 DEF a
<1>14. n \in Int /\ i * n <= D /\ D < i * n + i
  BY <1>2, <1>6, <1>8, Quotient
<1>15. i * n \in Int /\ i * (n + 1) = i * n + i
  BY <1>6, <1>14
<1>16. c = n \/ c = n + 1
  <2>1. CASE a < i * n + i
    BY <1>2, <1>6, <1>12, <1>13, <1>14, <1>15, <2>1, QuotientIs
  <2>2. CASE ~ (a < i * n + i)
    <3>1. i * (n + 1) <= a /\ a < i * (n + 1) + i
      BY <1>2, <1>3, <1>6, <1>12, <1>14, <1>15, <2>2
    <3> QED
      BY <1>6, <1>12, <1>13, <1>14, <3>1, QuotientIs
  <2> QED
    BY <2>1, <2>2
<1>17. D % d = 0 => c = n
  BY <1>8, <1>12, <1>13 DEF D
<1> QED
  BY <1>14, <1>16, <1>17 DEF c, D

\* The plan of a case and its dry run count the same steps and writes and use the same backends.
THEOREM DryRunAgreesWithPlan == Spec => []DryRunAgrees
<1>1. ASSUME RunPlanInv
      PROVE  DryRunAgrees
  <2> SUFFICES ASSUME preview = "done"
               PROVE  /\ Len(events) = CountedEvents
                      /\ "gpu" \in Dispatched => The(plan).usesGpu
                      /\ "cpu" \in Dispatched => The(plan).usesCpu
                      /\ \A n \in The(plan).writes :
                           ~ Truncated /\ Given(The(plan).steps) =>
                             CASE control.writeControl = "none" -> Written = {}
                               [] control.writeControl = "timeStep" -> Cardinality(Written) = n
                               [] control.writeControl = "runTime" ->
                                    \A dt \in control.deltaT, i \in control.writeInterval :
                                       dt <= i => /\ Cardinality(Written) - n \in {0, 1}
                                                  /\ Duration(control) % dt = 0 => Cardinality(Written) = n
    BY DEF DryRunAgrees
  <2>1. plan # {} /\ step = PreviewSteps + 1 /\ Expanded /\ control \in Controls
    BY <1>1 DEF RunPlanInv
  <2>2. PreviewSteps \in Nat /\ step - 1 = PreviewSteps
    BY <1>1, <2>1, PreviewNumber
  <2>3. /\ Len(events) = PreviewSteps * (Len(Stages) + 1) + Cardinality(DueUpTo(PreviewSteps))
        /\ IsFiniteSet(Written) /\ Cardinality(Written) = Cardinality(DueUpTo(PreviewSteps))
        /\ \A i \in DOMAIN events : events[i].kind = "stage" => events[i].target \in Named(Policy(policy))
    BY <2>1, <2>2 DEF Expanded
  <2>4. Len(events) = CountedEvents
    BY <2>3 DEF CountedEvents, DueWrites, DueUpTo
  <2>5. \A t \in Dispatched : t \in Named(Policy(policy))
    BY <2>3 DEF Dispatched
  <2>6. /\ "gpu" \in Dispatched => The(plan).usesGpu
        /\ "cpu" \in Dispatched => The(plan).usesCpu
    <3>1. The(plan).usesCpu = UsesCpu(Policy(policy)) /\ The(plan).usesGpu = UsesGpu(Policy(policy))
      BY <1>1, <2>1, PlanIs
    <3> QED
      BY <2>5, <3>1 DEF UsesCpu, UsesGpu
  <2>7. ASSUME NEW n \in The(plan).writes, ~ Truncated, Given(The(plan).steps)
        PROVE  CASE control.writeControl = "none" -> Written = {}
                 [] control.writeControl = "timeStep" -> Cardinality(Written) = n
                 [] control.writeControl = "runTime" ->
                      \A dt \in control.deltaT, i \in control.writeInterval :
                         dt <= i => /\ Cardinality(Written) - n \in {0, 1}
                                    /\ Duration(control) % dt = 0 => Cardinality(Written) = n
    <3>1. The(plan).steps = EstimatedSteps(control) /\ n \in EstimatedWrites(control)
      BY <1>1, <2>1, <2>7, PlanIs
    <3>2. PICK N \in Nat : EstimatedSteps(control) = {N}
      BY <2>1, <2>7, <3>1, StepsFacts DEF Given, AtMostOne
    <3>3. PreviewSteps = N
      <4>1. The(The(plan).steps) = N /\ Given(The(plan).steps)
        BY <3>1, <3>2 DEF The, Given
      <4>2. ~ PreviewSteps < N
        BY <2>7, <4>1 DEF Truncated
      <4>3. PreviewSteps = IF N > most THEN most ELSE N
        BY <4>1 DEF PreviewSteps
      <4>4. most \in Nat
        BY <1>1 DEF RunPlanInv
      <4> QED
        BY <4>2, <4>3, <4>4
    <3>4. Cardinality(Written) = Cardinality(DueUpTo(N))
      BY <2>3, <3>3
    <3>5. CASE control.writeControl = "none"
      <4>1. DueUpTo(N) = {}
        BY <3>5 DEF DueUpTo, WriteDue
      <4>2. Cardinality(Written) = 0
        BY <3>4, <4>1, FS_EmptySet
      <4>3. Written = {}
        BY <2>3, <4>2, FS_EmptySet
      <4> QED
        BY <3>5, <4>3
    <3>6. CASE control.writeControl = "timeStep"
      <4>1. Cardinality(Written) = n
        BY <2>1, <3>1, <3>2, <3>4, <3>6, StepWrites
      <4> QED
        BY <3>6, <4>1
    <3>7. CASE control.writeControl = "runTime"
      <4>1. \A dt \in control.deltaT, i \in control.writeInterval :
              dt <= i => /\ Cardinality(Written) - n \in {0, 1}
                         /\ Duration(control) % dt = 0 => Cardinality(Written) = n
        BY <2>1, <3>1, <3>2, <3>4, <3>7, TimeWrites
      <4> QED
        BY <3>7, <4>1
    <3>8. control.writeControl \in {"timeStep", "runTime", "none"}
      BY <2>1 DEF Controls, WriteControls
    <3> QED
      BY <3>5, <3>6, <3>7, <3>8
  <2> QED
    BY <2>4, <2>6, <2>7
<1> QED
  BY <1>1, RunPlanInvariance, PTL
-----------------------------------------------------------------------------
(***************************************************************************)
(* The limits of a solve.                                                  *)
(***************************************************************************)
\* They are resolved from the settings that stay, and nothing in them was refused.
LimitsInv ==
  /\ limits # {} => parse = "accepted"
  /\ \A l \in limits : \E n \in SUBSET Int : /\ l = ResolvedLimits(settings, case, n)
                                             /\ ~ OptionsRefused(settings, case, n)

LEMMA StepsAreNumbers ==
  ASSUME RunPlanInv, plan # {}
  PROVE  The(plan).steps \in SUBSET Int
<1>1. The(plan).steps = EstimatedSteps(control) /\ control \in Controls
  BY PlanIs DEF RunPlanInv
<1>2. EstimatedSteps(control) \in AtMostOne(Nat)
  BY <1>1, StepsFacts
<1> QED
  BY <1>1, <1>2 DEF AtMostOne

LEMMA LimitsFrame ==
  ASSUME LimitsInv, UNCHANGED <<settings, case, limits>>, limits # {} => parse' = "accepted"
  PROVE  LimitsInv'
BY DEF LimitsInv

LEMMA LimitsNext ==
  ASSUME ArgumentsInv, RunPlanInv, LimitsInv, [Next]_vars
  PROVE  LimitsInv'
<1>1. CASE ScanArguments \/ ParseArguments
  <2>1. UNCHANGED <<limits, case>> /\ result = "running" /\ stage \in {"scan", "parse"}
    BY <1>1 DEF ScanArguments, ParseArguments, Running
  <2>2. parse # "accepted"
    BY <2>1 DEF ArgumentsInv, ParseStage
  <2>3. limits = {}
    BY <2>2 DEF LimitsInv
  <2> QED
    BY <2>1, <2>3 DEF LimitsInv
<1>2. CASE Resolve
  <2> DEFINE n == The(plan).steps
  <2>1. /\ stage = "resolve" /\ result = "running" /\ UNCHANGED <<argumentVars, case>>
        /\ limits' = IF OptionsRefused(settings, case, n) THEN {} ELSE {ResolvedLimits(settings, case, n)}
    BY <1>2 DEF Resolve, Running
  <2>2. plan # {}
    BY <2>1 DEF RunPlanInv
  <2>3. n \in SUBSET Int
    BY <2>2, StepsAreNumbers
  <2>4. parse = "accepted"
    BY <2>1 DEF ArgumentsInv, ParseStage
  <2>5. settings' = settings /\ parse' = parse /\ case' = case
    BY <2>1 DEF argumentVars
  <2> HIDE DEF n
  <2>6. CASE OptionsRefused(settings, case, n)
    BY <2>1, <2>6 DEF LimitsInv
  <2>7. CASE ~ OptionsRefused(settings, case, n)
    <3>1. limits' = {ResolvedLimits(settings, case, n)}
      BY <2>1, <2>7
    <3>2. ResolvedLimits(settings, case, n)' = ResolvedLimits(settings', case', n')
      OBVIOUS
    <3> QED
      BY <2>3, <2>4, <2>5, <2>7, <3>1 DEF LimitsInv
  <2> QED
    BY <2>6, <2>7
<1>3. CASE Dispatch
  BY <1>3, LimitsFrame DEF Dispatch, argumentVars, LimitsInv
<1>4. ASSUME Next, ~ ScanArguments, ~ ParseArguments, ~ Resolve, ~ Dispatch
      PROVE  UNCHANGED <<settings, parse, case, limits>>
  <2>1. LaterStep
    BY <1>4, LaterSteps
  <2>2. UNCHANGED <<settings, parse>>
    BY <2>1 DEF LaterStep, argumentVars
  <2>3. UNCHANGED <<case, limits>>
    BY <1>4 DEF Next, Plan, AskDryRun, DryRun, SolveScalar, CheckDestination, Solve, OpenOutput, CloseOutput,
                OpenPlot, LosePlot, OpenPlan, ClosePlan, Interrupt, Ended, vars, caseVars
  <2> QED
    BY <2>2, <2>3
<1>5. CASE UNCHANGED vars
  BY <1>5, LimitsFrame DEF vars, caseVars, argumentVars, LimitsInv
<1>6. CASE Next /\ ~ ScanArguments /\ ~ ParseArguments /\ ~ Resolve /\ ~ Dispatch
  BY <1>4, <1>6, LimitsFrame DEF LimitsInv
<1> QED
  BY <1>1, <1>2, <1>3, <1>5, <1>6

\* The limits a solve runs with are resolved from the settings and the case that were checked.
THEOREM LimitsInvariance == Spec => []LimitsInv
<1>1. Init => LimitsInv
  BY DEF Init, CaseInit, LimitsInv
<1>2. ArgumentsInv /\ RunPlanInv /\ LimitsInv /\ [Next]_vars => LimitsInv'
  BY LimitsNext
<1> QED
  BY <1>1, <1>2, ArgumentsInvariance, RunPlanInvariance, PTL DEF Spec

LEMMA AmountsFacts ==
  ASSUME NEW S
  PROVE  /\ Amounts(S) = {} <=> S = {}
         /\ S \subseteq Whole => Amounts(S) \subseteq Int
<1>1. \A t \in Whole : Amount(t) \in Int
  BY DEF Whole, Amount
<1> QED
  BY <1>1 DEF Amounts

\* The limit of one equation.
LEMMA LimitFacts ==
  ASSUME NEW s, NEW d, NEW e \in Equations, ~ EquationRefused(s, d, e)
  PROVE  LET given == Amounts(FromLine(s, e, "maxIter"))
             limit == Or(LimitOf(s, d, e), {LinearCap})
         IN  IF given # {} THEN limit = given ELSE \A n \in limit : n <= LinearCap
<1> DEFINE line == FromLine(s, e, "maxIter")
           entry == d.linear[e]["maxIter"]
<1>1. entry \subseteq Whole /\ ~ OverLimit(s, d, e) /\ LinearCap \in Nat
  BY CapsAssumption DEF EquationRefused
<1>2. LimitOf(s, d, e) = Amounts(Or(line, entry))
  BY DEF LimitOf
<1>3. OverLimit(s, d, e) <=> line = {} /\ \E n \in Amounts(entry) : n > LinearCap
  BY DEF OverLimit
<1> HIDE DEF line, entry
<1>4. CASE line # {}
  <2>1. Or(line, entry) = line /\ Amounts(line) # {}
    BY <1>4, AmountsFacts DEF Or
  <2> QED
    BY <1>2, <2>1 DEF Or, line
<1>5. CASE line = {}
  <2>1. Or(line, entry) = entry /\ Amounts(line) = {}
    BY <1>5, AmountsFacts DEF Or
  <2>2. Amounts(entry) \subseteq Int
    BY <1>1, AmountsFacts
  <2>3. \A n \in Amounts(entry) : n <= LinearCap
    BY <1>1, <1>3, <1>5, <2>2
  <2>4. \A n \in Or(LimitOf(s, d, e), {LinearCap}) : n <= LinearCap
    BY <1>1, <1>2, <2>1, <2>3 DEF Or
  <2> QED
    BY <2>1, <2>4 DEF line
<1> QED
  BY <1>4, <1>5

\* No dictionary brings a solve more iterations than the caps, and no dictionary outvotes the command line.
THEOREM CaseFileIsCapped == Spec => []CaseFileCapped
<1>1. ASSUME LimitsInv
      PROVE  CaseFileCapped
  <2> SUFFICES ASSUME NEW l \in limits
               PROVE  /\ \A e \in Equations :
                           LET given == Amounts(FromLine(settings, e, "maxIter"))
                           IN  IF given # {} THEN l.linear[e] = given ELSE \A n \in l.linear[e] : n <= LinearCap
                      /\ LET given == Amounts(FromLine(settings, "p", "maxIter"))
                         IN  l.gamg # {} => IF given # {} THEN l.gamg = given ELSE \A n \in l.gamg : n <= LinearCap
                      /\ settings["-maxSimpleIterations"] = {} => \A n \in l.most : n <= SimpleCap
    BY DEF CaseFileCapped
  <2>1. PICK n \in SUBSET Int : /\ l = ResolvedLimits(settings, case, n)
                                /\ ~ OptionsRefused(settings, case, n)
    BY <1>1 DEF LimitsInv
  <2>2. /\ \A e \in Equations : l.linear[e] = Or(LimitOf(settings, case, e), {LinearCap})
        /\ l.gamg = IF SolverOf(settings, case, "p") = {"GAMG"} THEN GamgLimit(settings, case) ELSE {}
        /\ l.most = SimpleMost(settings, n)
    BY <2>1 DEF ResolvedLimits
  <2>3. /\ \A e \in Equations : ~ EquationRefused(settings, case, e)
        /\ ~ SimpleRefused(settings, case, n)
    BY <2>1 DEF OptionsRefused
  <2>4. \A e \in Equations :
          LET given == Amounts(FromLine(settings, e, "maxIter"))
          IN  IF given # {} THEN l.linear[e] = given ELSE \A k \in l.linear[e] : k <= LinearCap
    BY <2>2, <2>3, LimitFacts
  <2>5. LET given == Amounts(FromLine(settings, "p", "maxIter"))
        IN  l.gamg # {} => IF given # {} THEN l.gamg = given ELSE \A k \in l.gamg : k <= LinearCap
    <3>1. "p" \in Equations
      BY DEF Equations
    <3>2. l.gamg # {} => l.gamg = l.linear["p"]
      BY <2>2, <3>1 DEF GamgLimit
    <3> QED
      BY <2>4, <3>1, <3>2
  <2>6. ASSUME settings["-maxSimpleIterations"] = {}, NEW k \in l.most
        PROVE  k <= SimpleCap
    <3>1. Amounts(settings["-maxSimpleIterations"]) = {}
      BY <2>6, AmountsFacts
    <3>2. k \in n /\ k \in Int
      BY <2>2, <2>6, <3>1 DEF SimpleMost, Or
    <3>3. ~ OverSimple(settings, n)
      BY <2>3 DEF SimpleRefused
    <3> QED
      BY <2>6, <3>2, <3>3, CapsAssumption DEF OverSimple
  <2> QED
    BY <2>4, <2>5, <2>6
<1> QED
  BY <1>1, LimitsInvariance, PTL
-----------------------------------------------------------------------------
(***************************************************************************)
(* The outputs.                                                            *)
(***************************************************************************)
OutputStages == OutputNames \cup {"planJson"}
Entries == [is : {"absent", "directory", "file"}, holds : OutputStages \cup {"nothing", "old"}, whole : BOOLEAN]

DiskType == disk \in [Places -> Entries] /\ finished \subseteq OutputStages

\* Only the output of the stage is open, and its file is torn until it is closed.
OpenAt == open # {} => /\ stage \in OutputStages /\ open = {stage} /\ Target(stage) # {}
                       /\ \A p \in Target(stage) : p \in Places /\ disk[p] = Torn(stage)

TornOpen == \A q \in Places : disk[q].is = "file" /\ ~ disk[q].whole =>
              \/ disk[q].holds \in {"plot", "old"}
              \/ \E o \in open : q \in Target(o) /\ disk[q].holds = o

\* The outputs that were asked for are written in their order.
WrittenBefore(k) == /\ \A i \in 1 .. 7 : Outputs[i] \in finished => i < k
                    /\ \A i \in 1 .. 7 : i < k /\ Target(Outputs[i]) # {} /\ Outputs[i] # "plot" => Outputs[i] \in finished
Ordered ==
  /\ stage \notin OutputStages => open = {} /\ finished = {} /\ shown = {}
  /\ \A k \in 1 .. 7 : stage = Outputs[k] => Target(Outputs[k]) # {} /\ WrittenBefore(k)
  /\ stage = "planJson" => WrittenBefore(8) \/ (~ FlowSolve /\ finished \cap OutputNames = {})
  /\ \A o \in finished \cap OutputNames : Target(o) # {}
  /\ stage \in {"dryRunAsked", "dryRun", "scalar"} => ~ FlowSolve

\* At the path of a finished output is the file of an output that goes there.
Kept == ~ interrupted =>
          \A o \in finished : \A p \in Target(o) :
            /\ p \in Places /\ disk[p].is = "file"
            /\ \E x \in finished \cup open \cup {"plot"} : p \in Target(x) /\ disk[p].holds = x

LoadsKept == /\ "loads" \in finished => \A p \in Target("loads") : p \in Places /\ disk[p] = Whole_("loads")
             /\ stage \in {"solve"} \cup OutputNames => ~ DestinationRefused

\* Where the first field is being written or was, the second one can be.
FieldReady == /\ result = "running"
              /\ \/ stage = "U" /\ open = {"U"}
                 \/ stage = "p" /\ open = {}
              => OpensAlone("p")

Ends == /\ result \in {"running", "failed", "ok"}
        /\ interrupted => result = "failed"
        /\ result = "failed" /\ ~ interrupted => open = {} /\ stage # "p"
        /\ result = "ok" => open = {} /\ stage \in {"scan", "parse", "planJson"}

OutputsInv == /\ DiskType /\ OpenAt /\ TornOpen /\ Ordered /\ Kept /\ LoadsKept /\ FieldReady /\ Ends
              /\ shown \subseteq {Whole_("csv")}

LEMMA TargetFrame ==
  ASSUME UNCHANGED settings
  PROVE  /\ \A o \in OutputStages : Target(o)' = Target(o)
         /\ DestinationRefused' = DestinationRefused
<1>1. settings' = settings
  OBVIOUS
<1>2. CsvValues' = CsvValues /\ \A n : FieldPaths(n)' = FieldPaths(n)
  BY <1>1 DEF CsvValues, FieldPaths
<1>3. ASSUME NEW o \in OutputStages
      PROVE  Target(o)' = Target(o)
  BY <1>1, <1>2 DEF Target, PathsOf
<1>4. DestinationRefused' = DestinationRefused
  <2>1. Compared \subseteq OutputStages /\ "loads" \in OutputStages
    BY DEF Compared, ComparedAll, OutputStages, OutputNames
  <2>2. PathsOf(settings["-writeFinalFields"])' = PathsOf(settings["-writeFinalFields"])
    BY <1>1
  <2>3. Compared' = Compared
    BY DEF Compared, ComparedAll
  <2> QED
    BY <1>3, <2>1, <2>2, <2>3 DEF DestinationRefused
<1> QED
  BY <1>3, <1>4

\* An output goes to one path at most, and that is on the disk unless it leaves the root.
LEMMA TargetFacts ==
  ASSUME ArgumentsType, NEW o \in OutputStages
  PROVE  /\ \A p \in Target(o) : Valid(p) => p \in Places
         /\ \A p, q \in Target(o) : p = q
<1>1. /\ settings \in [Options -> AtMostOne(Values)]
      /\ \A x \in {"-wallFaceLoadsCsv", "-solveResidualCsv", "-solveResidualPlot", "-writeFinalFields",
                   "-solveReportJson", "-solveReportMarkdown", "-planJson"} :
           settings[x] \subseteq Arguments /\ settings[x] \in AtMostOne(Values)
  BY OptionSets DEF ArgumentsType
<1>2. CsvValues \subseteq Arguments /\ \A v, w \in CsvValues : v = w
  BY <1>1, CaseRunAssumption DEF CsvValues, AtMostOne
<1>3. ASSUME NEW A, A \subseteq Arguments, \A v, w \in A : v = w
      PROVE  /\ \A p \in PathsOf(A) : Valid(p) => p \in Places
             /\ \A p, q \in PathsOf(A) : p = q
  BY <1>3, CaseRunAssumption DEF PathsOf
<1>4. ASSUME NEW n \in {"U", "p"}
      PROVE  /\ \A p \in FieldPaths(n) : Valid(p) => p \in Places
             /\ \A p, q \in FieldPaths(n) : p = q
  BY <1>1, CaseRunAssumption DEF FieldPaths, AtMostOne
<1>5. \/ \E A \in SUBSET Arguments : (\A v, w \in A : v = w) /\ Target(o) = PathsOf(A)
      \/ \E n \in {"U", "p"} : Target(o) = FieldPaths(n)
  <2>1. \A x \in {"-wallFaceLoadsCsv", "-solveResidualCsv", "-solveResidualPlot", "-writeFinalFields",
                   "-solveReportJson", "-solveReportMarkdown", "-planJson"} : \A v, w \in settings[x] : v = w
    BY <1>1 DEF AtMostOne
  <2> QED
    BY <1>1, <1>2, <2>1 DEF OutputStages, OutputNames, Target
<1> QED
  BY <1>3, <1>4, <1>5

\* The two fields go to two files of one directory.
LEMMA FieldTargets ==
  ASSUME ArgumentsType
  PROVE  /\ Target("U") = {} <=> Target("p") = {}
         /\ \A p \in Target("U"), q \in Target("p") : p # q /\ ~ Above(p, q) /\ ~ Above(q, p)
<1>1. Target("U") = FieldPaths("U") /\ Target("p") = FieldPaths("p")
  BY DEF Target
<1>2. settings["-writeFinalFields"] \subseteq Arguments /\ settings["-writeFinalFields"] \in AtMostOne(Values)
  BY OptionSets DEF ArgumentsType
<1>3. ASSUME NEW p \in Target("U"), NEW q \in Target("p")
      PROVE  p # q /\ ~ Above(p, q) /\ ~ Above(q, p)
  <2>1. PICK v \in settings["-writeFinalFields"] : p = Append(PathOf[v], "U") /\ q = Append(PathOf[v], "p")
    BY <1>1, <1>2 DEF FieldPaths, AtMostOne
  <2>2. PathOf[v] \in Seq(STRING)
    BY <1>2, CaseRunAssumption
  <2>3. Len(p) = Len(PathOf[v]) + 1 /\ Len(q) = Len(PathOf[v]) + 1 /\ Len(PathOf[v]) \in Nat
    BY <2>1, <2>2
  <2>4. p[Len(PathOf[v]) + 1] = "U" /\ q[Len(PathOf[v]) + 1] = "p"
    BY <2>1, <2>2
  <2> QED
    BY <2>3, <2>4 DEF Above
<1>4. Target("U") = {} <=> Target("p") = {}
  <2>1. \A n \in {"U", "p"} : FieldPaths(n) = {} <=> settings["-writeFinalFields"] = {}
    BY DEF FieldPaths
  <2> QED
    BY <1>1, <2>1
<1> QED
  BY <1>3, <1>4

\* Opening a file leaves every other file there.
LEMMA OpenedFacts ==
  ASSUME disk \in [Places -> Entries], NEW o \in OutputStages, NEW p \in Places, Reachable(p), disk' = Opened(o, p)
  PROVE  /\ disk' \in [Places -> Entries] /\ disk'[p] = Torn(o)
         /\ \A q \in Places : q # p /\ disk[q].is = "file" => disk'[q] = disk[q]
         /\ \A q \in Places : q # p /\ disk'[q].is = "file" => disk'[q] = disk[q]
         /\ \A q \in Places : q # p => disk'[q] = disk[q] \/ (disk'[q] = Directory /\ Above(q, p))
<1>1. DOMAIN disk = Places /\ Torn(o) \in Entries /\ Directory \in Entries
  <2>1. Torn(o) \in Entries
    BY DEF Entries, Torn
  <2>2. Directory \in Entries
    BY DEF Entries, Directory
  <2> QED
    BY <2>1, <2>2
<1>2. Torn(o).is = "file" /\ Directory.is = "directory"
  BY DEF Torn, Directory
<1>3. \A q \in Places : disk'[q] = IF q = p THEN Torn(o) ELSE IF Above(q, p) THEN Directory ELSE disk[q]
  BY <1>1 DEF Opened
<1>4. disk' \in [Places -> Entries]
  BY <1>1 DEF Opened
<1>5. \A q \in Places : Above(q, p) => disk[q].is # "file"
  BY <1>1 DEF Reachable
<1> QED
  BY <1>2, <1>3, <1>4, <1>5

\* Closing it makes it whole.
LEMMA ClosedFacts ==
  ASSUME disk \in [Places -> Entries], NEW o \in OutputStages, NEW p \in Places, NEW T, T = {p},
         disk' = [q \in DOMAIN disk |-> IF {q} = T THEN Whole_(o) ELSE disk[q]]
  PROVE  /\ disk' \in [Places -> Entries] /\ disk'[p] = Whole_(o)
         /\ \A q \in Places : q # p => disk'[q] = disk[q]
<1>1. DOMAIN disk = Places /\ Whole_(o) \in Entries
  BY DEF Entries, Whole_
<1>2. \A q \in Places : disk'[q] = IF q = p THEN Whole_(o) ELSE disk[q]
  BY <1>1
<1> QED
  BY <1>1, <1>2

\* No other output goes to the path of the loads or below it.
LEMMA LoadsAlone ==
  ASSUME ~ DestinationRefused, NEW o \in OutputNames \ {"loads"}, NEW p \in Target("loads"), NEW q \in Target(o)
  PROVE  p # q /\ ~ Above(p, q)
<1>1. o \in Compared
  BY DEF OutputNames, Compared, ComparedAll
<1> QED
  BY <1>1 DEF DestinationRefused, Collides

\* The run goes on to the next output.
LEMMA Advance ==
  ASSUME NEW n \in 0 .. 7, finished \subseteq OutputStages,
         UNCHANGED settings,
         \A i \in 1 .. 7 : Outputs[i] \in finished' => i <= n,
         \A i \in 1 .. 7 : i <= n /\ Target(Outputs[i]) # {} /\ Outputs[i] # "plot" => Outputs[i] \in finished',
         stage' = NextOutput(n)
  PROVE  /\ stage' \in OutputStages
         /\ \A k \in 1 .. 7 : stage' = Outputs[k] => n < k /\ Target(Outputs[k])' # {} /\ WrittenBefore(k)'
         /\ stage' = "planJson" => WrittenBefore(8)'
<1>1. \A i \in 1 .. 7 : Outputs[i] \in OutputStages /\ Outputs[i] # "planJson" /\ Target(Outputs[i])' = Target(Outputs[i])
  BY OutputFacts, TargetFrame DEF OutputStages, OutputNames
<1>2. \A i, j \in 1 .. 7 : Outputs[i] = Outputs[j] => i = j
  BY OutputFacts
<1>3. CASE NextOutput(n) = "planJson" /\ \A i \in 1 .. 7 : n < i => Target(Outputs[i]) = {}
  <2>1. WrittenBefore(8)'
    BY <1>1, <1>3 DEF WrittenBefore
  <2> QED
    BY <1>1, <1>3, <2>1 DEF OutputStages
<1>4. ASSUME NEW k \in 1 .. 7, n < k, NextOutput(n) = Outputs[k], Target(Outputs[k]) # {},
             \A i \in 1 .. 7 : n < i /\ i < k => Target(Outputs[i]) = {}
      PROVE  /\ stage' \in OutputStages
             /\ \A j \in 1 .. 7 : stage' = Outputs[j] => n < j /\ Target(Outputs[j])' # {} /\ WrittenBefore(j)'
             /\ stage' = "planJson" => WrittenBefore(8)'
  <2>1. WrittenBefore(k)'
    BY <1>1, <1>4 DEF WrittenBefore
  <2>2. \A j \in 1 .. 7 : stage' = Outputs[j] => j = k
    BY <1>2, <1>4
  <2> QED
    BY <1>1, <1>4, <2>1, <2>2
<1> QED
  BY <1>3, <1>4, NextOutputFacts

LEMMA OutputsStart ==
  ASSUME Init
  PROVE  OutputsInv
<1>1. /\ disk \in Disks /\ stage \in {"scan", "parse"} /\ open = {} /\ finished = {} /\ shown = {}
      /\ interrupted = FALSE /\ result = "running"
  BY DEF Init, CaseInit
<1>2. {Absent, Directory} \cup OldFiles \subseteq Entries
  <2>1. Absent \in Entries
    BY DEF Absent, Entries
  <2>2. Directory \in Entries
    BY DEF Directory, Entries
  <2>3. OldFiles \subseteq Entries
    BY DEF OldFiles, Entries
  <2> QED
    BY <2>1, <2>2, <2>3
<1>3. /\ disk \in [Places -> Entries]
      /\ \A q \in Places : disk[q].is = "file" => disk[q].holds = "old"
  <2>1. disk \in [Places -> {Absent, Directory} \cup OldFiles]
    BY <1>1 DEF Disks
  <2>2. \A d \in {Absent, Directory} \cup OldFiles : d.is = "file" => d.holds = "old"
    BY DEF Absent, Directory, OldFiles
  <2> QED
    BY <1>2, <2>1, <2>2
<1>4. stage \notin OutputStages \cup {"dryRunAsked", "dryRun", "scalar", "solve", "planJson"}
  BY <1>1 DEF OutputStages, OutputNames
<1>5. DiskType /\ OpenAt /\ TornOpen
  BY <1>1, <1>3 DEF DiskType, OpenAt, TornOpen
<1>6. Ordered
  BY <1>1, <1>4, OutputFacts DEF Ordered, OutputStages
<1>7. Kept /\ LoadsKept /\ FieldReady /\ Ends
  BY <1>1, <1>4 DEF Kept, LoadsKept, FieldReady, Ends, OutputStages
<1> QED
  BY <1>1, <1>5, <1>6, <1>7 DEF OutputsInv

\* A step before the outputs.
LEMMA Quiet ==
  ASSUME OutputsInv, result = "running", stage \notin OutputStages, UNCHANGED <<fileVars, interrupted>>,
         stage' \notin OutputNames,
         stage' \in {"planJson", "dryRunAsked", "dryRun", "scalar"} => ~ FlowSolve',
         stage' = "solve" => ~ DestinationRefused',
         result' \in {"running", "failed", "ok"},
         result' = "ok" => stage' \in {"scan", "parse", "planJson"}
  PROVE  OutputsInv'
<1>1. /\ disk' = disk /\ open' = {} /\ finished' = {} /\ shown' = {} /\ ~ interrupted' /\ finished = {}
  BY DEF OutputsInv, Ordered, Ends, fileVars
<1>2. DiskType' /\ OpenAt' /\ TornOpen'
  BY <1>1 DEF OutputsInv, DiskType, OpenAt, TornOpen, fileVars
<1>3. Ordered'
  <2>1. \A k \in 1 .. 7 : stage' # Outputs[k]
    BY OutputFacts
  <2> QED
    BY <1>1, <2>1 DEF Ordered
<1>4. Kept' /\ LoadsKept'
  BY <1>1 DEF Kept, LoadsKept
<1>5. FieldReady'
  BY DEF FieldReady, OutputNames
<1>6. Ends'
  BY <1>1 DEF Ends, OutputNames
<1> QED
  BY <1>1, <1>2, <1>3, <1>4, <1>5, <1>6 DEF OutputsInv

LEMMA EarlyOutputs ==
  ASSUME ArgumentsInv, ArgumentsInv', OutputsInv,
         ScanArguments \/ Dispatch \/ ParseArguments \/ Plan \/ AskDryRun \/ DryRun
           \/ SolveScalar \/ Resolve \/ CheckDestination
  PROVE  OutputsInv'
<1>1. \A s \in {"scan", "dispatch", "parse", "plan", "dryRunAsked", "dryRun", "scalar", "resolve", "destination",
                "solve"} : s \notin OutputStages
  BY DEF OutputStages, OutputNames
<1>2. "planJson" \notin OutputNames
  BY DEF OutputNames
<1>3. CASE ScanArguments \/ ParseArguments
  <2>1. /\ result = "running" /\ UNCHANGED <<fileVars, interrupted>>
        /\ stage \in {"scan", "parse"} /\ stage' \in {"scan", "dispatch", "parse", "plan"}
        /\ result' \in {"running", "failed", "ok"}
        /\ result' = "ok" => parse' = "usage"
    BY <1>3 DEF ScanArguments, ParseArguments, Running
  <2>2. result' = "ok" => stage' \in {"scan", "parse"}
    BY <2>1 DEF ArgumentsInv, ParseStage
  <2> QED
    BY <1>1, <2>1, <2>2, Quiet DEF OutputStages
<1>4. CASE Dispatch
  <2>1. /\ result = "running" /\ UNCHANGED <<fileVars, interrupted>>
        /\ stage = "dispatch" /\ stage' \in {"dispatch", "parse"}
        /\ result' \in {"running", "failed"}
    BY <1>4 DEF Dispatch, Running, Either, Goes, Fails
  <2> QED
    BY <1>1, <2>1, Quiet DEF OutputStages
<1>5. CASE Plan
  <2>1. /\ result = "running" /\ UNCHANGED <<fileVars, interrupted>> /\ stage = "plan"
        /\ \/ stage' \in {"plan", "resolve"}
           \/ settings["-runnerDryRun"] # {} /\ stage' = "dryRunAsked"
           \/ ScalarSolve /\ stage' = "scalar"
           \/ ~ FlowSolve /\ stage' = "planJson"
        /\ result' \in {"running", "failed"}
        /\ UNCHANGED argumentVars
    BY <1>5 DEF Plan, Running, Either, Goes, Fails
  <2>2. parse = "accepted" /\ ~ Conflict
    BY <2>1 DEF ArgumentsInv, ParseStage, ReadKept
  <2>3. settings["-runnerDryRun"] # {} \/ ScalarSolve => ~ FlowSolve
    BY <2>2 DEF ArgumentsInv, ParseStage, Conflict
  <2>4. FlowSolve' = FlowSolve
    BY <2>1 DEF FlowSolve, argumentVars
  <2> QED
    BY <1>1, <1>2, <2>1, <2>3, <2>4, Quiet DEF OutputStages
<1>6. CASE AskDryRun \/ DryRun \/ SolveScalar
  <2>1. /\ result = "running" /\ UNCHANGED <<fileVars, interrupted>>
        /\ stage \in {"dryRunAsked", "dryRun", "scalar"}
        /\ stage' \in {"dryRun", "scalar", "planJson"}
        /\ result' \in {"running", "failed"}
        /\ UNCHANGED argumentVars
    BY <1>6 DEF AskDryRun, DryRun, SolveScalar, Running, Either, Goes, Fails
  <2>2. ~ FlowSolve
    BY <2>1 DEF OutputsInv, Ordered
  <2>3. FlowSolve' = FlowSolve
    BY <2>1 DEF FlowSolve, argumentVars
  <2> QED
    BY <1>1, <1>2, <2>1, <2>2, <2>3, Quiet DEF OutputStages
<1>7. CASE Resolve \/ CheckDestination
  <2>1. /\ result = "running" /\ UNCHANGED <<fileVars, interrupted>>
        /\ stage \in {"resolve", "destination"}
        /\ stage' \in {"resolve", "destination", "solve"}
        /\ stage' = "solve" => ~ DestinationRefused
        /\ result' \in {"running", "failed"}
        /\ UNCHANGED settings
    BY <1>7 DEF Resolve, CheckDestination, Running, Either, Goes, Fails, argumentVars
  <2>2. DestinationRefused' = DestinationRefused
    BY <2>1, TargetFrame
  <2> QED
    BY <1>1, <2>1, <2>2, Quiet DEF OutputStages
<1> QED
  BY <1>3, <1>4, <1>5, <1>6, <1>7

LEMMA OrderedFrame ==
  ASSUME Ordered, finished \subseteq OutputStages, UNCHANGED <<settings, invocation, stage, finished>>,
         stage \notin OutputStages => UNCHANGED <<open, shown>>
  PROVE  Ordered'
<1>1. \A i \in 1 .. 7 : Outputs[i] \in OutputStages /\ Target(Outputs[i])' = Target(Outputs[i])
  BY OutputFacts, TargetFrame DEF OutputStages
<1>2. \A k : WrittenBefore(k)' = WrittenBefore(k)
  BY <1>1 DEF WrittenBefore
<1>3. FlowSolve' = FlowSolve
  BY DEF FlowSolve
<1>4. \A o \in finished : Target(o)' = Target(o)
  BY TargetFrame
<1> QED
  BY <1>1, <1>2, <1>3, <1>4 DEF Ordered

LEMMA OrderedAdvance ==
  ASSUME Ordered, NEW n \in 0 .. 7, finished \subseteq OutputStages, UNCHANGED settings,
         \A i \in 1 .. 7 : Outputs[i] \in finished' => i <= n,
         \A i \in 1 .. 7 : i <= n /\ Target(Outputs[i]) # {} /\ Outputs[i] # "plot" => Outputs[i] \in finished',
         \A o \in finished' \cap OutputNames : Target(o) # {},
         stage' = NextOutput(n)
  PROVE  Ordered'
<1>1. /\ stage' \in OutputStages
      /\ \A k \in 1 .. 7 : stage' = Outputs[k] => n < k /\ Target(Outputs[k])' # {} /\ WrittenBefore(k)'
      /\ stage' = "planJson" => WrittenBefore(8)'
  BY Advance
<1>2. \A o \in OutputNames : Target(o)' = Target(o)
  BY TargetFrame DEF OutputStages
<1>3. stage' \notin {"dryRunAsked", "dryRun", "scalar"}
  BY <1>1 DEF OutputStages, OutputNames
<1> QED
  BY <1>1, <1>2, <1>3 DEF Ordered

\* A step that writes nothing and stays where it is.
LEMMA SameFiles ==
  ASSUME OutputsInv, UNCHANGED <<settings, invocation, stage, fileVars, interrupted>>,
         result' \in {result, "failed"}, Ends'
  PROVE  OutputsInv'
<1>1. disk' = disk /\ open' = open /\ finished' = finished /\ shown' = shown /\ interrupted' = interrupted
  BY DEF fileVars
<1>2. (\A o \in OutputStages : Target(o)' = Target(o)) /\ DestinationRefused' = DestinationRefused
  BY TargetFrame
<1>3. {"loads", "p"} \subseteq OutputStages /\ finished \subseteq OutputStages
  BY DEF OutputsInv, DiskType, OutputStages, OutputNames
<1>4. DiskType' /\ OpenAt' /\ TornOpen'
  <2>1. \A x \in open : Target(x)' = Target(x)
    BY <1>2 DEF OutputsInv, OpenAt
  <2> QED
    BY <1>1, <1>2, <2>1 DEF OutputsInv, DiskType, OpenAt, TornOpen
<1>5. Ordered'
  BY <1>1, <1>3, OrderedFrame DEF OutputsInv
<1>6. Kept'
  <2>1. \A x \in finished \cup open \cup {"plot"} : Target(x)' = Target(x)
    BY <1>2, <1>3 DEF OutputsInv, OpenAt, OutputStages, OutputNames
  <2> QED
    BY <1>1, <2>1 DEF OutputsInv, Kept
<1>7. LoadsKept'
  BY <1>1, <1>2, <1>3 DEF OutputsInv, LoadsKept
<1>8. FieldReady'
  <2>1. OpensAlone("p")' = OpensAlone("p")
    BY <1>1, <1>2, <1>3 DEF OpensAlone, Replaceable, Reachable
  <2> QED
    BY <1>1, <2>1 DEF OutputsInv, FieldReady
<1> QED
  BY <1>1, <1>4, <1>5, <1>6, <1>7, <1>8 DEF OutputsInv

\* The stage of the loads has not written them.
LEMMA LoadsFirst ==
  ASSUME Ordered, "loads" \in finished
  PROVE  stage # "loads"
<1>1. Outputs[1] = "loads"
  BY OutputFacts
<1> QED
  BY <1>1 DEF Ordered, WrittenBefore

\* A place for the second field stays one while the first is opened.
LEMMA StillReplaceable ==
  ASSUME disk \in [Places -> Entries], disk' \in [Places -> Entries],
         NEW p \in Places, NEW q, Replaceable(q), q \in Places, q # p, ~ Above(p, q), ~ Above(q, p),
         \A r \in Places : r # p => disk'[r] = disk[r] \/ (disk'[r] = Directory /\ Above(r, p))
  PROVE  Replaceable(q)'
<1>1. Valid(q) /\ Reachable(q) /\ disk[q].is # "directory"
  BY DEF Replaceable
<1>2. disk'[q] = disk[q]
  OBVIOUS
<1>3. Reachable(q)'
  <2> SUFFICES ASSUME NEW r \in Places, Above(r, q)
               PROVE  disk'[r].is # "file"
    BY DEF Reachable
  <2>1. r # p /\ disk[r].is # "file"
    BY <1>1 DEF Reachable
  <2> QED
    BY <2>1 DEF Directory
<1> QED
  BY <1>1, <1>2, <1>3 DEF Replaceable

\* The file of output o is opened.
LEMMA Opening ==
  ASSUME ArgumentsType, OutputsInv, NEW o \in OutputStages, stage = o, result = "running", open = {},
         NEW p \in Target(o), Valid(p), Reachable(p), disk' = Opened(o, p), open' = {o},
         UNCHANGED <<settings, invocation, stage, result, finished, interrupted>>,
         shown' \subseteq {Whole_("csv")},
         o = "planJson" => disk[p].is = "absent",
         o = "U" => OpensAlone("p")
  PROVE  OutputsInv'
<1>1. (\A x \in OutputStages : Target(x)' = Target(x)) /\ DestinationRefused' = DestinationRefused
  BY TargetFrame
<1>2. p \in Places /\ Target(o) = {p}
  BY TargetFacts
<1>3. disk \in [Places -> Entries] /\ finished \subseteq OutputStages
  BY DEF OutputsInv, DiskType
<1>4. /\ disk' \in [Places -> Entries] /\ disk'[p] = Torn(o)
      /\ \A q \in Places : q # p /\ disk[q].is = "file" => disk'[q] = disk[q]
      /\ \A q \in Places : q # p /\ disk'[q].is = "file" => disk'[q] = disk[q]
      /\ \A q \in Places : q # p => disk'[q] = disk[q] \/ (disk'[q] = Directory /\ Above(q, p))
  BY <1>2, <1>3, OpenedFacts
<1>5. Torn(o).is = "file" /\ Torn(o).holds = o
  BY DEF Torn
<1>6. DiskType' /\ OpenAt'
  BY <1>1, <1>2, <1>3, <1>4 DEF DiskType, OpenAt
<1>7. TornOpen'
  <2> SUFFICES ASSUME NEW q \in Places, disk'[q].is = "file", ~ disk'[q].whole
               PROVE  disk'[q].holds \in {"plot", "old"} \/ (q \in Target(o) /\ disk'[q].holds = o)
    BY <1>1 DEF TornOpen
  <2> QED
    BY <1>4, <1>5 DEF OutputsInv, TornOpen
<1>8. Ordered'
  BY <1>3, OrderedFrame DEF OutputsInv
<1>9. Kept'
  <2> SUFFICES ASSUME ~ interrupted, NEW x \in finished, NEW q \in Target(x)
               PROVE  /\ q \in Places /\ disk'[q].is = "file"
                      /\ \E y \in finished \cup {o} \cup {"plot"} : q \in Target(y) /\ disk'[q].holds = y
    <3>1. \A y \in finished \cup {o} \cup {"plot"} : Target(y)' = Target(y)
      BY <1>1, <1>3 DEF OutputStages, OutputNames
    <3> QED
      BY <3>1 DEF Kept
  <2>1. /\ q \in Places /\ disk[q].is = "file"
        /\ \E y \in finished \cup {"plot"} : q \in Target(y) /\ disk[q].holds = y
    BY DEF OutputsInv, Kept
  <2> QED
    BY <1>4, <1>5, <2>1
<1>10. LoadsKept'
  <2>1. ASSUME "loads" \in finished, NEW q \in Target("loads")
        PROVE  q \in Places /\ disk'[q] = Whole_("loads")
    <3>1. q \in Places /\ disk[q] = Whole_("loads")
      BY <2>1 DEF OutputsInv, LoadsKept
    <3>2. o # "loads"
      BY <2>1, LoadsFirst DEF OutputsInv
    <3>3. q # p
      <4>1. CASE o = "planJson"
        BY <3>1, <4>1 DEF Whole_
      <4>2. CASE o \in OutputNames
        BY <3>2, <4>2, LoadsAlone DEF OutputsInv, LoadsKept
      <4> QED
        BY <4>1, <4>2 DEF OutputStages
    <3> QED
      BY <1>4, <3>1, <3>3 DEF Whole_
  <2>2. "loads" \in OutputStages
    BY DEF OutputStages, OutputNames
  <2> QED
    BY <1>1, <2>1, <2>2 DEF OutputsInv, LoadsKept
<1>11. FieldReady'
  <2> SUFFICES ASSUME o = "U", NEW q \in Target("p")
               PROVE  Replaceable(q)'
    <3>1. "p" \in OutputStages
      BY DEF OutputStages, OutputNames
    <3> QED
      BY <1>1, <3>1 DEF FieldReady, OpensAlone
  <2>1. Replaceable(q) /\ q # p /\ ~ Above(p, q) /\ ~ Above(q, p)
    BY FieldTargets DEF OpensAlone
  <2>2. q \in Places
    BY <2>1, TargetFacts DEF Replaceable, OutputStages, OutputNames
  <2> QED
    BY <1>2, <1>3, <1>4, <2>1, <2>2, StillReplaceable
<1>12. Ends'
  BY DEF OutputsInv, Ends
<1> QED
  BY <1>6, <1>7, <1>8, <1>9, <1>10, <1>11, <1>12 DEF OutputsInv

LEMMA OpenOutputStep ==
  ASSUME ArgumentsInv, OutputsInv, NEW o \in OutputNames, OpenOutput(o)
  PROVE  OutputsInv'
<1>1. /\ result = "running" /\ stage = o /\ open = {}
      /\ UNCHANGED <<settings, invocation, stage, finished, shown, interrupted>>
  BY DEF OpenOutput, AtOutput, Running, Fails, argumentVars
<1>2. o \in OutputStages /\ o # "planJson"
  BY DEF OutputStages, OutputNames
<1>3. CASE Opens(o)
  <2>1. PICK p \in Target(o) : disk' = Opened(o, p)
    BY <1>3 DEF OpenOutput
  <2>2. open' = {o} /\ result' = result
    BY <1>3 DEF OpenOutput
  <2>3. Valid(p) /\ Reachable(p) /\ (o = "U" => OpensAlone("p"))
    BY <1>3 DEF Opens, OpensAlone, Replaceable
  <2>4. shown' \subseteq {Whole_("csv")}
    BY <1>1 DEF OutputsInv
  <2> QED
    BY <1>1, <1>2, <2>1, <2>2, <2>3, <2>4, Opening DEF ArgumentsInv
<1>4. CASE ~ Opens(o)
  <2>1. result' = "failed" /\ UNCHANGED fileVars
    BY <1>1, <1>4 DEF OpenOutput, Fails, fileVars
  <2>2. o # "p"
    BY <1>1, <1>4 DEF OutputsInv, FieldReady, Opens
  <2>3. Ends'
    BY <1>1, <2>1, <2>2 DEF Ends, fileVars
  <2> QED
    BY <1>1, <2>1, <2>3, SameFiles
<1> QED
  BY <1>3, <1>4

LEMMA OpenPlotStep ==
  ASSUME ArgumentsInv, OutputsInv, OpenPlot, open' = {"plot"}
  PROVE  OutputsInv'
<1>1. /\ result = "running" /\ stage = "plot" /\ open = {}
      /\ UNCHANGED <<settings, invocation, finished, interrupted>>
      /\ PlotReads /\ OpensAlone("plot")
      /\ \E p \in Target("plot") : disk' = Opened("plot", p)
      /\ shown' = {disk[q] : q \in Target("csv")}
      /\ UNCHANGED <<stage, result>>
  BY DEF OpenPlot, AtOutput, Running, argumentVars
<1>2. PICK p \in Target("plot") : disk' = Opened("plot", p)
  BY <1>1
<1>3. Valid(p) /\ Reachable(p)
  BY <1>1, <1>2 DEF OpensAlone, Replaceable
<1>4. ASSUME NEW q \in Target("csv")
      PROVE  disk[q] = Whole_("csv")
  <2>1. disk[q].is = "file" /\ disk[q].holds = "csv"
    BY <1>1, <1>4 DEF PlotReads
  <2>2. Outputs[2] = "csv" /\ Outputs[3] = "plot"
    BY OutputFacts
  <2>3. "csv" \in finished
    BY <1>1, <1>4, <2>2 DEF OutputsInv, Ordered, WrittenBefore
  <2>4. q \in Places /\ disk \in [Places -> Entries]
    BY <1>1, <1>4, <2>3 DEF OutputsInv, Kept, Ends, DiskType
  <2>5. disk[q].whole = TRUE
    <3>1. disk[q].whole
      BY <1>1, <2>1, <2>4 DEF OutputsInv, TornOpen
    <3>2. disk[q].whole \in BOOLEAN
      BY <2>4 DEF Entries
    <3> QED
      BY <3>1, <3>2
  <2>6. disk[q] \in Entries
    BY <2>4
  <2>7. disk[q] = [is |-> disk[q].is, holds |-> disk[q].holds, whole |-> disk[q].whole]
    BY <2>6 DEF Entries
  <2> QED
    BY <2>1, <2>5, <2>7 DEF Whole_
<1>5. "plot" \in OutputStages
  BY DEF OutputStages, OutputNames
<1> QED
  BY <1>1, <1>2, <1>3, <1>4, <1>5, Opening DEF ArgumentsInv

\* The run passes by the outputs that are not written, from the solve or from the plot.
LEMMA PassBy ==
  ASSUME ArgumentsInv, OutputsInv, NEW n \in {0, 3}, stage' = NextOutput(n), result = "running",
         n = 0 => stage = "solve" /\ open = {},
         n = 3 => stage = "plot" /\ open \subseteq {"plot"},
         open' = {}, UNCHANGED <<settings, invocation, disk, finished, shown, result, interrupted>>
  PROVE  OutputsInv'
<1>1. (\A x \in OutputStages : Target(x)' = Target(x)) /\ DestinationRefused' = DestinationRefused
  BY TargetFrame
<1>2. finished \subseteq OutputStages /\ Ordered
  BY DEF OutputsInv, DiskType
<1>3. /\ \A i \in 1 .. 7 : Outputs[i] \in finished => i <= n
      /\ \A i \in 1 .. 7 : i <= n /\ Target(Outputs[i]) # {} /\ Outputs[i] # "plot" => Outputs[i] \in finished
  <2>1. CASE n = 0
    <3>1. finished = {}
      BY <1>2, <2>1 DEF Ordered, OutputStages, OutputNames
    <3> QED
      BY <2>1, <3>1
  <2>2. CASE n = 3
    <3>1. Outputs[3] = "plot" /\ WrittenBefore(3)
      BY <1>2, <2>2, OutputFacts DEF Ordered
    <3> QED
      BY <2>2, <3>1 DEF WrittenBefore
  <2> QED
    BY <2>1, <2>2
<1>4. \A o \in finished \cap OutputNames : Target(o) # {}
  BY <1>2 DEF Ordered
<1>5. Ordered'
  BY <1>2, <1>3, <1>4, OrderedAdvance
<1>6. DiskType' /\ OpenAt' /\ TornOpen'
  BY <1>2 DEF OutputsInv, DiskType, OpenAt, TornOpen
<1>7. Kept'
  <2>1. \A x \in finished \cup open \cup {"plot"} : Target(x)' = Target(x) /\ x \in finished \cup {"plot"}
    BY <1>1, <1>2 DEF OutputStages, OutputNames
  <2> QED
    BY <2>1 DEF OutputsInv, Kept
<1>8. LoadsKept'
  <2>1. ~ DestinationRefused /\ "loads" \in OutputStages
    BY DEF OutputsInv, LoadsKept, OutputNames, OutputStages
  <2> QED
    BY <1>1, <2>1 DEF OutputsInv, LoadsKept
<1>9. stage' # "p"
  <2> SUFFICES ASSUME stage' = "p"
               PROVE  FALSE
    OBVIOUS
  <2>1. Outputs[4] = "U" /\ Outputs[5] = "p"
    BY OutputFacts
  <2>2. Target("p")' # {} /\ WrittenBefore(5)'
    BY <1>5, <2>1 DEF Ordered
  <2>3. {"U", "p"} \subseteq OutputStages
    BY DEF OutputStages, OutputNames
  <2>4. Target("U") # {}
    BY <1>1, <2>2, <2>3, FieldTargets DEF ArgumentsInv
  <2>5. Outputs[4] \in finished
    BY <1>1, <2>1, <2>2, <2>3, <2>4 DEF WrittenBefore
  <2> QED
    BY <1>3, <2>5
<1>10. FieldReady' /\ Ends'
  BY <1>9 DEF FieldReady, OutputsInv, Ends
<1> QED
  BY <1>5, <1>6, <1>7, <1>8, <1>10 DEF OutputsInv

\* The file of output o is closed.
LEMMA Closing ==
  ASSUME ArgumentsType, OutputsInv, NEW o \in OutputStages, stage = o, result = "running", open = {o},
         disk' = [q \in DOMAIN disk |-> IF {q} = Target(o) THEN Whole_(o) ELSE disk[q]],
         finished' = finished \cup {o}, open' = {}, UNCHANGED <<settings, interrupted>>
  PROVE  /\ DiskType' /\ OpenAt' /\ TornOpen' /\ Kept'
         /\ "loads" \in finished' => \A p \in Target("loads")' : p \in Places /\ disk'[p] = Whole_("loads")
         /\ Target(o) # {}
         /\ o = "U" => OpensAlone("p")'
<1>1. \A x \in OutputStages : Target(x)' = Target(x)
  BY TargetFrame
<1>2. Target(o) # {} /\ (\A p \in Target(o) : p \in Places /\ disk[p] = Torn(o))
  BY DEF OutputsInv, OpenAt
<1>3. PICK p \in Places : Target(o) = {p}
  BY <1>2, TargetFacts
<1>4. disk \in [Places -> Entries] /\ finished \subseteq OutputStages
  BY DEF OutputsInv, DiskType
<1>5. /\ disk' \in [Places -> Entries] /\ disk'[p] = Whole_(o)
      /\ \A q \in Places : q # p => disk'[q] = disk[q]
  BY <1>3, <1>4, ClosedFacts
<1>6. Whole_(o).is = "file" /\ Whole_(o).holds = o /\ Whole_(o).whole
  BY DEF Whole_
<1>7. DiskType' /\ OpenAt'
  BY <1>4, <1>5 DEF DiskType, OpenAt
<1>8. TornOpen'
  <2> SUFFICES ASSUME NEW q \in Places, disk'[q].is = "file", ~ disk'[q].whole
               PROVE  disk'[q].holds \in {"plot", "old"}
    BY DEF TornOpen
  <2>1. q # p /\ disk'[q] = disk[q]
    BY <1>5, <1>6
  <2>2. disk[q].holds \in {"plot", "old"}
    BY <1>3, <2>1 DEF OutputsInv, TornOpen
  <2> QED
    BY <2>1, <2>2
<1>9. Kept'
  <2> SUFFICES ASSUME ~ interrupted, NEW x \in finished \cup {o}, NEW q \in Target(x)
               PROVE  /\ q \in Places /\ disk'[q].is = "file"
                      /\ \E y \in finished \cup {o} \cup {"plot"} : q \in Target(y) /\ disk'[q].holds = y
    <3>1. \A y \in finished \cup {o} \cup {"plot"} : Target(y)' = Target(y)
      BY <1>1, <1>4 DEF OutputStages, OutputNames
    <3> QED
      BY <3>1 DEF Kept
  <2>1. CASE q = p
    BY <1>3, <1>5, <1>6, <2>1
  <2>2. CASE q # p
    <3>1. x \in finished
      BY <1>3, <2>2
    <3>2. /\ q \in Places /\ disk[q].is = "file"
          /\ \E y \in finished \cup {o} \cup {"plot"} : q \in Target(y) /\ disk[q].holds = y
      BY <3>1 DEF OutputsInv, Kept
    <3> QED
      BY <1>5, <2>2, <3>2
  <2> QED
    BY <2>1, <2>2
<1>10. ASSUME "loads" \in finished', NEW q \in Target("loads")'
       PROVE  q \in Places /\ disk'[q] = Whole_("loads")
  <2>1. q \in Target("loads")
    BY <1>1, <1>10 DEF OutputStages, OutputNames
  <2>2. CASE o = "loads"
    BY <1>3, <1>5, <2>1, <2>2
  <2>3. CASE o # "loads"
    <3>1. "loads" \in finished
      BY <1>10, <2>3
    <3>2. q \in Places /\ disk[q] = Whole_("loads")
      BY <2>1, <3>1 DEF OutputsInv, LoadsKept
    <3>3. disk[p] = Torn(o)
      BY <1>2, <1>3
    <3>4. q # p
      BY <3>2, <3>3 DEF Torn, Whole_
    <3> QED
      BY <1>5, <3>2, <3>4
  <2> QED
    BY <2>2, <2>3
<1>11. ASSUME o = "U"
       PROVE  OpensAlone("p")'
  <2> SUFFICES ASSUME NEW q \in Target("p")
               PROVE  Replaceable(q)'
    BY <1>1 DEF OpensAlone, OutputStages, OutputNames
  <2>1. OpensAlone("p")
    BY <1>11 DEF OutputsInv, FieldReady
  <2>2. Replaceable(q) /\ q # p /\ ~ Above(p, q) /\ ~ Above(q, p)
    BY <1>3, <1>11, <2>1, FieldTargets DEF OpensAlone
  <2>3. q \in Places
    BY <2>2, TargetFacts DEF Replaceable, OutputStages, OutputNames
  <2> QED
    BY <1>4, <1>5, <2>2, <2>3, StillReplaceable
<1> QED
  BY <1>2, <1>7, <1>8, <1>9, <1>10, <1>11

LEMMA CloseOutputStep ==
  ASSUME ArgumentsInv, OutputsInv, NEW o \in OutputNames, CloseOutput(o)
  PROVE  OutputsInv'
<1> DEFINE n == Position(o)
<1>1. /\ result = "running" /\ stage = o /\ open = {o}
      /\ disk' = [q \in DOMAIN disk |-> IF {q} = Target(o) THEN Whole_(o) ELSE disk[q]]
      /\ finished' = finished \cup {o} /\ open' = {} /\ stage' = NextOutput(n)
      /\ UNCHANGED <<settings, invocation, shown, result, interrupted>>
  BY DEF CloseOutput, Running, Goes, argumentVars
<1>2. o \in OutputStages /\ n \in 1 .. 7 /\ Outputs[n] = o /\ \A i \in 1 .. 7 : Outputs[i] = o => i = n
  BY OutputFacts DEF OutputStages
<1>3. /\ DiskType' /\ OpenAt' /\ TornOpen' /\ Kept'
      /\ "loads" \in finished' => \A p \in Target("loads")' : p \in Places /\ disk'[p] = Whole_("loads")
      /\ Target(o) # {}
      /\ o = "U" => OpensAlone("p")'
  BY <1>1, <1>2, Closing DEF ArgumentsInv
<1>4. (\A x \in OutputStages : Target(x)' = Target(x)) /\ DestinationRefused' = DestinationRefused
  BY <1>1, TargetFrame
<1>5. finished \subseteq OutputStages /\ Ordered /\ WrittenBefore(n)
  BY <1>1, <1>2 DEF OutputsInv, DiskType, Ordered
<1>6. /\ \A i \in 1 .. 7 : Outputs[i] \in finished' => i <= n
      /\ \A i \in 1 .. 7 : i <= n /\ Target(Outputs[i]) # {} /\ Outputs[i] # "plot" => Outputs[i] \in finished'
  BY <1>1, <1>2, <1>5 DEF WrittenBefore
<1>7. \A x \in finished' \cap OutputNames : Target(x) # {}
  BY <1>1, <1>3, <1>5 DEF Ordered
<1>8. Ordered'
  <2> HIDE DEF n
  <2>1. n \in 0 .. 7
    BY <1>2
  <2> QED
    BY <1>1, <1>5, <1>6, <1>7, <2>1, OrderedAdvance
<1>9. LoadsKept'
  BY <1>1, <1>3, <1>4 DEF OutputsInv, LoadsKept
<1>10. ASSUME stage' = "p"
       PROVE  o = "U"
  <2>1. Outputs[4] = "U" /\ Outputs[5] = "p"
    BY OutputFacts
  <2>2. Target("p")' # {} /\ WrittenBefore(5)'
    BY <1>8, <1>10, <2>1 DEF Ordered
  <2>3. {"U", "p"} \subseteq OutputStages
    BY DEF OutputStages, OutputNames
  <2>4. Target("U") # {}
    BY <1>4, <2>2, <2>3, FieldTargets DEF ArgumentsInv
  <2>5. Outputs[4] \in finished' /\ Outputs[n] \in finished'
    BY <1>1, <1>2, <1>4, <2>1, <2>2, <2>3, <2>4 DEF WrittenBefore
  <2>6. n < 5
    BY <1>2, <2>2, <2>5 DEF WrittenBefore
  <2>7. 4 <= n
    BY <1>6, <2>5
  <2> QED
    BY <1>2, <2>1, <2>6, <2>7
<1>11. FieldReady' /\ Ends'
  BY <1>1, <1>3, <1>10 DEF FieldReady, OutputsInv, Ends
<1>12. shown' \subseteq {Whole_("csv")}
  BY <1>1 DEF OutputsInv
<1> QED
  BY <1>3, <1>8, <1>9, <1>11, <1>12 DEF OutputsInv

LEMMA PlanFileStep ==
  ASSUME ArgumentsInv, OutputsInv, OpenPlan \/ ClosePlan
  PROVE  OutputsInv'
<1>1. "planJson" \in OutputStages /\ "planJson" \notin OutputNames
  BY DEF OutputStages, OutputNames
<1>2. /\ result = "running" /\ stage = "planJson"
      /\ UNCHANGED <<settings, invocation, stage, shown, interrupted>>
  BY DEF OpenPlan, ClosePlan, Running, Fails, argumentVars
<1>3. shown' \subseteq {Whole_("csv")}
  BY <1>2 DEF OutputsInv
<1>4. CASE OpenPlan
  <2>1. open = {} /\ finished' = finished
    BY <1>4 DEF OpenPlan
  <2>2. PICK p \in Target("planJson") :
          IF CreatesNew(p) THEN /\ disk' = Opened("planJson", p)
                                /\ open' = {"planJson"}
                                /\ UNCHANGED <<stage, result>>
          ELSE Fails /\ UNCHANGED <<disk, open>>
    BY <1>4 DEF OpenPlan
  <2>3. CASE CreatesNew(p)
    <3>1. Valid(p) /\ Reachable(p) /\ disk[p].is = "absent"
      BY <2>3 DEF CreatesNew
    <3> QED
      BY <1>1, <1>2, <1>3, <2>1, <2>2, <2>3, <3>1, Opening DEF ArgumentsInv
  <2>4. CASE ~ CreatesNew(p)
    <3>1. result' = "failed" /\ UNCHANGED fileVars
      BY <1>2, <2>1, <2>2, <2>4 DEF Fails, fileVars
    <3>2. Ends'
      BY <1>2, <2>1, <3>1 DEF Ends, fileVars
    <3> QED
      BY <1>2, <3>1, <3>2, SameFiles
  <2> QED
    BY <2>3, <2>4
<1>5. CASE ClosePlan
  <2>1. /\ disk' = [q \in DOMAIN disk |-> IF {q} = Target("planJson") THEN Whole_("planJson") ELSE disk[q]]
        /\ finished' = finished \cup {"planJson"} /\ open' = {} /\ result' = "ok"
        /\ open = {"planJson"} \/ Target("planJson") = {}
    BY <1>5 DEF ClosePlan
  <2>2. (\A x \in OutputStages : Target(x)' = Target(x)) /\ DestinationRefused' = DestinationRefused
    BY <1>2, TargetFrame
  <2>3. disk \in [Places -> Entries] /\ finished \subseteq OutputStages
    BY DEF OutputsInv, DiskType
  <2>4. /\ DiskType' /\ OpenAt' /\ TornOpen' /\ Kept'
        /\ "loads" \in finished' => \A p \in Target("loads")' : p \in Places /\ disk'[p] = Whole_("loads")
    <3>1. CASE open = {"planJson"}
      BY <1>1, <1>2, <2>1, <3>1, Closing DEF ArgumentsInv
    <3>2. CASE Target("planJson") = {}
      <4>1. open = {}
        BY <1>2, <3>2 DEF OutputsInv, OpenAt
      <4>2. disk' = disk
        <5>1. \A q : {q} # Target("planJson")
          BY <3>2
        <5> QED
          BY <2>1, <2>3, <5>1
      <4>3. DiskType' /\ OpenAt' /\ TornOpen'
        BY <1>1, <2>1, <2>3, <4>1, <4>2 DEF OutputsInv, DiskType, OpenAt, TornOpen
      <4>4. Kept'
        <5>1. \A x \in finished \cup {"plot", "planJson"} : Target(x)' = Target(x)
          BY <2>2, <2>3 DEF OutputStages, OutputNames
        <5> QED
          BY <1>2, <2>1, <3>2, <4>1, <4>2, <5>1 DEF OutputsInv, Kept
      <4>5. "loads" \in finished' => \A p \in Target("loads")' : p \in Places /\ disk'[p] = Whole_("loads")
        BY <2>1, <2>2, <4>2 DEF OutputsInv, LoadsKept, OutputStages, OutputNames
      <4> QED
        BY <4>3, <4>4, <4>5
    <3> QED
      BY <2>1, <3>1, <3>2
  <2>5. Ordered'
    <3>1. \A i \in 1 .. 7 : /\ Outputs[i] \in OutputNames
                            /\ Target(Outputs[i])' = Target(Outputs[i])
                            /\ Outputs[i] \in finished' <=> Outputs[i] \in finished
      BY <1>1, <2>1, <2>2, OutputFacts DEF OutputStages
    <3>2. WrittenBefore(8)' = WrittenBefore(8)
      BY <3>1 DEF WrittenBefore
    <3>3. finished' \cap OutputNames = finished \cap OutputNames
      BY <1>1, <2>1
    <3>4. FlowSolve' = FlowSolve
      BY <1>2 DEF FlowSolve
    <3>5. \A k \in 1 .. 7 : stage' # Outputs[k]
      BY <1>1, <1>2, <3>1
    <3>6. \A o \in finished' \cap OutputNames : Target(o)' # {}
      BY <2>2, <3>3 DEF OutputsInv, Ordered, OutputStages
    <3>7. stage' \in OutputStages /\ stage' \notin {"dryRunAsked", "dryRun", "scalar"}
      BY <1>1, <1>2
    <3> QED
      BY <1>2, <3>2, <3>3, <3>4, <3>5, <3>6, <3>7 DEF OutputsInv, Ordered
  <2>6. LoadsKept'
    BY <1>1, <1>2, <2>2, <2>4 DEF OutputsInv, LoadsKept, OutputNames
  <2>7. FieldReady' /\ Ends'
    BY <1>2, <2>1 DEF FieldReady, OutputsInv, Ends
  <2> QED
    BY <1>3, <2>4, <2>5, <2>6, <2>7 DEF OutputsInv
<1> QED
  BY <1>4, <1>5

LEMMA InterruptStep ==
  ASSUME ArgumentsInv, OutputsInv, Interrupt
  PROVE  OutputsInv'
<1>1. /\ interrupted' = TRUE /\ result' = "failed" /\ result = "running"
      /\ UNCHANGED <<settings, invocation, stage, open, finished, shown>>
  BY DEF Interrupt, argumentVars
<1>2. \/ disk' = disk
      \/ /\ open = {} /\ result = "running" /\ stage \in OutputNames
         /\ \E p \in Target(stage) : disk' = [disk EXCEPT ![p] = Absent]
  BY OutputFacts DEF Interrupt, AtOutput, Running
<1>3. (\A x \in OutputStages : Target(x)' = Target(x)) /\ DestinationRefused' = DestinationRefused
  BY <1>1, TargetFrame
<1>4. disk \in [Places -> Entries] /\ finished \subseteq OutputStages
  BY DEF OutputsInv, DiskType
<1>5. /\ disk' \in [Places -> Entries]
      /\ \A q \in Places : disk'[q] = disk[q] \/ disk'[q] = Absent
  <2>1. Absent \in Entries
    BY DEF Absent, Entries
  <2> QED
    BY <1>2, <1>4, <2>1
<1>6. DiskType'
  BY <1>1, <1>4, <1>5 DEF DiskType
<1>7. OpenAt'
  BY <1>1, <1>2, <1>3 DEF OutputsInv, OpenAt
<1>8. TornOpen'
  <2>1. \A x \in open : Target(x)' = Target(x)
    BY <1>3 DEF OutputsInv, OpenAt
  <2> QED
    BY <1>1, <1>5, <2>1 DEF OutputsInv, TornOpen, Absent
<1>9. Ordered'
  BY <1>1, <1>4, OrderedFrame DEF OutputsInv
<1>10. LoadsKept'
  <2>1. ASSUME "loads" \in finished, NEW q \in Target("loads")
        PROVE  q \in Places /\ disk'[q] = Whole_("loads")
    <3>1. q \in Places /\ disk[q] = Whole_("loads")
      BY <2>1 DEF OutputsInv, LoadsKept
    <3>2. stage # "loads"
      BY <2>1, LoadsFirst DEF OutputsInv
    <3>3. stage \in OutputNames => \A p \in Target(stage) : q # p
      BY <3>2, LoadsAlone DEF OutputsInv, LoadsKept
    <3> QED
      BY <1>2, <1>4, <3>1, <3>3
  <2>2. "loads" \in OutputStages
    BY DEF OutputStages, OutputNames
  <2> QED
    BY <1>1, <1>3, <2>1, <2>2 DEF OutputsInv, LoadsKept
<1>11. Kept' /\ FieldReady' /\ Ends' /\ shown' \subseteq {Whole_("csv")}
  BY <1>1 DEF Kept, FieldReady, Ends, OutputsInv
<1> QED
  BY <1>6, <1>7, <1>8, <1>9, <1>10, <1>11 DEF OutputsInv

LEMMA OutputsNext ==
  ASSUME ArgumentsInv, ArgumentsInv', OutputsInv, [Next]_vars
  PROVE  OutputsInv'
<1>1. CASE Ended \/ UNCHANGED vars
  <2>1. UNCHANGED <<settings, invocation, stage, fileVars, interrupted, result>>
    BY <1>1 DEF Ended, vars, caseVars, argumentVars
  <2>2. Ends'
    BY <2>1 DEF OutputsInv, Ends, fileVars
  <2> QED
    BY <2>1, <2>2, SameFiles
<1>2. CASE Solve
  <2>1. /\ result = "running" /\ stage = "solve" /\ stage' = NextOutput(0)
        /\ UNCHANGED <<settings, invocation, fileVars, result, interrupted>>
    BY <1>2 DEF Solve, Running, Goes, argumentVars
  <2>2. open = {}
    BY <2>1 DEF OutputsInv, Ordered, OutputStages, OutputNames
  <2> QED
    BY <2>1, <2>2, PassBy DEF fileVars
<1>3. CASE OpenPlot
  <2>1. CASE open' = {"plot"}
    BY <1>3, <2>1, OpenPlotStep
  <2>2. CASE open' # {"plot"}
    <3>1. Position("plot") = 3
      BY OutputFacts
    <3>2. /\ result = "running" /\ stage = "plot" /\ open = {} /\ open' = {} /\ stage' = NextOutput(3)
          /\ UNCHANGED <<settings, invocation, disk, finished, shown, result, interrupted>>
      BY <1>3, <2>2, <3>1 DEF OpenPlot, AtOutput, Running, Goes, argumentVars
    <3> QED
      BY <3>2, PassBy
  <2> QED
    BY <2>1, <2>2
<1>4. CASE LosePlot
  <2>1. Position("plot") = 3
    BY OutputFacts
  <2>2. /\ result = "running" /\ stage = "plot" /\ open = {"plot"} /\ open' = {} /\ stage' = NextOutput(3)
        /\ UNCHANGED <<settings, invocation, disk, finished, shown, result, interrupted>>
    BY <1>4, <2>1 DEF LosePlot, Running, Goes, argumentVars
  <2> QED
    BY <2>2, PassBy
<1> QED
  BY <1>1, <1>2, <1>3, <1>4, EarlyOutputs, OpenOutputStep, CloseOutputStep, PlanFileStep, InterruptStep, OutputFacts
     DEF Next

\* The outputs are written in their order, and at the path of each finished one is a file that
\* was asked for there.
THEOREM OutputsInvariance == Spec => []OutputsInv
<1>1. Init => OutputsInv
  BY OutputsStart
<1>2. ArgumentsInv /\ ArgumentsInv' /\ OutputsInv /\ [Next]_vars => OutputsInv'
  BY OutputsNext
<1> QED
  BY <1>1, <1>2, ArgumentsInvariance, PTL DEF Spec

\* A run that ends well leaves the files that were asked for, the loads are never lost, and
\* the plot shows nothing but a whole file of residuals.
THEOREM OutputsAreKept == Spec => []OutputsKept
<1>1. ASSUME ArgumentsInv, OutputsInv
      PROVE  OutputsKept
  <2>1. "loads" \in finished => \A p \in Target("loads") : disk[p] = Whole_("loads")
    BY <1>1 DEF OutputsInv, LoadsKept
  <2>2. ASSUME result = "ok", FlowSolve, NEW o \in OutputNames \ {"plot"}, NEW p \in Target(o)
        PROVE  /\ o \in finished
               /\ disk[p].whole \/ disk[p].holds = "plot"
               /\ \E x \in finished \cup {"plot"} : p \in Target(x) /\ disk[p].holds = x
    <3>1. open = {} /\ ~ interrupted /\ stage \in {"scan", "parse", "planJson"}
      BY <1>1, <2>2 DEF OutputsInv, Ends
    <3>2. stage = "planJson"
      BY <1>1, <2>2, <3>1 DEF ArgumentsInv, ParseStage
    <3>3. WrittenBefore(8) /\ finished \subseteq OutputStages
      BY <1>1, <2>2, <3>2 DEF OutputsInv, Ordered, DiskType
    <3>4. o \in finished
      BY <2>2, <3>3, OutputFacts DEF WrittenBefore
    <3>5. /\ p \in Places /\ disk[p].is = "file"
          /\ \E x \in finished \cup {"plot"} : p \in Target(x) /\ disk[p].holds = x
      BY <1>1, <2>2, <3>1, <3>4 DEF OutputsInv, Kept
    <3>6. disk[p].holds # "old"
      BY <3>3, <3>5 DEF OutputStages, OutputNames
    <3>7. disk[p].whole \/ disk[p].holds = "plot"
      BY <1>1, <3>1, <3>5, <3>6 DEF OutputsInv, TornOpen
    <3> QED
      BY <3>4, <3>5, <3>7
  <2> QED
    BY <1>1, <2>1, <2>2, OutputFacts DEF OutputsKept, OutputsInv
<1> QED
  BY <1>1, ArgumentsInvariance, OutputsInvariance, PTL

\* Unless the run is killed the two fields are written both or not at all, and a run that
\* fails leaves no file torn but perhaps that of the plot.
THEOREM FieldsAreTogether == Spec => []FieldsTogether
<1>1. ASSUME ArgumentsInv, OutputsInv
      PROVE  FieldsTogether
  <2> SUFFICES ASSUME ~ interrupted
               PROVE  /\ stage \notin {"U", "p"} \/ result # "running" => ({"U", "p"} \cap finished \in {{}, {"U", "p"}})
                      /\ result = "failed" => \A q \in DOMAIN disk :
                           disk[q].is = "file" /\ ~ disk[q].whole => disk[q].holds \in {"plot", "old"}
    BY DEF FieldsTogether
  <2>1. Outputs[4] = "U" /\ Outputs[5] = "p"
    BY OutputFacts
  <2>2. Ordered
    BY <1>1 DEF OutputsInv
  <2>3. ASSUME NEW k \in 1 .. 8, WrittenBefore(k), k # 5
        PROVE  {"U", "p"} \cap finished \in {{}, {"U", "p"}}
    <3>1. CASE k <= 4
      BY <2>1, <2>3, <3>1 DEF WrittenBefore
    <3>2. CASE k >= 6
      <4>1. /\ Target("U") # {} => "U" \in finished
            /\ Target("p") # {} => "p" \in finished
        BY <2>1, <2>3, <3>2 DEF WrittenBefore
      <4>2. \A o \in {"U", "p"} \cap finished : Target(o) # {}
        BY <2>2 DEF Ordered, OutputNames
      <4>3. "U" \in finished <=> "p" \in finished
        BY <1>1, <4>1, <4>2, FieldTargets DEF ArgumentsInv
      <4> QED
        BY <4>3
    <3> QED
      BY <2>3, <3>1, <3>2
  <2>4. ASSUME stage \notin {"U", "p"} \/ result # "running"
        PROVE  {"U", "p"} \cap finished \in {{}, {"U", "p"}}
    <3>1. stage # "p"
      BY <1>1, <2>4 DEF OutputsInv, Ends
    <3>2. CASE stage \notin OutputStages
      BY <2>2, <3>2 DEF Ordered
    <3>3. CASE stage = "planJson"
      BY <2>2, <2>3, <3>3 DEF Ordered, OutputNames
    <3>4. CASE stage \in OutputNames
      <4>1. PICK k \in 1 .. 7 : stage = Outputs[k]
        BY <3>4, OutputFacts
      <4>2. WrittenBefore(k) /\ k # 5
        BY <2>1, <2>2, <3>1, <4>1 DEF Ordered
      <4> QED
        BY <2>3, <4>2
    <3> QED
      BY <3>2, <3>3, <3>4 DEF OutputStages
  <2>5. result = "failed" => \A q \in DOMAIN disk :
          disk[q].is = "file" /\ ~ disk[q].whole => disk[q].holds \in {"plot", "old"}
    BY <1>1 DEF OutputsInv, Ends, TornOpen, DiskType
  <2> QED
    BY <2>4, <2>5
<1> QED
  BY <1>1, ArgumentsInvariance, OutputsInvariance, PTL
=============================================================================
