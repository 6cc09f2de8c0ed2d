-------------------------------- MODULE RunPlan --------------------------------
(***************************************************************************)
(* The run plan of a case and its dry run: controlDict (control.rs) and    *)
(* the backend policy (backends.rs) are read; the plan (solver_plan.rs)    *)
(* counts the time steps and the writes in closed form and gives every     *)
(* stage its backend; the dry run (runner.rs) goes through the steps,      *)
(* dispatches each stage and decides for itself when a write is due.       *)
(*                                                                         *)
(* Times are whole multiples of the half of a second, so quotients are     *)
(* exact.  An entry that the file may leave out is a set of at most one.   *)
(***************************************************************************)
EXTENDS Integers, Sequences, FiniteSets

CONSTANTS
  Stages,     \* BUILT_IN_RUN_STAGES, a sequence
  MostEvents  \* MAX_RUNNER_DRY_RUN_EVENTS

ASSUME RunPlanAssumption == Stages \in Seq(STRING) /\ MostEvents \in Nat

Unit == 2  \* of time, in one second
Choices == {"cpu", "gpu", "auto"}
WriteControls == {"timeStep", "runTime", "none"}

\* What controlDict and the file of the backends may say.
AtMostOne(S) == {{}} \cup {{x} : x \in S}
Controls == [startTime : AtMostOne(Int), endTime : AtMostOne(Int), deltaT : AtMostOne(Int),
             writeInterval : AtMostOne(Int), stopAt : STRING, writeControl : WriteControls]
Policies == AtMostOne([default : Choices, entries : Seq([stage : STRING, choice : Choices])])

VARIABLES
  control,  \* the time entries of controlDict
  policy,   \* the file of the backends: at most one, with a default and its sections
  plan,     \* what the plan holds: nothing yet, or one record
  most,     \* the steps a dry run is asked for at most
  step,     \* the next step of the dry run
  events,   \* what the dry run has expanded
  preview   \* "none", "counting", "expanding", "done" or "refused"

runVars == <<control, policy, plan, most, step, events, preview>>

-----------------------------------------------------------------------------
(***************************************************************************)
(* The counts of the plan.                                                 *)
(***************************************************************************)
Given(entry) == entry # {}
The(entry) == CHOOSE x \in entry : TRUE
EndTime(c) == IF c.stopAt = "endTime" THEN c.endTime ELSE {}
Duration(c) == The(c.endTime) - The(c.startTime)
Timed(c) == Given(c.startTime) /\ Given(EndTime(c)) /\ The(c.startTime) <= The(c.endTime)

\* The steps that reach the end, the last one perhaps beyond it.
EstimatedSteps(c) == {-((-Duration(c)) \div dt) : dt \in {x \in c.deltaT : x > 0 /\ Timed(c)}}

\* Every so many steps, when the interval is a whole number.
EverySteps(c) == {i \div Unit : i \in {x \in c.writeInterval : x > 0 /\ x % Unit = 0}}

EstimatedWrites(c) ==
  CASE c.writeControl = "none" -> {0}
    [] c.writeControl = "timeStep" -> {n \div k : n \in EstimatedSteps(c), k \in EverySteps(c)}
    [] c.writeControl = "runTime" ->
         {Duration(c) \div i : i \in {x \in c.writeInterval : x > 0 /\ Timed(c)}}

-----------------------------------------------------------------------------
(***************************************************************************)
(* The backends.  The last entry for a stage counts, then the default.     *)
(***************************************************************************)
CpuOnly == [default |-> "cpu", entries |-> <<>>]
Policy(p) == IF p = {} THEN CpuOnly ELSE The(p)

\* What the file names: its default and all its entries.
Named(p) == {p.default} \cup {p.entries[i].choice : i \in DOMAIN p.entries}
UsesCpu(p) == Named(p) \cap {"cpu", "auto"} # {}
\* Looking at the default alone.
UsesGpuByDefault(p) == p.default \in {"gpu", "auto"}
UsesGpu(p) == Named(p) \cap {"gpu", "auto"} # {}

EntriesFor(p, s) == {i \in DOMAIN p.entries : p.entries[i].stage = s}
BackendOf(p, s) == IF EntriesFor(p, s) = {} THEN p.default
                   ELSE p.entries[CHOOSE i \in EntriesFor(p, s) :
                                    \A j \in EntriesFor(p, s) : j <= i].choice

BuildRunPlan ==
  /\ plan = {}
  /\ LET p == Policy(policy)
     IN  plan' = {[steps   |-> EstimatedSteps(control),
                   writes  |-> EstimatedWrites(control),
                   stages  |-> [i \in DOMAIN Stages |-> BackendOf(p, Stages[i])],
                   usesCpu |-> UsesCpu(p),
                   usesGpu |-> UsesGpu(p)]}
  /\ UNCHANGED <<control, policy, most, step, events, preview>>

-----------------------------------------------------------------------------
(***************************************************************************)
(* The dry run.                                                            *)
(***************************************************************************)
\* A write is due at step k: a multiple of the interval was reached in it.
TimeDue(c, k) == \E dt \in c.deltaT, i \in c.writeInterval :
                    /\ i > 0
                    /\ (k * dt) \div i > ((k - 1) * dt) \div i
                    /\ (k * dt) \div i >= 1

WriteDue(c, k) == \/ c.writeControl = "timeStep" /\ \E n \in EverySteps(c) : k % n = 0
                  \/ c.writeControl = "runTime" /\ Given(c.startTime) /\ TimeDue(c, k)

PreviewSteps == LET n == IF Given(The(plan).steps) THEN The(The(plan).steps) ELSE 0
                IN  IF n > most THEN most ELSE n

DueWrites == {k \in 1 .. PreviewSteps : WriteDue(control, k)}

\* The events are counted before any is built.
CountedEvents == PreviewSteps * (Len(Stages) + 1) + Cardinality(DueWrites)

DryRunCount ==
  /\ plan # {} /\ preview = "counting"
  /\ preview' = IF CountedEvents > MostEvents THEN "refused" ELSE "expanding"
  /\ UNCHANGED <<control, policy, plan, most, step, events>>

\* The start of a step, its stages in their order, and its write.
StepEvents(k) ==
  <<[kind |-> "start", step |-> k, target |-> "none"]>>
  \o [i \in DOMAIN Stages |-> [kind |-> "stage", step |-> k, target |-> The(plan).stages[i]]]
  \o IF WriteDue(control, k) THEN <<[kind |-> "write", step |-> k, target |-> "none"]>> ELSE <<>>

DryRunStep ==
  /\ preview = "expanding"
  /\ step <= PreviewSteps
  /\ events' = events \o StepEvents(step)
  /\ step' = step + 1
  /\ UNCHANGED <<control, policy, plan, most, preview>>

DryRunEnd ==
  /\ preview = "expanding"
  /\ step = PreviewSteps + 1
  /\ preview' = "done"
  /\ UNCHANGED <<control, policy, plan, most, step, events>>

\* A dry run of at most n steps.
DryRunAsked(n) == /\ most' = n
                  /\ preview' = "counting"
                  /\ UNCHANGED <<control, policy, plan, step, events>>

RunPlanInit(controls, policies) ==
  /\ control \in controls
  /\ policy \in policies
  /\ plan = {}
  /\ most = 1
  /\ step = 1
  /\ events = <<>>
  /\ preview = "none"

DryRunStepping == DryRunCount \/ DryRunStep \/ DryRunEnd

-----------------------------------------------------------------------------
Truncated == Given(The(plan).steps) /\ PreviewSteps < The(The(plan).steps)
Written == {i \in DOMAIN events : events[i].kind = "write"}
Dispatched == {events[i].target : i \in {j \in DOMAIN events : events[j].kind = "stage"}}

\* The plan and the dry run are two programs that count the same thing: the closed
\* forms of build_run_plan and the loop of build_solver_runner_dry_run.  A whole dry
\* run has as many writes as the plan says when writes go by steps; when they go by
\* time, and no step jumps over a whole interval, it has one more at most, which the
\* last step makes beyond the end, and none when the steps end there.  And what it
\* dispatches to a backend is what the plan has asked resources of.
DryRunAgrees ==
  preview = "done" =>
    /\ Len(events) = CountedEvents
    /\ "gpu" \in Dispatched => The(plan).usesGpu
    /\ "cpu" \in Dispatched => The(plan).usesCpu
    /\ \A n \in The(plan).writes :
         ~ Truncated /\ Given(The(plan).steps) =>
           CASE control.writeControl = "none" -> Written = {}
             [] control.writeControl = "timeStep" -> Cardinality(Written) = n
             [] control.writeControl = "runTime" ->
                  \A dt \in control.deltaT, i \in control.writeInterval :
                     dt <= i => /\ Cardinality(Written) - n \in {0, 1}
                                /\ Duration(control) % dt = 0 => Cardinality(Written) = n

=============================================================================
