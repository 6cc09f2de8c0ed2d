----------------------------- MODULE SimpleLoop -----------------------------
(***************************************************************************)
(* The SIMPLE iteration of flow.rs (solve_laminar_simple_driven): which    *)
(* velocity, pressure, flux, continuity, diagnostics and residuals the     *)
(* report carries when an iteration is accepted, rejected at one of four   *)
(* places, or the loop runs out of iterations.                             *)
(*                                                                         *)
(* A field is named by the iteration that produced it, 0 for the initial   *)
(* one; a residual by the iteration and the pressure solve it is from.     *)
(* What arithmetic decides (a value is finite, a residual is below its     *)
(* tolerance, a linear solve converges or breaks down) is chosen freely.   *)
(* A linear solve counts as one linear iteration.                          *)
(***************************************************************************)
EXTENDS Naturals, Sequences

CONSTANTS MaxIterations,   \* bound on options.max_simple_iterations
          MaxCorrectors    \* MAX_NON_ORTHOGONAL_CORRECTORS

ASSUME MaxIterationsAssumption == MaxIterations \in Nat \ {0}
ASSUME MaxCorrectorsAssumption == MaxCorrectors \in Nat

VARIABLES
  pc,         \* what the loop does next
  options,    \* the options that steer it
  iteration,  \* the iteration it is in
  state,      \* velocity, pressure and surface_flux, carried between iterations
  final,      \* what the report will say of phi, continuity and the operators
  residuals,  \* the final_* residuals
  saved,      \* accepted_final_residuals, taken when the iteration starts
  momentum,   \* this iteration: is the momentum initial residual below tolerance
  pressure,   \* this iteration's pressure solves
  totals,     \* total linear iterations
  history,    \* the iteration summaries, in order
  stop        \* stop_reason

vars == <<pc, options, iteration, state, final, residuals, saved, momentum, pressure, totals,
          history, stop>>

Options == {o \in [max : 1 .. MaxIterations, min : 1 .. MaxIterations,
                   correctors : 0 .. MaxCorrectors, corrected : BOOLEAN,
                   u : BOOLEAN, p : BOOLEAN] : o.min <= o.max}

\* One pressure equation too many.
SolveCountTooHigh == options.correctors + 2

\* How many pressure equations an iteration solves; the correctors count only under a
\* corrected laplacian scheme.
SolveCount == IF options.corrected THEN options.correctors + 1 ELSE 1

At(i, k) == [iteration |-> i, solve |-> k]
NoSolve == [solves |-> 0, bad |-> 0, first |-> 0, below |-> FALSE]

Init == /\ pc = "setup"
        /\ options \in Options
        /\ iteration = 0
        /\ state = [velocity |-> 0, pressure |-> 0, flux |-> 0]
        /\ final = [phi |-> 0, continuity |-> 0, gradP |-> 0, hbyA |-> 0, assembly |-> 0]
        /\ residuals = [momentum |-> 0, initial |-> At(0, 0), pressure |-> At(0, 0)]
        /\ saved = residuals
        /\ momentum = FALSE
        /\ pressure = NoSolve
        /\ totals = [momentum |-> 0, pressure |-> 0]
        /\ history = <<>>
        /\ stop = "none"

(***************************************************************************)
(* evaluate_laminar_simple_residual_control: a criterion that is not       *)
(* configured is satisfied, a configured one needs a residual below its    *)
(* tolerance.  source is the pressure solve the p criterion was given, 0   *)
(* for none.                                                               *)
(***************************************************************************)
Control(uBelow, source, pBelow) ==
  [source    |-> source,
   checked   |-> options.u \/ (options.p /\ source # 0),
   satisfied |-> /\ options.u \/ options.p
                 /\ options.u => uBelow
                 /\ options.p => (source # 0 /\ pBelow)]

Summary(accepted, after, solves, bad, control) ==
  [iteration |-> iteration, accepted |-> accepted, before |-> state.flux, after |-> after,
   solves |-> solves, bad |-> bad, control |-> control]

\* A rejected iteration: the report keeps the flux and the continuity the iteration began with.
Reject(reason, solves, bad, control) ==
  /\ final' = [final EXCEPT !.phi = state.flux, !.continuity = state.flux]
  /\ history' = Append(history, Summary(FALSE, state.flux, solves, bad, control))
  /\ stop' = reason
  /\ pc' = "finalizing"
-----------------------------------------------------------------------------
Setup == /\ pc = "setup"
         /\ pc' = "iterating"
         /\ UNCHANGED <<options, iteration, state, final, residuals, saved, momentum, pressure,
                        totals, history, stop>>

\* The momentum predictor of the next iteration, with its residual below tolerance or not.
Predict(below) ==
  /\ pc = "iterating"
  /\ iteration < options.max
  /\ iteration' = iteration + 1
  /\ saved' = residuals
  /\ momentum' = below
  /\ pressure' = NoSolve
  /\ pc' = "predicted"
  /\ UNCHANGED <<options, state, final, residuals, totals, history, stop>>

\* Its velocity or its residual is not finite.
RejectMomentum ==
  /\ pc = "predicted"
  /\ Reject("MomentumSolverInvalidState", 0, 0, Control(momentum, 0, FALSE))
  /\ UNCHANGED <<options, iteration, state, residuals, saved, momentum, pressure, totals>>

AcceptMomentum ==
  /\ pc = "predicted"
  /\ totals' = [totals EXCEPT !.momentum = @ + 1]
  /\ residuals' = [residuals EXCEPT !.momentum = iteration]
  /\ pc' = "coupling"
  /\ UNCHANGED <<options, iteration, state, final, saved, momentum, pressure, history, stop>>

\* The continuity of the predicted flux is not finite.
RejectFlux ==
  /\ pc = "coupling"
  /\ Reject("SolverInvalidState", 0, 0, Control(momentum, 0, FALSE))
  /\ UNCHANGED <<options, iteration, state, residuals, saved, momentum, pressure, totals>>

AcceptFlux ==
  /\ pc = "coupling"
  /\ pc' = "solving"
  /\ UNCHANGED <<options, iteration, state, final, residuals, saved, momentum, pressure, totals,
                 history, stop>>

\* One pressure solve, converged or stopped at its iteration limit.  The first one
\* decides the p criterion.
SolvePressure(converged, below) ==
  LET k == pressure.solves + 1
  IN  /\ pc = "solving"
      /\ pressure' = [solves |-> k,
                      bad    |-> IF converged THEN pressure.bad ELSE pressure.bad + 1,
                      first  |-> IF pressure.first = 0 THEN k ELSE pressure.first,
                      below  |-> IF pressure.first = 0 THEN below ELSE pressure.below]
      /\ totals' = [totals EXCEPT !.pressure = @ + 1]
      /\ residuals' = [residuals EXCEPT !.pressure = At(iteration, k)]
      /\ pc' = IF k = SolveCount THEN "correcting" ELSE pc
      /\ UNCHANGED <<options, iteration, state, final, saved, momentum, history, stop>>

\* A breakdown whose linear iterations are not counted.
BreakdownUncounted(below) ==
  LET k == pressure.solves + 1
  IN  /\ pc = "solving"
      /\ residuals' = [residuals EXCEPT !.initial = At(iteration, k), !.pressure = At(iteration, k)]
      /\ Reject("PressureSolverInvalidState", k, pressure.bad + 1, Control(momentum, k, below))
      /\ UNCHANGED <<options, iteration, state, saved, momentum, pressure, totals>>

\* One that breaks down: the iteration is rejected with this solve's residuals reported.
Breakdown(below) ==
  LET k == pressure.solves + 1
  IN  /\ pc = "solving"
      /\ totals' = [totals EXCEPT !.pressure = @ + 1]
      /\ residuals' = [residuals EXCEPT !.initial = At(iteration, k), !.pressure = At(iteration, k)]
      /\ Reject("PressureSolverInvalidState", k, pressure.bad + 1, Control(momentum, k, below))
      /\ UNCHANGED <<options, iteration, state, saved, momentum, pressure>>

PressureControl == Control(momentum, pressure.first, pressure.below)

\* Leaving the residuals of the rejected candidate in the report.
RejectCandidateKeeps ==
  /\ pc = "correcting"
  /\ residuals' = [residuals EXCEPT !.initial = At(iteration, pressure.first)]
  /\ Reject("SolverInvalidState", pressure.solves, pressure.bad, PressureControl)
  /\ UNCHANGED <<options, iteration, state, saved, momentum, pressure, totals>>

\* The corrected fields are not finite or not representable: everything is as before.
RejectCandidate ==
  /\ pc = "correcting"
  /\ residuals' = saved
  /\ Reject("SolverInvalidState", pressure.solves, pressure.bad, PressureControl)
  /\ UNCHANGED <<options, iteration, state, saved, momentum, pressure, totals>>

\* Converging before the least number of iterations.
ConvergedEarly(control) == control.checked /\ control.satisfied

\* laminar_simple_converged
Converged(control) == iteration >= options.min /\ control.checked /\ control.satisfied

\* Accepting a candidate without carrying its flux into the next iteration.
AcceptKeepsFlux ==
  /\ pc = "correcting"
  /\ state' = [state EXCEPT !.velocity = iteration, !.pressure = iteration]
  /\ final' = [phi |-> iteration, continuity |-> iteration, gradP |-> iteration,
               hbyA |-> iteration, assembly |-> iteration]
  /\ residuals' = [residuals EXCEPT !.initial = At(iteration, pressure.first)]
  /\ history' = Append(history, Summary(TRUE, iteration, pressure.solves, pressure.bad,
                                        PressureControl))
  /\ pc' = "iterating"
  /\ UNCHANGED <<options, iteration, saved, momentum, pressure, totals, stop>>

AcceptCandidate ==
  /\ pc = "correcting"
  /\ state' = [velocity |-> iteration, pressure |-> iteration, flux |-> iteration]
  /\ final' = [phi |-> iteration, continuity |-> iteration, gradP |-> iteration,
               hbyA |-> iteration, assembly |-> iteration]
  /\ residuals' = [residuals EXCEPT !.initial = At(iteration, pressure.first)]
  /\ history' = Append(history, Summary(TRUE, iteration, pressure.solves, pressure.bad,
                                        PressureControl))
  /\ IF Converged(PressureControl)
     THEN stop' = "Converged" /\ pc' = "finalizing"
     ELSE pc' = "iterating" /\ UNCHANGED stop
  /\ UNCHANGED <<options, iteration, saved, momentum, pressure, totals>>

\* The loop is over.
Exhausted == /\ pc = "iterating"
             /\ iteration = options.max
             /\ pc' = "finalizing"
             /\ UNCHANGED <<options, iteration, state, final, residuals, saved, momentum,
                            pressure, totals, history, stop>>

Finalize == /\ pc = "finalizing"
            /\ pc' = "done"
            /\ stop' = IF stop # "none" THEN stop
                       ELSE IF ~options.u /\ ~options.p THEN "ConvergenceCriteriaNotConfigured"
                       ELSE "MaxIterationsReached"
            /\ UNCHANGED <<options, iteration, state, final, residuals, saved, momentum,
                           pressure, totals, history>>

\* Any evaluation between two of these points may return an error: there is no report.
Fails == /\ pc \notin {"done", "failed"}
         /\ pc' = "failed"
         /\ UNCHANGED <<options, iteration, state, final, residuals, saved, momentum, pressure,
                        totals, history, stop>>

Returned == pc \in {"done", "failed"} /\ UNCHANGED vars

Next == \/ Setup
        \/ \E below \in BOOLEAN : Predict(below)
        \/ RejectMomentum \/ AcceptMomentum
        \/ RejectFlux \/ AcceptFlux
        \/ \E below \in BOOLEAN : Breakdown(below)
        \/ \E converged, below \in BOOLEAN : SolvePressure(converged, below)
        \/ RejectCandidate \/ AcceptCandidate
        \/ Exhausted \/ Finalize \/ Fails \/ Returned

Spec == Init /\ [][Next]_vars
-----------------------------------------------------------------------------
(***************************************************************************)
(* Properties.                                                             *)
(***************************************************************************)
Tag == [iteration : 0 .. MaxIterations, solve : 0 .. MaxCorrectors + 1]

Reason == {"Converged", "MaxIterationsReached", "ConvergenceCriteriaNotConfigured",
           "MomentumSolverInvalidState", "PressureSolverInvalidState", "SolverInvalidState"}

Invalid == {"MomentumSolverInvalidState", "PressureSolverInvalidState", "SolverInvalidState"}

SummaryType ==
  [iteration : 1 .. MaxIterations, accepted : BOOLEAN,
   before : 0 .. MaxIterations, after : 0 .. MaxIterations,
   solves : 0 .. MaxCorrectors + 1, bad : 0 .. MaxCorrectors + 1,
   control : [source : 0 .. MaxCorrectors + 1, checked : BOOLEAN, satisfied : BOOLEAN]]

\* The types of the loop's variables.
TypeOK ==
  /\ pc \in {"setup", "iterating", "predicted", "coupling", "solving", "correcting",
             "finalizing", "done", "failed"}
  /\ options \in Options
  /\ iteration \in 0 .. MaxIterations
  /\ state \in [velocity : 0 .. MaxIterations, pressure : 0 .. MaxIterations,
                flux : 0 .. MaxIterations]
  /\ final \in [phi : 0 .. MaxIterations, continuity : 0 .. MaxIterations,
                gradP : 0 .. MaxIterations, hbyA : 0 .. MaxIterations,
                assembly : 0 .. MaxIterations]
  /\ {residuals, saved} \subseteq [momentum : 0 .. MaxIterations, initial : Tag, pressure : Tag]
  /\ momentum \in BOOLEAN
  /\ pressure \in [solves : 0 .. MaxCorrectors + 1, bad : 0 .. MaxCorrectors + 1,
                   first : 0 .. 1, below : BOOLEAN]
  /\ totals \in [momentum : 0 .. MaxIterations,
                 pressure : 0 .. MaxIterations * (MaxCorrectors + 1)]
  /\ history \in Seq(SummaryType) /\ Len(history) <= MaxIterations
  /\ stop \in Reason \cup {"none"}

\* The iterations accepted so far.
Accepted == IF Len(history) = 0 \/ history[Len(history)].accepted THEN Len(history) ELSE Len(history) - 1

\* Whatever stops the loop, the fields, the flux, the continuity and every diagnostic in
\* the report are those of one iteration, the last accepted one: no rejected value leaks
\* out, and nothing is from an earlier iteration (the four rejections and the acceptance).
LastAccepted ==
  /\ {state.velocity, state.pressure, state.flux} = {Accepted}
  /\ {final.phi, final.continuity, final.gradP, final.hbyA, final.assembly} = {Accepted}

\* The summaries are of the iterations 1, 2, ... in order, only the last can be a
\* rejection, and each iteration starts from the continuity the one before it ended with.
HistoryChains ==
  \A i \in 1 .. Len(history) :
    /\ history[i].iteration = i
    /\ history[i].before = i - 1
    /\ history[i].after = (IF history[i].accepted THEN i ELSE i - 1)
    /\ history[i].accepted \/ i = Len(history)

\* The i-th iteration converges.
Good(i) == /\ i >= options.min
           /\ history[i].accepted
           /\ history[i].control.checked
           /\ history[i].control.satisfied

\* A report's stop reason is what its history shows: converged at the first accepted
\* iteration, from the minimum on, whose criteria hold, and never otherwise.
StopsForAReason ==
  pc = "done" =>
    /\ stop = "Converged" <=> Good(Len(history))
    /\ \A i \in 1 .. Len(history) - 1 : ~Good(i)
    /\ stop \in Invalid <=> ~history[Len(history)].accepted
    /\ stop \in {"MaxIterationsReached", "ConvergenceCriteriaNotConfigured"} =>
         Len(history) = options.max
    /\ stop = "ConvergenceCriteriaNotConfigured" => \A i \in 1 .. Len(history) :
         ~history[i].control.checked

\* The pressure residuals are those of iteration n.
FromIteration(r, n) == /\ r.initial = At(n, IF n = 0 THEN 0 ELSE 1)
                       /\ r.pressure = At(n, IF n = 0 THEN 0 ELSE SolveCount)

\* The pressure solves of the last iteration.
LastSolves == history[Len(history)].solves

\* The final residuals: a rejected candidate and a failed predictor leave all six as the
\* last accepted iteration set them; a breakdown leaves the residuals of the solve that
\* broke down, and a flux that is not finite only the predictor's.  In every report the
\* two pressure residuals are of one iteration, the momentum residual of it or the next.
ResidualsReported ==
  pc = "done" =>
    CASE stop = "PressureSolverInvalidState" ->
           /\ residuals.momentum = Accepted + 1
           /\ residuals.initial = At(Accepted + 1, LastSolves)
           /\ residuals.pressure = residuals.initial
      [] stop = "SolverInvalidState" /\ LastSolves = 0 ->
           residuals.momentum = Accepted + 1 /\ FromIteration(residuals, Accepted)
      [] OTHER -> residuals.momentum = Accepted /\ FromIteration(residuals, Accepted)

SolvesIn(h) ==
  LET upTo[i \in 0 .. Len(h)] == IF i = 0 THEN 0 ELSE upTo[i - 1] + h[i].solves
  IN  upTo[Len(h)]

\* The totals of the report are the sums over its history, except that the predictor of
\* an iteration stopped by MomentumSolverInvalidState is in the history and not in the total.
TotalsMatchHistory ==
  pc = "done" =>
    /\ totals.pressure = SolvesIn(history)
    /\ totals.momentum = Len(history) - (IF stop = "MomentumSolverInvalidState" THEN 1 ELSE 0)

\* docs/architecture.md: the p criterion uses the first pressure solve of the iteration,
\* before any non-orthogonal corrector solve.
ControlUsesFirstSolve == \A i \in 1 .. Len(history) : history[i].control.source \in {0, 1}
=============================================================================
