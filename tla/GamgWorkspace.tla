--------------------------- MODULE GamgWorkspace ---------------------------
(***************************************************************************)
(* The multigrid workspace of linear/gamg.rs over a sequence of solves:    *)
(* one hierarchy of levels whose matrices, right-hand sides, corrections   *)
(* and residuals are allocated once and reused, by solves whose matrix has *)
(* other coefficients each time and that may fail at any fallible step.    *)
(*                                                                         *)
(* A vector is what it was computed from.  A matrix is a version, the      *)
(* values of a level are the version they were agglomerated from, and a    *)
(* work buffer is a member of a set when the current V-cycle has computed  *)
(* it from buffers that the current V-cycle computed; when a cycle begins  *)
(* the sets are empty, although the arrays keep their old numbers.  A      *)
(* residual norm is a level of a small scale.  Level 0 is the finest.      *)
(***************************************************************************)
EXTENDS Integers

CONSTANTS
  Coarsest,      \* the coarsest level
  Matrices,      \* versions of the coefficients
  Options,       \* the GamgOptions a workspace may be built with
  Controls,      \* the controls a solve may be called with
  MaxResidual,   \* bound on the residual scale
  MaxSolves      \* bound on the number of solves

ASSUME GamgAssumption ==
  /\ Coarsest \in Nat \ {0}
  /\ Matrices \subseteq Nat \ {0}
  /\ Options \subseteq [flexible : BOOLEAN, cacheAgglomeration : BOOLEAN, interpolate : BOOLEAN,
                        scale : BOOLEAN, nPreSweeps : Nat, preMultiplier : Nat, maxPreSweeps : Nat]
  /\ Controls \subseteq [min : Nat, max : Nat, tolerance : Nat, reduction : Nat, strict : BOOLEAN]
  /\ MaxResidual \in Nat
  /\ MaxSolves \in Nat

VARIABLES
  options,      \* the options the workspace was built with
  hierarchy,    \* the matrix whose coefficients the agglomeration was made from
  values,       \* matrices: per level, the version of its values (0: of no single version)
  diagonals,    \* diagonal_values: the same for the cached diagonals
  sources,      \* the levels whose source is of this cycle
  corrections,  \* the levels whose correction is of this cycle
  residuals,    \* the levels whose residual is of this cycle; 0: it is that of the solution
  dropped,      \* the levels whose pre-smoothing this cycle has overwritten
  fcg,          \* the buffers of the flexible CG outer iteration
  hasSolved,    \* has_solved
  pc,           \* the phase of the running solve, idle between solves
  level,        \* the level the running loop is at
  call,         \* the arguments of the running solve
  initial,      \* its initial residual norm
  residual,     \* its current residual norm
  iteration,    \* its current iteration
  sound,        \* whether all it has read was its own
  result,       \* what the last solve returned
  solves        \* the number of solves so far

workspace == <<hierarchy, values, diagonals, hasSolved>>
buffers == <<sources, corrections, residuals, dropped>>
progress == <<level, initial, residual, iteration, sound>>
vars == <<options, workspace, buffers, fcg, pc, progress, call, result, solves>>

Levels == 0 .. Coarsest
Scale == 0 .. MaxResidual
InCycle == {"down", "coarsest", "up", "finest"}
Iterating == {"cycle", "check", "step", "advance"} \cup InCycle

\* residual: fcg_residual is that of the solution; lent: taken out for a V-cycle;
\* previous: the iteration of this solve that stored the previous direction, 0 if none did.
FcgAtRest == [residual |-> FALSE, lent |-> FALSE, previous |-> 0]
NoResult == [status |-> "none"]
Failed == [status |-> "error"]

Init == /\ options \in Options
        /\ hierarchy \in Matrices
        /\ values = [l \in Levels |-> hierarchy]
        /\ diagonals = values
        /\ sources = {} /\ corrections = {} /\ residuals = {} /\ dropped = {}
        /\ fcg = FcgAtRest
        /\ hasSolved = FALSE
        /\ pc = "idle"
        /\ level = 0
        /\ \E c \in Controls :
             call = [matrix |-> hierarchy, controls |-> c, afterSuccess |-> FALSE]
        /\ initial = 0 /\ residual = 0 /\ iteration = 0
        /\ sound = TRUE
        /\ result = NoResult
        /\ solves = 0

\* The solve returns; no cycle is current any more.
Return(r) == /\ result' = r
             /\ pc' = "idle"
             /\ level' = 0
             /\ initial' = 0 /\ residual' = 0 /\ iteration' = 0
             /\ sound' = TRUE
             /\ sources' = {} /\ corrections' = {} /\ residuals' = {} /\ dropped' = {}
             /\ UNCHANGED <<options, call, solves>>

Report(termination, iterations, norm) ==
  [status |-> "ok", termination |-> termination, iterations |-> iterations, residual |-> norm,
   initial |-> initial, sound |-> sound, controls |-> call.controls]

Ok(termination, iterations, norm) == /\ Return(Report(termination, iterations, norm))
                                     /\ hasSolved' = TRUE
                                     /\ UNCHANGED <<hierarchy, values, diagonals>>

Fail == Return(Failed)
-----------------------------------------------------------------------------
(***************************************************************************)
(* The start of a solve: the arguments are checked before anything is      *)
(* written, the hierarchy is rebuilt if it is not to be cached, and the    *)
(* coefficients of every level are refreshed from the finest down.         *)
(***************************************************************************)

Rebuilds == ~options.cacheAgglomeration /\ hasSolved

Solve(m, c) == /\ pc = "idle"
               /\ solves < MaxSolves
               /\ solves' = solves + 1
               /\ call' = [matrix |-> m, controls |-> c,
                           afterSuccess |-> result.status = "ok"]
               /\ pc' = IF Rebuilds THEN "rebuild" ELSE "refresh"
               /\ result' = NoResult
               /\ UNCHANGED <<options, workspace, buffers, fcg, progress>>

\* The validation of the arguments fails, or the sparsity is another one and stays so.
Reject == /\ pc = "idle"
          /\ solves < MaxSolves
          /\ solves' = solves + 1
          /\ result' = Failed
          /\ UNCHANGED <<options, workspace, buffers, fcg, pc, progress, call>>

\* The new workspace replaces the old one as a whole.
Rebuild == /\ pc = "rebuild"
           /\ hierarchy' = call.matrix
           /\ values' = [l \in Levels |-> call.matrix]
           /\ diagonals' = values'
           /\ fcg' = FcgAtRest
           /\ hasSolved' = FALSE
           /\ pc' = "refresh"
           /\ UNCHANGED <<options, buffers, progress, call, result, solves>>

RebuildFails == /\ pc = "rebuild"
                /\ Fail
                /\ UNCHANGED <<workspace, fcg>>

\* A level cleared and not filled again.
RefreshedUnset(l) == 0

\* Every level takes its values from the next finer one, the finest from the solve's matrix.
RefreshedFrom(l) == IF l = 0 THEN call.matrix ELSE values[l - 1]

\* Going on with the coarsest level.
RefreshEnds(l) == Coarsest

NextRefreshed(l) == l + 1

RefreshLevel == /\ pc = "refresh"
                /\ values' = [values EXCEPT ![level] = RefreshedFrom(level)]
                /\ diagonals' = [diagonals EXCEPT ![level] = RefreshedFrom(level)]
                /\ IF level = Coarsest
                     THEN pc' = "residual" /\ level' = 0
                     ELSE pc' = "refresh" /\ level' = NextRefreshed(level)
                /\ UNCHANGED <<options, hierarchy, buffers, fcg, hasSolved, call, initial, residual,
                               iteration, sound, result, solves>>

\* A zero or non-finite diagonal stops the refresh between two rows of a coarse level; those of the
\* finest have been checked.
RefreshFails == /\ pc = "refresh"
                /\ level > 0
                /\ values' = [values EXCEPT ![level] = RefreshedFrom(level)]
                /\ diagonals' = [diagonals EXCEPT ![level] = 0]
                /\ Fail
                /\ UNCHANGED <<hierarchy, fcg, hasSolved>>
-----------------------------------------------------------------------------
(***************************************************************************)
(* The stopping rules.  The normalised L1 kernel is strict, the L2 kernel  *)
(* is not; relTol is 1/reduction, and 0 when reduction is.                 *)
(***************************************************************************)
HasConverged(norm, first, c) ==
  IF c.strict
    THEN norm < c.tolerance \/ (c.reduction > 0 /\ c.reduction * norm < first)
    ELSE norm <= c.tolerance \/ (c.reduction > 0 /\ c.reduction * norm <= first)

StartsConverged(norm, c) == c.min = 0 /\ IF c.strict THEN norm = 0 ELSE HasConverged(norm, norm, c)

\* The limit without the minimum.
MaximumOnly(c) == IF c.max > 1 THEN c.max ELSE 1

IterationLimit(c) == CHOOSE n \in {c.max, c.min, 1} : \A k \in {c.max, c.min, 1} : k <= n

InitialResidual ==
  /\ pc = "residual"
  /\ \E norm \in Scale :
       IF StartsConverged(norm, call.controls)
         THEN /\ Return([Report("converged", 0, norm) EXCEPT !.initial = norm])
              /\ hasSolved' = TRUE
              /\ UNCHANGED <<hierarchy, values, diagonals, fcg>>
         ELSE /\ pc' = "cycle"
              /\ initial' = norm
              /\ residual' = norm
              /\ iteration' = 1
              /\ residuals' = {0}
              /\ fcg' = IF options.flexible THEN [fcg EXCEPT !.residual = ~fcg.lent, !.previous = 0]
                                            ELSE fcg
              /\ UNCHANGED <<options, workspace, sources, corrections, dropped, level,
                             sound, call, result, solves>>

\* The iteration after this one; a loop that continues without counting.
SameIteration(i) == i

NextIteration(i) == i + 1

\* The end of an iteration that leaves a residual norm and, for the next one, a direction.
Conclude(norm, direction) ==
  \/ /\ iteration >= call.controls.min
     /\ HasConverged(norm, initial, call.controls)
     /\ Ok("converged", iteration, norm)
     /\ fcg' = [fcg EXCEPT !.residual = FALSE]
  \/ /\ ~(iteration >= call.controls.min /\ HasConverged(norm, initial, call.controls))
     /\ iteration >= IterationLimit(call.controls)
     /\ Ok("maxIterations", iteration, norm)
     /\ fcg' = [fcg EXCEPT !.residual = FALSE, !.previous = direction]
  \/ /\ ~(iteration >= call.controls.min /\ HasConverged(norm, initial, call.controls))
     /\ iteration < IterationLimit(call.controls)
     /\ pc' = "cycle"
     /\ iteration' = NextIteration(iteration)
     /\ residual' = norm
     /\ residuals' = {0}
     /\ fcg' = [fcg EXCEPT !.residual = options.flexible, !.previous = direction]
     /\ UNCHANGED <<options, workspace, sources, corrections, dropped, level, initial, sound,
                    call, result, solves>>
-----------------------------------------------------------------------------
(***************************************************************************)
(* The V-cycle.  From the finest residual down to the coarsest level, an   *)
(* optional pre-smoothing on each level; then up again, each level         *)
(* injecting the correction of the coarser one and smoothing it.           *)
(***************************************************************************)
BeginCycle ==
  LET own == IF options.flexible THEN fcg.residual /\ ~fcg.lent ELSE 0 \in residuals
  IN  /\ pc = "cycle"
      /\ residuals' = IF own THEN {0} ELSE {}
      /\ sources' = IF own THEN {1} ELSE {}
      /\ corrections' = {}
      /\ dropped' = {}
      /\ fcg' = [fcg EXCEPT !.lent = options.flexible]
      /\ level' = 1
      /\ pc' = IF Coarsest = 1 THEN "coarsest" ELSE "down"
      /\ UNCHANGED <<options, workspace, initial, residual, iteration, sound, call, result,
                     solves>>

SweepCount(base, multiplier, maximum, index) ==
  IF base + multiplier * index < maximum THEN base + multiplier * index ELSE maximum

PreSweeps(l) ==
  SweepCount(options.nPreSweeps, options.preMultiplier, options.maxPreSweeps, l - 1)

\* A level that is not pre-smoothed restricts its source as it is.
Down == /\ pc = "down"
        /\ corrections' = IF level \in sources THEN corrections \cup {level} ELSE corrections
        /\ residuals' = IF PreSweeps(level) > 0 /\ level \in sources THEN residuals \cup {level}
                                                                     ELSE residuals
        /\ sources' = IF level \in sources THEN sources \cup {level + 1} ELSE sources
        /\ level' = level + 1
        /\ pc' = IF level + 1 = Coarsest THEN "coarsest" ELSE "down"
        /\ UNCHANGED <<options, workspace, dropped, fcg, initial, residual, iteration,
                       sound, call, result, solves>>

SolveCoarsest == /\ pc = "coarsest"
                 /\ corrections' = IF Coarsest \in sources THEN corrections \cup {Coarsest}
                                                           ELSE corrections
                 /\ level' = Coarsest - 1
                 /\ pc' = IF Coarsest = 1 THEN "finest" ELSE "up"
                 /\ UNCHANGED <<options, workspace, sources, residuals, dropped, fcg, initial,
                                residual, iteration, sound, call, result, solves>>

AddsPreSmoothed == options.nPreSweeps > 0

\* Interpolating a correction uses the residual of the coarser level as scratch.
ScratchOf(l) == IF options.interpolate THEN {l + 1} ELSE {}

Up == LET own == /\ level + 1 \in corrections
                 /\ level \in sources
                 /\ AddsPreSmoothed => level \in corrections
      IN  /\ pc = "up"
          /\ corrections' = IF own THEN corrections \cup {level} ELSE corrections \ {level}
          /\ residuals' = residuals \ ScratchOf(level)
          /\ dropped' = IF PreSweeps(level) > 0 /\ ~AddsPreSmoothed THEN dropped \cup {level}
                                                                    ELSE dropped
          /\ level' = level - 1
          /\ pc' = IF level = 1 THEN "finest" ELSE "up"
          /\ UNCHANGED <<options, workspace, sources, fcg, initial, residual, iteration,
                         sound, call, result, solves>>

\* The finest correction enters the solution (of the system, or of the preconditioner).
Finest == LET left == residuals \ ScratchOf(0)
          IN  /\ pc = "finest"
              /\ sound' = /\ sound
                          /\ 1 \in corrections
                          /\ options.scale => 0 \in left
              /\ corrections' = corrections \cup {0}
              /\ residuals' = left \ {0}
              /\ fcg' = [fcg EXCEPT !.lent = FALSE]
              /\ pc' = IF options.flexible THEN "step" ELSE "check"
              /\ UNCHANGED <<options, workspace, sources, dropped, level, initial, residual,
                             iteration, call, result, solves>>

\* An error leaves at once.
NotRestored(buffer) == [buffer EXCEPT !.residual = FALSE]

\* The buffers of the outer iteration go back to the workspace before an error leaves it.
Restored(buffer) == [buffer EXCEPT !.lent = FALSE, !.residual = FALSE]

\* A smoother, a scaling, an interpolation or the coarsest solve meets a non-finite value.
CycleFails == /\ pc \in InCycle
              /\ pc = "down" => PreSweeps(level) > 0
              /\ Fail
              /\ fcg' = Restored(fcg)
              /\ UNCHANGED workspace
-----------------------------------------------------------------------------
(***************************************************************************)
(* What follows a V-cycle: the residual of the new solution, or a step of  *)
(* the flexible CG iteration that the cycle preconditions.                 *)
(***************************************************************************)
Check == /\ pc = "check"
         /\ \E norm \in Scale : Conclude(norm, fcg.previous)

UsesPrevious(i) == i > 1

\* The direction, made conjugate to the previous one.
Direction == /\ pc = "step"
             /\ residual > 0
             /\ sound' = /\ sound
                         /\ UsesPrevious(iteration) =>
                              fcg.previous # 0 /\ fcg.previous + 1 = iteration
             /\ pc' = "advance"
             /\ UNCHANGED <<options, workspace, buffers, fcg, level, initial, residual, iteration, call, result, solves>>

\* A zero residual takes no step; cycles go on to the minimum.
ZeroStep == /\ pc = "step"
            /\ residual = 0
            /\ Conclude(0, fcg.previous)

\* A direction of no descent or no curvature.
Breakdown == /\ pc = "advance"
             /\ Ok("breakdown", iteration, residual)
             /\ fcg' = [fcg EXCEPT !.residual = FALSE]

Advance == /\ pc = "advance"
           /\ \E norm \in Scale : Conclude(norm, iteration)

\* The preconditioned residual, the direction, the step or the new residual is not finite.
StepFails == /\ pc \in {"step", "advance"}
             /\ Fail
             /\ fcg' = [fcg EXCEPT !.residual = FALSE]
             /\ UNCHANGED workspace
-----------------------------------------------------------------------------
Next == \/ \E m \in Matrices, c \in Controls : Solve(m, c)
        \/ Reject
        \/ Rebuild \/ RebuildFails
        \/ RefreshLevel \/ RefreshFails
        \/ InitialResidual
        \/ BeginCycle \/ Down \/ SolveCoarsest \/ Up \/ Finest \/ CycleFails
        \/ Check
        \/ Direction \/ ZeroStep \/ Breakdown \/ Advance \/ StepFails

\* A call that has begun runs on; nothing obliges the caller to make another.
Running == pc # "idle" /\ Next

Spec == Init /\ [][Next]_vars /\ WF_vars(Running)
-----------------------------------------------------------------------------
Version == Matrices \cup {0}
Call == [matrix : Matrices, controls : Controls, afterSuccess : BOOLEAN]
Solution == [status : {"ok"}, termination : {"converged", "maxIterations", "breakdown"},
             iterations : Nat, residual : Scale, initial : Scale, sound : BOOLEAN,
             controls : Controls]

WorkspaceTypes == /\ options \in Options
                  /\ hierarchy \in Matrices
                  /\ values \in [Levels -> Matrices]
                  /\ diagonals \in [Levels -> Version]
                  /\ fcg \in [residual : BOOLEAN, lent : BOOLEAN, previous : Nat]
                  /\ hasSolved \in BOOLEAN

BufferTypes == /\ sources \subseteq Levels
               /\ corrections \subseteq Levels
               /\ residuals \subseteq Levels
               /\ dropped \subseteq Levels

ProgressTypes == /\ pc \in {"idle", "rebuild", "refresh", "residual"} \cup Iterating
                 /\ level \in Levels
                 /\ initial \in Scale
                 /\ residual \in Scale
                 /\ iteration \in Nat
                 /\ sound \in BOOLEAN

TypeOK == /\ WorkspaceTypes
          /\ BufferTypes
          /\ ProgressTypes
          /\ call \in Call
          /\ result \in {NoResult, Failed} \cup Solution
          /\ solves \in 0 .. MaxSolves

\* A solve that returns a solution has computed it from its own data alone: no correction, source,
\* residual or direction of an earlier cycle, of an earlier solve or of a solve that failed half
\* way has entered it, although the workspace is never cleared.
RetrySafe == result.status = "ok" => result.sound

\* While a solve iterates, the values and the cached diagonal of every level are those of its own
\* matrix, whatever an earlier refresh left behind when it failed between two levels.
OneMatrix == pc \in Iterating =>
               \A l \in Levels : values[l] = call.matrix /\ diagonals[l] = call.matrix

\* A report says what happened: the iterations are within the limit, converged
\* means the stopping rule holds after the minimum, an exhausted limit means it does not, and only
\* a flexible step from a nonzero residual breaks down.
HonestReport ==
  result.status = "ok" =>
    LET c == result.controls
    IN  /\ result.iterations <= IterationLimit(c)
        /\ result.termination = "converged" =>
             /\ result.iterations >= c.min
             /\ \/ HasConverged(result.residual, result.initial, c)
                \/ result.iterations = 0 /\ result.residual = 0
        /\ result.termination = "maxIterations" =>
             /\ result.iterations = IterationLimit(c)
             /\ ~HasConverged(result.residual, result.initial, c)
        /\ result.termination = "breakdown" =>
             options.flexible /\ result.residual > 0 /\ result.iterations >= 1

\* With a pre-smoothing base, no cycle loses the pre-smoothing of a level: what was restricted
\* after it is also added back on the way up.
PreSmoothingKept == options.nPreSweeps > 0 => dropped = {}

\* A cached agglomeration stays for the life of the workspace; an uncached one belongs to the
\* solve's own matrix whenever the solve before it succeeded.
AgglomerationPolicy ==
  [][/\ options.cacheAgglomeration => hierarchy' = hierarchy
     /\ pc = "residual" /\ ~options.cacheAgglomeration /\ call.afterSuccess =>
          hierarchy = call.matrix]_vars

\* Every solve returns.
Returns == pc # "idle" ~> pc = "idle"
=============================================================================
