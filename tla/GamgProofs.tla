----------------------------- MODULE GamgProofs -----------------------------
(***************************************************************************)
(* Proofs about the multigrid.  The workspace, for any number of levels,   *)
(* versions of the coefficients and solves: a solve reads nothing an       *)
(* earlier one left, on no level the coefficients of another matrix, and   *)
(* reports what happened.  The agglomeration that builds its levels, for   *)
(* any graph of connections, any weights and any number of cells and       *)
(* levels: every cell is in one connected aggregate, and the connections   *)
(* of a level are those of its matrix.                                     *)
(***************************************************************************)
EXTENDS GamgWorkspace, GamgPairing, TLAPS

-----------------------------------------------------------------------------
(***************************************************************************)
(* The workspace.                                                          *)
(***************************************************************************)

\* Where the loops are, and which iteration runs.
Phases == /\ pc \notin {"refresh", "down", "coarsest", "up"} => level = 0
          /\ pc \in {"down", "up"} => level \in 1 .. Coarsest - 1
          /\ pc = "coarsest" => level = Coarsest
          /\ pc = "rebuild" => ~options.cacheAgglomeration
          /\ pc = "check" => ~options.flexible
          /\ pc \in {"step", "advance"} => options.flexible
          /\ pc = "advance" => residual > 0
          /\ pc \in Iterating => iteration \in 1 .. IterationLimit(call.controls)

\* The refresh has reached the levels before its own, and all of them once it has ended.
Coefficients == /\ pc = "refresh" => \A l \in Levels :
                     l < level => values[l] = call.matrix /\ diagonals[l] = call.matrix
                /\ pc \in Iterating \cup {"residual"} => \A l \in Levels :
                     values[l] = call.matrix /\ diagonals[l] = call.matrix

\* What a V-cycle has computed when it is at a level, going down and going up.
Provenance ==
  /\ sound
  /\ pc = "cycle" => IF options.flexible THEN fcg.residual ELSE 0 \in residuals
  /\ pc \in InCycle => 0 \in residuals
  /\ pc = "down" => \A l \in 1 .. level : l \in sources /\ (l < level => l \in corrections)
  /\ pc = "coarsest" => \A l \in 1 .. Coarsest :
                          l \in sources /\ (l < Coarsest => l \in corrections)
  /\ pc = "up" => \A l \in 1 .. Coarsest : l \in sources /\ l \in corrections
  /\ pc = "finest" => 1 \in corrections

\* The buffers of the outer iteration are at home outside the cycles, and the previous direction
\* is that of the iteration before, unless the residual is zero and none is needed.
History ==
  /\ pc \notin InCycle => ~fcg.lent
  /\ pc \in Iterating /\ options.flexible /\ iteration > 1 /\ residual > 0 =>
       fcg.previous + 1 = iteration

\* Which matrix the agglomeration is from before the first cycle.
Agglomerated ==
  /\ pc = "idle" /\ result.status = "ok" => hasSolved
  /\ pc \in {"refresh", "residual"} /\ ~options.cacheAgglomeration /\ call.afterSuccess =>
       hierarchy = call.matrix

IInv == /\ TypeOK /\ Phases /\ Coefficients /\ Provenance /\ History /\ Agglomerated
        /\ PreSmoothingKept /\ RetrySafe /\ HonestReport
-----------------------------------------------------------------------------
\* The controls of the running solve are numbers.
LEMMA ControlTypes ==
  ASSUME GamgAssumption, TypeOK
  PROVE  /\ call.matrix \in Matrices
         /\ call.controls \in Controls
         /\ call.controls.min \in Nat /\ call.controls.max \in Nat
BY DEF GamgAssumption, TypeOK, Call

\* The bounds are numbers.
LEMMA Bounds ==
  ASSUME GamgAssumption
  PROVE  Coarsest \in Nat /\ Coarsest >= 1 /\ MaxResidual \in Nat /\ MaxSolves \in Nat /\ 0 \in Scale
BY DEF GamgAssumption, Scale

\* The limit is one of the three numbers and none of them is above it.
LEMMA LimitIsLargest ==
  ASSUME NEW c, c.min \in Nat, c.max \in Nat
  PROVE  /\ IterationLimit(c) \in Nat
         /\ IterationLimit(c) >= 1
         /\ IterationLimit(c) >= c.min
         /\ IterationLimit(c) >= c.max
<1>1. \E n \in {c.max, c.min, 1} : \A k \in {c.max, c.min, 1} : k <= n
  <2>1. CASE c.max >= c.min /\ c.max >= 1
    BY <2>1
  <2>2. CASE c.min >= c.max /\ c.min >= 1
    BY <2>2
  <2>3. CASE 1 >= c.max /\ 1 >= c.min
    BY <2>3
  <2> QED
    BY <2>1, <2>2, <2>3
<1>2. /\ IterationLimit(c) \in {c.max, c.min, 1}
      /\ \A k \in {c.max, c.min, 1} : k <= IterationLimit(c)
  BY <1>1 DEF IterationLimit
<1> QED
  BY <1>2

\* A level is refreshed with a version, from the solve's matrix or from the level above it.
LEMMA RefreshedTypes == ASSUME GamgAssumption, TypeOK PROVE RefreshedFrom(level) \in Matrices
<1>1. call.matrix \in Matrices
  BY ControlTypes
<1>2. level \in Levels /\ values \in [Levels -> Matrices]
  BY DEF TypeOK, WorkspaceTypes, ProgressTypes
<1>3. CASE level = 0
  BY <1>1, <1>3 DEF RefreshedFrom
<1>4. CASE level # 0
  <2>1. level - 1 \in Levels
    BY <1>2, <1>4, Bounds DEF Levels
  <2> QED
    BY <1>2, <1>4, <2>1 DEF RefreshedFrom
<1> QED
  BY <1>3, <1>4

\* A report is well formed.
LEMMA ReportTypes ==
  ASSUME GamgAssumption, TypeOK, NEW n \in Nat, NEW r \in Scale,
         NEW t \in {"converged", "maxIterations", "breakdown"}
  PROVE  /\ Report(t, n, r) \in Solution
         /\ [Report(t, n, r) EXCEPT !.initial = r] \in Solution
BY ControlTypes DEF TypeOK, ProgressTypes, Report, Solution

\* A return keeps the types, whatever it does to the workspace.
LEMMA ReturnTypes ==
  ASSUME GamgAssumption, TypeOK, NEW r \in {NoResult, Failed} \cup Solution, Return(r),
         WorkspaceTypes'
  PROVE  TypeOK'
<1>1. BufferTypes'
  BY DEF Return, BufferTypes
<1>2. ProgressTypes'
  BY Bounds DEF Return, ProgressTypes, Levels
<1> QED
  BY <1>1, <1>2 DEF TypeOK, Return

\* The initial states satisfy the invariant.
LEMMA Initially == ASSUME GamgAssumption, Init PROVE IInv
<1> USE DEF Init
<1>1. TypeOK
  <2>1. WorkspaceTypes
    BY DEF WorkspaceTypes, Version, FcgAtRest
  <2>2. BufferTypes /\ ProgressTypes
    BY Bounds DEF BufferTypes, ProgressTypes, Levels
  <2> QED
    BY <2>1, <2>2, Bounds DEF TypeOK, Call
<1>2. Phases /\ Coefficients /\ Provenance /\ History
  BY DEF Phases, Coefficients, Provenance, History, Iterating, InCycle, FcgAtRest
<1>3. Agglomerated /\ PreSmoothingKept /\ RetrySafe /\ HonestReport
  BY DEF Agglomerated, PreSmoothingKept, RetrySafe, HonestReport, NoResult
<1> QED
  BY <1>1, <1>2, <1>3 DEF IInv

\* The end of an iteration keeps the types.
LEMMA ConcludeTypes ==
  ASSUME GamgAssumption, TypeOK, NEW norm \in Scale, NEW direction \in Nat,
         Conclude(norm, direction)
  PROVE  TypeOK'
<1>0. WorkspaceTypes'
  BY DEF Conclude, Ok, Return, TypeOK, WorkspaceTypes, workspace
<1>1. CASE pc' = "cycle"
  <2>1. BufferTypes' /\ ProgressTypes'
    BY <1>1, Bounds DEF Conclude, Ok, Return, TypeOK, BufferTypes, ProgressTypes, NextIteration,
                        Levels, Iterating
  <2> QED
    BY <1>0, <1>1, <2>1 DEF Conclude, Ok, Return, TypeOK
<1>2. CASE pc' # "cycle"
  <2>1. PICK t \in {"converged", "maxIterations"} : Return(Report(t, iteration, norm))
    BY <1>2 DEF Conclude, Ok
  <2>2. Report(t, iteration, norm) \in Solution
    BY ReportTypes DEF TypeOK, ProgressTypes
  <2> QED
    BY <1>0, <2>1, <2>2, ReturnTypes
<1> QED
  BY <1>1, <1>2

\* The types are kept.
LEMMA TypeStep == ASSUME GamgAssumption, IInv, [Next]_vars PROVE TypeOK'
<1> USE DEF IInv
<1>1. CASE UNCHANGED vars
  BY <1>1 DEF TypeOK, WorkspaceTypes, BufferTypes, ProgressTypes, vars, workspace, buffers, progress,
              Version
<1>2. ASSUME NEW m \in Matrices, NEW c \in Controls, Solve(m, c) PROVE TypeOK'
  <2>1. WorkspaceTypes' /\ BufferTypes'
    BY <1>2 DEF Solve, TypeOK, WorkspaceTypes, BufferTypes, workspace, buffers, Version
  <2>2. ProgressTypes'
    BY <1>2 DEF Solve, TypeOK, ProgressTypes, progress
  <2> QED
    BY <1>2, <2>1, <2>2, Bounds DEF Solve, TypeOK, Call
<1>3. CASE Reject
  BY <1>3, Bounds DEF Reject, TypeOK, WorkspaceTypes, BufferTypes, ProgressTypes, workspace, buffers,
                      progress, Version
<1>4. CASE Rebuild
  <2>1. WorkspaceTypes'
    BY <1>4, ControlTypes DEF Rebuild, TypeOK, WorkspaceTypes, FcgAtRest, Version
  <2>2. BufferTypes' /\ ProgressTypes'
    BY <1>4 DEF Rebuild, TypeOK, BufferTypes, ProgressTypes, buffers, progress
  <2> QED
    BY <1>4, <2>1, <2>2 DEF Rebuild, TypeOK
<1>5. CASE RebuildFails
  BY <1>5, ReturnTypes DEF RebuildFails, Fail, workspace, TypeOK, WorkspaceTypes, Version, Return
<1>6. CASE RefreshLevel
  <2>1. RefreshedFrom(level) \in Matrices
    BY RefreshedTypes
  <2>2. WorkspaceTypes'
    BY <1>6, <2>1 DEF RefreshLevel, TypeOK, WorkspaceTypes, Version
  <2>3. BufferTypes' /\ ProgressTypes'
    BY <1>6, Bounds DEF RefreshLevel, TypeOK, BufferTypes, ProgressTypes, buffers, NextRefreshed, Levels
  <2> QED
    BY <1>6, <2>2, <2>3 DEF RefreshLevel, TypeOK
<1>7. CASE RefreshFails
  <2>1. RefreshedFrom(level) \in Matrices
    BY RefreshedTypes
  <2>2. WorkspaceTypes'
    BY <1>7, <2>1 DEF RefreshFails, Fail, Return, TypeOK, WorkspaceTypes, Version
  <2> QED
    BY <1>7, <2>2, ReturnTypes DEF RefreshFails, Fail
<1>8. CASE InitialResidual
  <2>0. WorkspaceTypes'
    <3>1. /\ UNCHANGED <<options, hierarchy, values, diagonals>>
          /\ hasSolved' = TRUE \/ hasSolved' = hasSolved
          /\ fcg' = fcg \/ fcg' = [fcg EXCEPT !.residual = ~fcg.lent, !.previous = 0]
      BY <1>8 DEF InitialResidual, Return, workspace
    <3>2. [fcg EXCEPT !.residual = ~fcg.lent, !.previous = 0]
            \in [residual : BOOLEAN, lent : BOOLEAN, previous : Nat]
      BY DEF TypeOK, WorkspaceTypes
    <3> QED
      BY <3>1, <3>2 DEF TypeOK, WorkspaceTypes, Version
  <2>1. CASE pc' = "idle"
    <3>1. PICK norm \in Scale : Return([Report("converged", 0, norm) EXCEPT !.initial = norm])
      BY <1>8, <2>1 DEF InitialResidual
    <3> QED
      BY <2>0, <3>1, ReportTypes, ReturnTypes
  <2>2. CASE pc' # "idle"
    <3>1. BufferTypes' /\ ProgressTypes'
      BY <1>8, <2>2, Bounds DEF InitialResidual, Return, TypeOK, BufferTypes, ProgressTypes, Levels,
                                Iterating
    <3> QED
      BY <1>8, <2>0, <2>2, <3>1 DEF InitialResidual, Return, TypeOK
  <2> QED
    BY <2>1, <2>2
<1>9. CASE BeginCycle \/ Down \/ SolveCoarsest \/ Up \/ Finest
  <2>0. /\ UNCHANGED <<options, workspace, call, result, solves, initial, residual, iteration>>
        /\ pc' \in Iterating
        /\ fcg' \in [residual : BOOLEAN, lent : BOOLEAN, previous : Nat]
        /\ sound' \in BOOLEAN
    BY <1>9 DEF BeginCycle, Down, SolveCoarsest, Up, Finest, TypeOK, WorkspaceTypes, ProgressTypes,
                Iterating, InCycle
  <2>1. WorkspaceTypes'
    BY <2>0 DEF TypeOK, WorkspaceTypes, workspace, Version
  <2>2. {0, 1, Coarsest} \subseteq Levels
    BY Bounds DEF Levels
  <2>3. ASSUME BeginCycle PROVE BufferTypes' /\ level' \in Levels
    BY <2>2, <2>3 DEF BeginCycle, TypeOK, BufferTypes
  <2>4. ASSUME Down PROVE BufferTypes' /\ level' \in Levels
    <3>1. level + 1 \in Levels /\ level \in Levels
      BY <2>4, Bounds DEF Down, Phases, Levels
    <3> QED
      BY <2>4, <3>1 DEF Down, TypeOK, BufferTypes
  <2>5. ASSUME SolveCoarsest PROVE BufferTypes' /\ level' \in Levels
    <3>1. Coarsest - 1 \in Levels
      BY Bounds DEF Levels
    <3> QED
      BY <2>2, <2>5, <3>1 DEF SolveCoarsest, TypeOK, BufferTypes
  <2>6. ASSUME Up PROVE BufferTypes' /\ level' \in Levels
    <3>1. level - 1 \in Levels /\ level \in Levels
      BY <2>6, Bounds DEF Up, Phases, Levels
    <3> QED
      BY <2>6, <3>1 DEF Up, TypeOK, BufferTypes
  <2>7. ASSUME Finest PROVE BufferTypes' /\ level' \in Levels
    BY <2>2, <2>7 DEF Finest, TypeOK, BufferTypes, ProgressTypes
  <2>8. BufferTypes' /\ level' \in Levels
    BY <1>9, <2>3, <2>4, <2>5, <2>6, <2>7
  <2> QED
    BY <2>0, <2>1, <2>8 DEF TypeOK, ProgressTypes
<1>10. CASE CycleFails \/ StepFails
  <2>1. WorkspaceTypes'
    BY <1>10 DEF CycleFails, StepFails, Fail, Return, Restored, TypeOK, WorkspaceTypes, workspace,
                 Version
  <2> QED
    BY <1>10, <2>1, ReturnTypes DEF CycleFails, StepFails, Fail
<1>11. CASE Check \/ ZeroStep \/ Advance
  BY <1>11, ConcludeTypes, Bounds DEF Check, ZeroStep, Advance, TypeOK, WorkspaceTypes, ProgressTypes
<1>12. CASE Direction
  BY <1>12 DEF Direction, TypeOK, WorkspaceTypes, BufferTypes, ProgressTypes, workspace, buffers,
               Version, Iterating
<1>13. CASE Breakdown
  <2>1. Report("breakdown", iteration, residual) \in Solution
    BY ReportTypes DEF TypeOK, ProgressTypes
  <2>2. WorkspaceTypes'
    BY <1>13 DEF Breakdown, Ok, Return, TypeOK, WorkspaceTypes, Version
  <2> QED
    BY <1>13, <2>1, <2>2, ReturnTypes DEF Breakdown, Ok
<1> QED
  BY <1>1, <1>2, <1>3, <1>4, <1>5, <1>6, <1>7, <1>8, <1>9, <1>10, <1>11, <1>12, <1>13 DEF Next
-----------------------------------------------------------------------------
\* The loops stay within their levels and iterations.
LEMMA PhasesStep == ASSUME GamgAssumption, IInv, [Next]_vars PROVE Phases'
<1> USE DEF IInv, Iterating, InCycle
<1>1. CASE UNCHANGED vars
  BY <1>1 DEF Phases, vars, progress
<1>2. CASE Reject
  BY <1>2 DEF Phases, Reject, progress
<1>3. ASSUME NEW m \in Matrices, NEW c \in Controls, Solve(m, c) PROVE Phases'
  BY <1>3 DEF Phases, Solve, progress, Rebuilds
<1>4. CASE Rebuild \/ RefreshLevel \/ Direction
  BY <1>4 DEF Phases, Rebuild, RefreshLevel, Direction, progress
<1>5. CASE InitialResidual
  <2>1. 1 \in 1 .. IterationLimit(call.controls)
    BY ControlTypes, LimitIsLargest DEF TypeOK
  <2> QED
    BY <1>5, <2>1 DEF Phases, InitialResidual, Return
<1>6. CASE BeginCycle \/ Down \/ SolveCoarsest \/ Up \/ Finest
  <2>1. UNCHANGED <<options, residual, iteration, call>>
    BY <1>6 DEF BeginCycle, Down, SolveCoarsest, Up, Finest
  <2>2. iteration \in 1 .. IterationLimit(call.controls)
    BY <1>6 DEF BeginCycle, Down, SolveCoarsest, Up, Finest, Phases
  <2>3. CASE BeginCycle
    BY <2>1, <2>2, <2>3, Bounds DEF Phases, BeginCycle
  <2>4. CASE Down
    BY <2>1, <2>2, <2>4, Bounds DEF Phases, Down
  <2>5. CASE SolveCoarsest
    BY <2>1, <2>2, <2>5, Bounds DEF Phases, SolveCoarsest
  <2>6. CASE Up
    BY <2>1, <2>2, <2>6, Bounds DEF Phases, Up
  <2>7. CASE Finest
    BY <2>1, <2>2, <2>7 DEF Phases, Finest
  <2> QED
    BY <1>6, <2>3, <2>4, <2>5, <2>6, <2>7
<1>7. CASE Check \/ ZeroStep \/ Advance
  <2>1. IterationLimit(call.controls) \in Nat
    BY ControlTypes, LimitIsLargest DEF TypeOK
  <2>2. PICK norm, d : norm \in Scale /\ Conclude(norm, d)
    BY <1>7, Bounds DEF Check, ZeroStep, Advance
  <2>3. level = 0 /\ iteration \in 1 .. IterationLimit(call.controls)
    BY <1>7 DEF Check, ZeroStep, Advance, Phases
  <2> QED
    BY <2>1, <2>2, <2>3 DEF Conclude, Ok, Return, Phases, NextIteration
<1>8. CASE RebuildFails \/ RefreshFails \/ CycleFails \/ StepFails \/ Breakdown
  BY <1>8 DEF Phases, RebuildFails, RefreshFails, CycleFails, StepFails, Breakdown, Ok, Fail, Return
<1> QED
  BY <1>1, <1>2, <1>3, <1>4, <1>5, <1>6, <1>7, <1>8 DEF Next

\* The levels refreshed so far hold the coefficients of the solve's matrix.
LEMMA CoefficientsStep == ASSUME GamgAssumption, IInv, [Next]_vars PROVE Coefficients'
<1> USE DEF IInv, Iterating, InCycle
<1>1. CASE UNCHANGED vars
  BY <1>1 DEF Coefficients, vars, workspace, progress
<1>2. CASE pc' \in {"idle", "rebuild"}
  BY <1>2 DEF Coefficients
<1>3. ASSUME NEW m \in Matrices, NEW c \in Controls, Solve(m, c) PROVE Coefficients'
  BY <1>3, Bounds DEF Coefficients, Solve, Phases, Levels, progress
<1>4. CASE Rebuild
  BY <1>4 DEF Coefficients, Rebuild, progress
<1>5. CASE RefreshLevel
  <2>1. RefreshedFrom(level) = call.matrix
    BY <1>5, Bounds DEF RefreshLevel, RefreshedFrom, Coefficients, TypeOK, ProgressTypes, Levels
  <2>2. \A l \in Levels : l <= level =>
          values'[l] = call.matrix /\ diagonals'[l] = call.matrix
    BY <1>5, <2>1, Bounds DEF RefreshLevel, Coefficients, TypeOK, WorkspaceTypes, ProgressTypes, Levels
  <2>3. call' = call /\ pc' \in {"refresh", "residual"}
    BY <1>5 DEF RefreshLevel
  <2>4. CASE level = Coarsest
    BY <1>5, <2>2, <2>3, <2>4, Bounds DEF RefreshLevel, Coefficients, Levels
  <2>5. CASE level # Coarsest
    BY <1>5, <2>2, <2>3, <2>5, Bounds DEF RefreshLevel, NextRefreshed, Coefficients, Levels, TypeOK,
                                          ProgressTypes
  <2> QED
    BY <2>4, <2>5
<1>6. CASE pc \in Iterating \cup {"residual"} /\ pc' \in Iterating
  <2>1. Next => UNCHANGED <<values, diagonals, call>>
    BY <1>6 DEF Next, Solve, Reject, Rebuild, RebuildFails, RefreshLevel, RefreshFails,
                InitialResidual, BeginCycle, Down, SolveCoarsest, Up, Finest, CycleFails, Check,
                Direction, ZeroStep, Breakdown, Advance, StepFails, Conclude, Ok, Fail, Return,
                workspace
  <2> QED
    BY <1>1, <1>6, <2>1 DEF Coefficients
<1>7. Next => \/ pc' \in {"idle", "rebuild"}
              \/ \E m \in Matrices, c \in Controls : Solve(m, c)
              \/ Rebuild
              \/ RefreshLevel
              \/ pc \in Iterating \cup {"residual"} /\ pc' \in Iterating
  BY DEF Next, Reject, RebuildFails, RefreshFails, InitialResidual, BeginCycle, Down, SolveCoarsest,
         Up, Finest, CycleFails, Check, Direction, ZeroStep, Breakdown, Advance, StepFails,
         Conclude, Ok, Fail, Return
<1> QED
  BY <1>1, <1>2, <1>3, <1>4, <1>5, <1>6, <1>7

\* Every buffer a V-cycle reads has been computed by it.
LEMMA ProvenanceStep == ASSUME GamgAssumption, IInv, [Next]_vars PROVE Provenance'
<1> USE DEF IInv, Iterating, InCycle
<1>1. CASE UNCHANGED vars
  BY <1>1 DEF Provenance, vars, buffers, progress
<1>2. CASE Reject
  BY <1>2 DEF Provenance, Reject, progress
<1>3. ASSUME NEW m \in Matrices, NEW c \in Controls, Solve(m, c) PROVE Provenance'
  BY <1>3 DEF Provenance, Solve, progress
<1>4. CASE Rebuild \/ RefreshLevel
  BY <1>4 DEF Provenance, Rebuild, RefreshLevel, progress
<1>5. CASE RebuildFails \/ RefreshFails \/ CycleFails \/ StepFails \/ Breakdown
  BY <1>5 DEF Provenance, RebuildFails, RefreshFails, CycleFails, StepFails, Breakdown, Ok, Fail, Return
<1>6. CASE InitialResidual
  <2>1. CASE pc' = "idle"
    BY <1>6, <2>1 DEF Provenance, InitialResidual, Return
  <2>2. CASE pc' = "cycle"
    <3>1. sound' = sound /\ residuals' = {0} /\ options' = options
      BY <1>6, <2>2 DEF InitialResidual, Return
    <3>2. options.flexible => fcg'.residual
      BY <1>6, <2>2 DEF InitialResidual, Return, History, TypeOK, WorkspaceTypes
    <3> QED
      BY <2>2, <3>1, <3>2 DEF Provenance
  <2> QED
    BY <1>6, <2>1, <2>2 DEF InitialResidual, Return
<1>7. CASE BeginCycle
  <2>1. options.flexible => fcg.residual /\ ~fcg.lent
    BY <1>7 DEF BeginCycle, Provenance, History
  <2>2. ~options.flexible => 0 \in residuals
    BY <1>7 DEF BeginCycle, Provenance
  <2>3. sources' = {1} /\ residuals' = {0} /\ level' = 1 /\ sound' = sound
    BY <1>7, <2>1, <2>2 DEF BeginCycle
  <2>4. CASE Coarsest = 1
    BY <1>7, <2>3, <2>4 DEF BeginCycle, Provenance
  <2>5. CASE Coarsest # 1
    BY <1>7, <2>3, <2>5 DEF BeginCycle, Provenance
  <2> QED
    BY <2>4, <2>5
<1>8. CASE Down
  <2>1. /\ level \in 1 .. Coarsest - 1 /\ 0 \in residuals /\ sound
        /\ \A l \in 1 .. level : l \in sources /\ (l < level => l \in corrections)
    BY <1>8 DEF Down, Phases, Provenance
  <2>2. /\ sources' = sources \cup {level + 1} /\ corrections' = corrections \cup {level}
        /\ 0 \in residuals' /\ sound'
        /\ level' = level + 1
    BY <1>8, <2>1 DEF Down
  <2>3. \A l \in 1 .. level + 1 : l \in sources' /\ (l < level + 1 => l \in corrections')
    BY <2>1, <2>2
  <2>4. CASE level + 1 = Coarsest
    BY <1>8, <2>2, <2>3, <2>4 DEF Down, Provenance
  <2>5. CASE level + 1 # Coarsest
    BY <1>8, <2>2, <2>3, <2>5 DEF Down, Provenance
  <2> QED
    BY <2>4, <2>5
<1>9. CASE SolveCoarsest
  <2>1. \A l \in 1 .. Coarsest : l \in sources' /\ l \in corrections'
    BY <1>9, Bounds DEF SolveCoarsest, Provenance
  <2>2. /\ residuals' = residuals /\ 0 \in residuals /\ sound' = sound
        /\ pc' = IF Coarsest = 1 THEN "finest" ELSE "up"
    BY <1>9 DEF SolveCoarsest, Provenance
  <2> QED
    BY <2>1, <2>2, Bounds DEF Provenance
<1>10. CASE Up
  <2>1. /\ level \in 1 .. Coarsest - 1 /\ 0 \in residuals /\ sound
        /\ \A l \in 1 .. Coarsest : l \in sources /\ l \in corrections
    BY <1>10 DEF Up, Phases, Provenance
  <2>2. /\ sources' = sources /\ corrections' = corrections \cup {level}
        /\ sound' /\ pc' = IF level = 1 THEN "finest" ELSE "up"
    BY <1>10, <2>1, Bounds DEF Up
  <2>3. 0 \in residuals'
    BY <1>10, <2>1 DEF Up, ScratchOf
  <2> QED
    BY <2>1, <2>2, <2>3, Bounds DEF Provenance
<1>11. CASE Finest
  <2>1. sound /\ 1 \in corrections /\ 0 \in residuals \ ScratchOf(0)
    BY <1>11 DEF Finest, Provenance, ScratchOf
  <2> QED
    BY <1>11, <2>1 DEF Finest, Provenance
<1>12. CASE Check \/ ZeroStep \/ Advance
  <2>1. PICK norm, d : norm \in Scale /\ Conclude(norm, d)
    BY <1>12, Bounds DEF Check, ZeroStep, Advance
  <2>2. CASE pc' = "idle"
    BY <2>1, <2>2 DEF Conclude, Ok, Return, Provenance
  <2>3. CASE pc' = "cycle"
    <3>1. /\ residuals' = {0} /\ sound' = sound /\ options' = options
          /\ fcg' = [fcg EXCEPT !.residual = options.flexible, !.previous = d]
      BY <2>1, <2>3 DEF Conclude, Ok, Return
    <3>2. fcg'.residual = options.flexible
      BY <3>1 DEF TypeOK, WorkspaceTypes
    <3> QED
      BY <2>3, <3>1, <3>2 DEF Provenance
  <2> QED
    BY <2>1, <2>2, <2>3 DEF Conclude, Ok, Return
<1>13. CASE Direction
  <2>1. UsesPrevious(iteration) => fcg.previous + 1 = iteration
    BY <1>13 DEF Direction, History, Phases, UsesPrevious
  <2>2. UsesPrevious(iteration) => fcg.previous # 0
    BY <2>1 DEF UsesPrevious
  <2> QED
    BY <1>13, <2>1, <2>2 DEF Direction, Provenance
<1> QED
  BY <1>1, <1>2, <1>3, <1>4, <1>5, <1>6, <1>7, <1>8, <1>9, <1>10, <1>11, <1>12, <1>13 DEF Next

\* The buffers of the outer iteration come home, and the direction kept is the last one.
LEMMA HistoryStep == ASSUME GamgAssumption, IInv, [Next]_vars PROVE History'
<1> USE DEF IInv, Iterating, InCycle
<1>0. fcg \in [residual : BOOLEAN, lent : BOOLEAN, previous : Nat]
  BY DEF TypeOK, WorkspaceTypes
<1>1. CASE UNCHANGED vars
  BY <1>1 DEF History, vars, progress
<1>2. CASE Reject
  BY <1>2 DEF History, Reject, progress
<1>3. ASSUME NEW m \in Matrices, NEW c \in Controls, Solve(m, c) PROVE History'
  BY <1>3 DEF History, Solve, progress
<1>4. CASE Rebuild \/ RefreshLevel
  BY <1>4 DEF History, Rebuild, RefreshLevel, FcgAtRest
<1>5. CASE RebuildFails \/ RefreshFails
  BY <1>5 DEF History, RebuildFails, RefreshFails, Fail, Return
<1>6. CASE CycleFails \/ StepFails \/ Breakdown
  <2>1. pc' = "idle"
    BY <1>6 DEF CycleFails, StepFails, Breakdown, Ok, Fail, Return
  <2>2. ~fcg'.lent
    BY <1>0, <1>6 DEF CycleFails, StepFails, Breakdown, Restored, History
  <2> QED
    BY <2>1, <2>2 DEF History
<1>7. CASE InitialResidual
  <2>1. ~fcg'.lent
    BY <1>0, <1>7 DEF InitialResidual, History, Return
  <2>2. pc' = "idle" \/ iteration' = 1
    BY <1>7 DEF InitialResidual, Return
  <2> QED
    BY <2>1, <2>2 DEF History
<1>8. CASE BeginCycle
  <2>1. fcg'.previous = fcg.previous /\ pc' \in {"down", "coarsest"}
    BY <1>0, <1>8 DEF BeginCycle
  <2> QED
    BY <1>8, <2>1 DEF BeginCycle, History
<1>9. CASE Down \/ SolveCoarsest \/ Up
  BY <1>9 DEF Down, SolveCoarsest, Up, History
<1>10. CASE Finest
  <2>1. fcg'.previous = fcg.previous /\ ~fcg'.lent /\ pc' \in {"step", "check"}
    BY <1>0, <1>10 DEF Finest
  <2> QED
    BY <1>10, <2>1 DEF Finest, History
<1>11. CASE Direction
  BY <1>11 DEF Direction, History
<1>12. CASE Check \/ ZeroStep \/ Advance
  <2>1. PICK norm \in Scale : \/ Check /\ Conclude(norm, fcg.previous)
                              \/ ZeroStep /\ Conclude(0, fcg.previous) /\ norm = 0
                              \/ Advance /\ Conclude(norm, iteration)
    BY <1>12, Bounds DEF Check, ZeroStep, Advance
  <2>2. PICK d : Conclude(norm, d) /\ (Advance => d = iteration) /\ (~Advance => d = fcg.previous)
    BY <2>1 DEF Check, ZeroStep, Advance
  <2>3. ~fcg.lent /\ ~fcg'.lent
    BY <1>0, <1>12, <2>2 DEF Check, ZeroStep, Advance, History, Conclude
  <2>4. CASE pc' = "idle"
    BY <2>3, <2>4 DEF History
  <2>5. CASE pc' = "cycle"
    <3>1. /\ iteration' = iteration + 1 /\ residual' = norm /\ options' = options
          /\ fcg'.previous = d
      BY <1>0, <2>2, <2>5 DEF Conclude, Ok, Return, NextIteration
    <3>2. CASE Check
      BY <1>12, <2>3, <3>1, <3>2 DEF Check, History, Phases
    <3>3. CASE ZeroStep
      BY <2>1, <2>3, <2>5, <3>1, <3>3 DEF ZeroStep, Check, Advance, History
    <3>4. CASE Advance
      BY <2>2, <2>3, <3>1, <3>4 DEF History
    <3> QED
      BY <1>12, <3>2, <3>3, <3>4
  <2> QED
    BY <2>2, <2>4, <2>5 DEF Conclude, Ok, Return
<1> QED
  BY <1>1, <1>2, <1>3, <1>4, <1>5, <1>6, <1>7, <1>8, <1>9, <1>10, <1>11, <1>12 DEF Next

\* An uncached agglomeration follows the matrix from one success to the next.
LEMMA AgglomeratedStep == ASSUME GamgAssumption, IInv, [Next]_vars PROVE Agglomerated'
<1> USE DEF IInv, Iterating, InCycle
<1>1. CASE UNCHANGED vars
  BY <1>1 DEF Agglomerated, vars, workspace
<1>2. CASE Reject \/ RebuildFails \/ RefreshFails \/ CycleFails \/ StepFails
  BY <1>2 DEF Agglomerated, Reject, RebuildFails, RefreshFails, CycleFails, StepFails, Fail, Return,
              Failed
<1>3. ASSUME NEW m \in Matrices, NEW c \in Controls, Solve(m, c) PROVE Agglomerated'
  BY <1>3 DEF Agglomerated, Solve, Rebuilds, workspace
<1>4. CASE Rebuild \/ RefreshLevel
  BY <1>4 DEF Agglomerated, Rebuild, RefreshLevel
<1>5. CASE InitialResidual \/ Check \/ ZeroStep \/ Advance \/ Breakdown
  BY <1>5 DEF Agglomerated, InitialResidual, Check, ZeroStep, Advance, Breakdown, Conclude, Ok, Return
<1>6. CASE BeginCycle \/ Down \/ SolveCoarsest \/ Up \/ Finest \/ Direction
  BY <1>6 DEF Agglomerated, BeginCycle, Down, SolveCoarsest, Up, Finest, Direction
<1> QED
  BY <1>1, <1>2, <1>3, <1>4, <1>5, <1>6 DEF Next

\* The options are for the life of the workspace.
LEMMA OptionsStay == ASSUME [Next]_vars PROVE options' = options
BY DEF Next, vars, Solve, Reject, Rebuild, RebuildFails, RefreshLevel, RefreshFails,
       InitialResidual, BeginCycle, Down, SolveCoarsest, Up, Finest, CycleFails, Check, Direction,
       ZeroStep, Breakdown, Advance, StepFails, Conclude, Ok, Fail, Return

\* Only the way up overwrites a pre-smoothed correction, and only without a base.
LEMMA PreSmoothingStep == ASSUME GamgAssumption, IInv, [Next]_vars PROVE PreSmoothingKept'
<1>1. dropped' \in {dropped, {}} \/ Up
  BY DEF Next, vars, Solve, Reject, Rebuild, RebuildFails, RefreshLevel, RefreshFails,
         InitialResidual, BeginCycle, Down, SolveCoarsest, Finest, CycleFails, Check, Direction,
         ZeroStep, Breakdown, Advance, StepFails, Conclude, Ok, Fail, Return, buffers
<1>2. CASE Up
  BY <1>2, OptionsStay DEF IInv, PreSmoothingKept, Up, AddsPreSmoothed
<1> QED
  BY <1>1, <1>2, OptionsStay DEF IInv, PreSmoothingKept

\* What a solve returns is its own.
LEMMA RetrySafeStep == ASSUME GamgAssumption, IInv, [Next]_vars PROVE RetrySafe'
<1>1. sound
  BY DEF IInv, Provenance
<1>2. ASSUME NEW t, NEW n, NEW r, result' = Report(t, n, r) PROVE RetrySafe'
  BY <1>1, <1>2 DEF RetrySafe, Report
<1>3. CASE result' \in {result, NoResult, Failed}
  BY <1>3 DEF IInv, RetrySafe, NoResult, Failed
<1>4. CASE InitialResidual /\ result' # result
  <2>1. PICK norm \in Scale : result' = [Report("converged", 0, norm) EXCEPT !.initial = norm]
    BY <1>4 DEF InitialResidual, Return
  <2> QED
    BY <1>1, <2>1 DEF RetrySafe, Report
<1>5. CASE Check \/ ZeroStep \/ Advance
  <2>1. PICK norm, d : Conclude(norm, d)
    BY <1>5 DEF Check, ZeroStep, Advance
  <2> QED
    BY <1>2, <1>3, <2>1 DEF Conclude, Ok, Return
<1>6. CASE Breakdown
  BY <1>2, <1>6 DEF Breakdown, Ok, Return
<1>7. \/ result' \in {result, NoResult, Failed}
      \/ InitialResidual /\ result' # result
      \/ Check \/ ZeroStep \/ Advance \/ Breakdown
  BY DEF Next, vars, Solve, Reject, Rebuild, RebuildFails, RefreshLevel, RefreshFails, BeginCycle,
         Down, SolveCoarsest, Up, Finest, CycleFails, Direction, StepFails, Fail, Return
<1> QED
  BY <1>3, <1>4, <1>5, <1>6, <1>7

\* A report says what happened.
LEMMA HonestReportStep == ASSUME GamgAssumption, IInv, [Next]_vars PROVE HonestReport'
<1> DEFINE c == call.controls
<1>1. /\ IterationLimit(c) \in Nat /\ IterationLimit(c) >= 1
      /\ c.min \in Nat /\ IterationLimit(c) >= c.min
  BY ControlTypes, LimitIsLargest DEF IInv
<1>2. CASE result' = result
  BY <1>2, OptionsStay DEF IInv, HonestReport
<1>3. CASE result' \in {NoResult, Failed}
  BY <1>3 DEF HonestReport, NoResult, Failed
<1>4. CASE InitialResidual /\ result' # result
  <2>1. PICK norm \in Scale :
          /\ StartsConverged(norm, c)
          /\ result' = [Report("converged", 0, norm) EXCEPT !.initial = norm]
    BY <1>4 DEF InitialResidual, Return
  <2>2. /\ result'.termination = "converged" /\ result'.iterations = 0 /\ result'.controls = c
        /\ result'.residual = norm /\ result'.initial = norm
    BY <2>1 DEF Report
  <2>3. c.min = 0 /\ (norm = 0 \/ HasConverged(norm, norm, c))
    BY <2>1 DEF StartsConverged
  <2> QED
    BY <1>1, <2>2, <2>3 DEF HonestReport
<1>5. CASE (Check \/ ZeroStep \/ Advance) /\ result' # result
  <2>1. PICK norm, d : Conclude(norm, d)
    BY <1>5 DEF Check, ZeroStep, Advance
  <2>2. iteration \in 1 .. IterationLimit(c)
    BY <1>5 DEF Check, ZeroStep, Advance, IInv, Phases, Iterating, InCycle
  <2>3. CASE /\ iteration >= c.min /\ HasConverged(norm, initial, c)
             /\ result' = Report("converged", iteration, norm)
    <3>1. /\ result'.termination = "converged" /\ result'.iterations = iteration
          /\ result'.controls = c /\ result'.residual = norm /\ result'.initial = initial
      BY <2>3 DEF Report
    <3> QED
      BY <1>1, <2>2, <2>3, <3>1 DEF HonestReport
  <2>4. CASE /\ ~(iteration >= c.min /\ HasConverged(norm, initial, c))
             /\ iteration >= IterationLimit(c)
             /\ result' = Report("maxIterations", iteration, norm)
    <3>1. /\ result'.termination = "maxIterations" /\ result'.iterations = iteration
          /\ result'.controls = c /\ result'.residual = norm /\ result'.initial = initial
      BY <2>4 DEF Report
    <3>2. iteration = IterationLimit(c) /\ iteration >= c.min
      BY <1>1, <2>2, <2>4
    <3> QED
      BY <1>1, <2>4, <3>1, <3>2 DEF HonestReport
  <2> QED
    BY <1>5, <2>1, <2>3, <2>4 DEF Conclude, Ok, Return
<1>6. CASE Breakdown
  <2>1. options.flexible /\ residual > 0 /\ iteration \in 1 .. IterationLimit(c)
    BY <1>6 DEF Breakdown, IInv, Phases, Iterating, InCycle
  <2>2. /\ result'.termination = "breakdown" /\ result'.iterations = iteration
        /\ result'.controls = c /\ result'.residual = residual
    BY <1>6 DEF Breakdown, Ok, Return, Report
  <2> QED
    BY <1>1, <2>1, <2>2, OptionsStay DEF HonestReport
<1>7. \/ result' \in {result, NoResult, Failed}
      \/ InitialResidual /\ result' # result
      \/ (Check \/ ZeroStep \/ Advance) /\ result' # result
      \/ Breakdown
  BY DEF Next, vars, Solve, Reject, Rebuild, RebuildFails, RefreshLevel, RefreshFails, BeginCycle,
         Down, SolveCoarsest, Up, Finest, CycleFails, Direction, StepFails, Fail, Return
<1> QED
  BY <1>2, <1>3, <1>4, <1>5, <1>6, <1>7
-----------------------------------------------------------------------------
\* The invariant holds in every reachable state: the phases of a solve, what each of them has
\* computed, and what is true of the last report.
THEOREM Invariance == Spec => []IInv
<1>1. Init => IInv
  BY Initially, GamgAssumption
<1>2. IInv /\ [Next]_vars => IInv'
  <2> SUFFICES ASSUME IInv, [Next]_vars PROVE IInv'
    OBVIOUS
  <2> QED
    BY GamgAssumption, TypeStep, PhasesStep, CoefficientsStep, ProvenanceStep, HistoryStep,
       AgglomeratedStep, PreSmoothingStep, RetrySafeStep, HonestReportStep DEF IInv
<1> QED
  BY <1>1, <1>2, PTL DEF Spec

\* The workspace, the buffers and the report of a multigrid solve are well formed.
THEOREM TypeCorrect == Spec => []TypeOK
<1>1. IInv => TypeOK
  BY DEF IInv
<1> QED
  BY <1>1, Invariance, PTL

\* No solution has read a correction, a source, a residual or a direction that another solve left
\* in the reused buffers of GamgWorkspace, also when that solve failed half way.
THEOREM RetryIsSafe == Spec => []RetrySafe
<1>1. IInv => RetrySafe
  BY DEF IInv
<1> QED
  BY <1>1, Invariance, PTL

\* The refresh leaves no level of the hierarchy with the coefficients or the diagonal of another
\* matrix once the solve iterates.
THEOREM LevelsAgree == Spec => []OneMatrix
<1>1. IInv => OneMatrix
  BY DEF IInv, Coefficients, OneMatrix
<1> QED
  BY <1>1, Invariance, PTL

\* Iterations and termination of a report are those of the loop that made it.
THEOREM ReportsAreHonest == Spec => []HonestReport
<1>1. IInv => HonestReport
  BY DEF IInv
<1> QED
  BY <1>1, Invariance, PTL

\* With a pre-smoothing base no V-cycle overwrites what it pre-smoothed.
THEOREM SmoothingIsKept == Spec => []PreSmoothingKept
<1>1. IInv => PreSmoothingKept
  BY DEF IInv
<1> QED
  BY <1>1, Invariance, PTL

\* A cached agglomeration never changes; an uncached one is of the solve's own matrix after a
\* success.
THEOREM AgglomerationFollows == Spec => AgglomerationPolicy
<1> DEFINE Kept == options.cacheAgglomeration => hierarchy' = hierarchy
<1> DEFINE Own == pc = "residual" /\ ~options.cacheAgglomeration /\ call.afterSuccess =>
                    hierarchy = call.matrix
<1>1. IInv /\ [Next]_vars => [Kept /\ Own]_vars
  <2> SUFFICES ASSUME IInv, Next PROVE Kept /\ Own
    OBVIOUS
  <2>1. Rebuild \/ hierarchy' = hierarchy
    BY DEF Next, Solve, Reject, RebuildFails, RefreshLevel, RefreshFails, InitialResidual,
           BeginCycle, Down, SolveCoarsest, Up, Finest, CycleFails, Check, Direction, ZeroStep,
           Breakdown, Advance, StepFails, Conclude, Ok, Fail, Return, workspace
  <2>2. Kept
    BY <2>1 DEF Rebuild, IInv, Phases
  <2>3. Own
    BY DEF IInv, Agglomerated
  <2> QED
    BY <2>2, <2>3
<1> QED
  BY <1>1, Invariance, PTL DEF Spec, AgglomerationPolicy

-----------------------------------------------------------------------------
(***************************************************************************)
(* The agglomeration.                                                      *)
(***************************************************************************)

\* The cells the running pass has been at.
Passed(c) == IF forward THEN c < offset ELSE c > cells - offset - 1

\* A connected cell that the first loop has passed is assigned: either it had a free neighbour
\* to be paired with, or all its neighbours were assigned before it.
Assigned ==
  /\ build = "pair" => \A c \in Rows : Passed(c) /\ Incident(c) # {} => coarse[c] # Unassigned
  /\ build = "rest" => \A c \in Rows : Passed(c) \/ Incident(c) # {} => coarse[c] # Unassigned
  /\ build = "decide" => \A c \in Rows : coarse[c] # Unassigned

\* The aggregates made so far have their seeds.
Seeded == /\ \A c \in matched : coarse[c] # Unassigned
          /\ \A a \in 0 .. nCoarse - 1 :
               \/ \E e \in edges : Aggregate(a) \cap matched = {e.lower, e.upper}
               \/ \E c \in Rows : Aggregate(a) = {c} /\ Incident(c) = {}

\* A pass begins with nothing assigned.
Fresh == build = "edges" => /\ offset = 0 /\ nCoarse = 0 /\ matched = {}
                            /\ \A c \in Rows : coarse[c] = Unassigned

\* Connections taken from a matrix are its own.
FromMatrix == source = "algebraic" => Pairs(edges) = links

\* There is room for a level as long as the build goes on.
Room == levels < MaxLevels \/ build \in {"built", "failed"}

BuildInv == BuildTypeOK /\ Assigned /\ Seeded /\ Fresh /\ Room /\ FromMatrix /\ Connected /\ FollowsMatrix
-----------------------------------------------------------------------------
\* Ends(e): an edge has two different rows.
LEMMA Ends ==
  ASSUME BuildTypeOK, NEW e \in edges
  PROVE  e.lower \in Rows /\ e.upper \in Rows /\ e.lower < e.upper
<1>1. <<e.lower, e.upper>> \in Connections(cells)
  BY DEF BuildTypeOK, Pairs
<1> QED BY <1>1 DEF Connections, Rows

\* The place of a pass is a row, and the pass has been there afterwards.
LEMMA Visiting ==
  ASSUME BuildTypeOK, offset < cells, offset' = offset + 1, forward' = forward, cells' = cells
  PROVE  /\ Visited \in Rows
         /\ \A c \in Rows : Passed(c)' <=> Passed(c) \/ c = Visited
BY DEF BuildTypeOK, Visited, Passed, Rows

\* The initial states are those of a first pass that has not begun.
LEMMA InitBuildInv == BuildInit => BuildInv
<1> SUFFICES ASSUME BuildInit PROVE BuildInv
  OBVIOUS
<1> USE PairingAssumption
<1>1. BuildTypeOK
  BY DEF BuildInit, BuildTypeOK, Rows, Unassigned
<1>2. Aggregate(0) = Aggregate(0) /\ nCoarse = 0 /\ build = "edges"
  BY DEF BuildInit
<1>3. \A a : a \notin 0 .. nCoarse - 1
  BY <1>2
<1>4. Assigned /\ Room /\ FollowsMatrix /\ FromMatrix
  BY <1>2 DEF BuildInit, Assigned, Room, FollowsMatrix, FromMatrix
<1>5. Seeded /\ Connected
  BY <1>3 DEF BuildInit, Seeded, Connected
<1>6. Fresh
  BY DEF BuildInit, Fresh, Rows, Unassigned
<1> QED BY <1>1, <1>4, <1>5, <1>6 DEF BuildInv

\* A pairing keeps the aggregates there are and makes one of the two ends.
LEMMA MatchKeeps == BuildInv /\ Match => BuildInv'
<1> SUFFICES ASSUME BuildInv, Match PROVE BuildInv'
  OBVIOUS
<1> USE DEF BuildInv
<1>0. /\ build = "pair" /\ build' = build /\ offset < cells /\ offset' = offset + 1
      /\ UNCHANGED <<source, levels, cells, links, edges, forward>>
      /\ nCoarse' = nCoarse + 1
      /\ coarse[Visited] = Unassigned
  BY DEF Match, Visits, levelVars
<1>1. PICK e \in BestMatches(Visited) :
        /\ coarse' = [coarse EXCEPT ![e.lower] = nCoarse, ![e.upper] = nCoarse]
        /\ matched' = matched \cup {e.lower, e.upper}
  BY DEF Match
<1>2. /\ e \in edges
      /\ coarse[e.lower] = Unassigned /\ coarse[e.upper] = Unassigned
      /\ Visited = e.lower \/ Visited = e.upper
  BY DEF BestMatches, Matches, Incident, Free
<1>3. e.lower \in Rows /\ e.upper \in Rows /\ e.lower < e.upper
  BY <1>2, Ends
<1>4. Visited \in Rows /\ \A c \in Rows : Passed(c)' <=> Passed(c) \/ c = Visited
  BY <1>0, Visiting
<1>5. /\ coarse \in [Rows -> {Unassigned} \cup (0 .. nCoarse - 1)] /\ nCoarse \in Nat
      /\ matched \subseteq Rows /\ Rows' = Rows
  BY <1>0 DEF BuildTypeOK, Rows
<1>6. \A c \in Rows : coarse'[c] = IF c \in {e.lower, e.upper} THEN nCoarse ELSE coarse[c]
  BY <1>1, <1>3, <1>5
<1>7. \A c : Incident(c)' = Incident(c)
  BY <1>0 DEF Incident
<1>8. \A a \in 0 .. nCoarse - 1 : Aggregate(a)' = Aggregate(a)
  BY <1>2, <1>3, <1>5, <1>6 DEF Aggregate, Unassigned
<1>9. \A a : a = nCoarse => Aggregate(a)' = {e.lower, e.upper}
  BY <1>3, <1>5, <1>6 DEF Aggregate, Unassigned
<1>10. \A a \in 0 .. nCoarse' - 1 : a \in 0 .. nCoarse - 1 \/ a = nCoarse
  BY <1>0, <1>5
<1>11. BuildTypeOK'
  <2>1. coarse' \in [Rows -> {Unassigned} \cup (0 .. nCoarse' - 1)]
    BY <1>0, <1>1, <1>3, <1>5
  <2>2. matched' \subseteq Rows /\ nCoarse' \in Nat
    BY <1>0, <1>1, <1>3, <1>5
  <2>3. offset' \in 0 .. cells
    BY <1>0 DEF BuildTypeOK
  <2> QED BY <1>0, <1>5, <2>1, <2>2, <2>3 DEF BuildTypeOK
<1>12. Assigned'
  <2>1. ASSUME NEW c \in Rows, Passed(c)', Incident(c) # {}
        PROVE  coarse'[c] # Unassigned
    <3>1. CASE c \in {e.lower, e.upper}
      BY <1>5, <1>6, <3>1 DEF Unassigned
    <3>2. CASE c \notin {e.lower, e.upper}
      BY <1>0, <1>2, <1>4, <1>6, <2>1, <3>2 DEF Assigned
    <3> QED BY <3>1, <3>2
  <2> QED BY <1>0, <1>5, <1>7, <2>1 DEF Assigned
<1>13. Seeded'
  <2>1. \A c \in matched' : coarse'[c] # Unassigned
    BY <1>1, <1>3, <1>5, <1>6 DEF Seeded, Unassigned
  <2>2. ASSUME NEW a \in 0 .. nCoarse - 1
        PROVE  \/ \E d \in edges : Aggregate(a) \cap matched' = {d.lower, d.upper}
               \/ \E c \in Rows : Aggregate(a) = {c} /\ Incident(c) = {}
    <3>1. Aggregate(a) \cap matched' = Aggregate(a) \cap matched
      BY <1>1, <1>2 DEF Aggregate, Unassigned
    <3> QED BY <3>1 DEF Seeded
  <2>3. \A a : a = nCoarse => Aggregate(a)' \cap matched' = {e.lower, e.upper}
    BY <1>1, <1>9
  <2>4. ASSUME NEW a \in 0 .. nCoarse' - 1
        PROVE  \/ \E d \in edges' : Aggregate(a)' \cap matched' = {d.lower, d.upper}
               \/ \E c \in Rows' : Aggregate(a)' = {c} /\ Incident(c)' = {}
    <3>1. CASE a \in 0 .. nCoarse - 1
      BY <1>0, <1>5, <1>7, <1>8, <2>2, <3>1
    <3>2. CASE a = nCoarse
      BY <1>0, <1>2, <2>3, <3>2
    <3> QED BY <1>10, <3>1, <3>2
  <2> QED BY <2>1, <2>4 DEF Seeded
<1>14. Connected'
  <2>1. ASSUME NEW a \in 0 .. nCoarse' - 1, NEW s \in SUBSET Aggregate(a)',
               s # {}, s # Aggregate(a)'
        PROVE  \E d \in edges' : {d.lower, d.upper} \subseteq Aggregate(a)'
                                 /\ (d.lower \in s <=> d.upper \notin s)
    <3>1. CASE a \in 0 .. nCoarse - 1
      BY <1>0, <1>8, <2>1, <3>1 DEF Connected
    <3>2. CASE a = nCoarse
      BY <1>0, <1>2, <1>3, <1>9, <2>1, <3>2
    <3> QED BY <1>10, <3>1, <3>2
  <2> QED BY <2>1 DEF Connected
<1>15. Fresh' /\ Room' /\ FromMatrix' /\ FollowsMatrix'
  BY <1>0 DEF Fresh, Room, FromMatrix, FollowsMatrix
<1> QED BY <1>11, <1>12, <1>13, <1>14, <1>15

\* A cell that joins is next to a cell of the aggregate it joins, so that no division of the
\* larger aggregate goes uncrossed: one that separates the cell crosses the edge it joined by,
\* any other divides the aggregate that was there.
LEMMA JoinKeeps == BuildInv /\ Join => BuildInv'
<1> SUFFICES ASSUME BuildInv, Join PROVE BuildInv'
  OBVIOUS
<1> USE DEF BuildInv
<1>0. /\ build = "pair" /\ build' = build /\ offset < cells /\ offset' = offset + 1
      /\ UNCHANGED <<source, levels, cells, links, edges, forward, nCoarse, matched>>
      /\ coarse[Visited] = Unassigned
      /\ Matches(Visited) = {}
  BY DEF Join, Visits, levelVars
<1>1. PICK e \in StrongestEdges(Visited) : coarse' = [coarse EXCEPT ![Visited] = Joined(e)]
  BY DEF Join
<1> DEFINE c == Visited
           d == Other(e, Visited)
           b == coarse[d]
<1>2. /\ e \in edges
      /\ {e.lower, e.upper} = {c, d}
  BY DEF StrongestEdges, Incident, Other
<1>3. e.lower \in Rows /\ e.upper \in Rows /\ e.lower < e.upper
  BY <1>2, Ends
<1>4. c \in Rows /\ \A x \in Rows : Passed(x)' <=> Passed(x) \/ x = c
  BY <1>0, Visiting
<1>5. /\ coarse \in [Rows -> {Unassigned} \cup (0 .. nCoarse - 1)] /\ nCoarse \in Nat
      /\ matched \subseteq Rows /\ Rows' = Rows
  BY <1>0 DEF BuildTypeOK, Rows
<1>6. d \in Rows /\ c # d
  BY <1>2, <1>3 DEF Rows
<1>7. b # Unassigned
  BY <1>0, <1>2 DEF Matches, Free, Incident
<1>8. b \in 0 .. nCoarse - 1
  BY <1>5, <1>6, <1>7
<1> HIDE DEF c, d, b
<1>9. \A x \in Rows : coarse'[x] = IF x = c THEN b ELSE coarse[x]
  BY <1>1, <1>4, <1>5 DEF c, d, b, Joined
<1>10. \A x : Incident(x)' = Incident(x)
  BY <1>0 DEF Incident
<1>11. coarse[c] = Unassigned /\ coarse[d] = b
  BY <1>0 DEF c, d, b
<1>12. \A a \in 0 .. nCoarse - 1 :
         Aggregate(a)' = IF a = b THEN Aggregate(b) \cup {c} ELSE Aggregate(a)
  BY <1>4, <1>5, <1>8, <1>9, <1>11 DEF Aggregate, Unassigned
<1>13. BuildTypeOK'
  <2>1. coarse' \in [Rows -> {Unassigned} \cup (0 .. nCoarse - 1)]
    BY <1>1, <1>5, <1>8 DEF c, d, b, Joined
  <2>2. offset' \in 0 .. cells
    BY <1>0 DEF BuildTypeOK
  <2> QED BY <1>0, <1>5, <2>1, <2>2 DEF BuildTypeOK
<1>14. Assigned'
  <2>1. ASSUME NEW x \in Rows, Passed(x)', Incident(x) # {}
        PROVE  coarse'[x] # Unassigned
    <3>1. CASE x = c
      BY <1>7, <1>9, <3>1
    <3>2. CASE x # c
      BY <1>0, <1>4, <1>9, <2>1, <3>2 DEF Assigned
    <3> QED BY <3>1, <3>2
  <2> QED BY <1>0, <1>5, <1>10, <2>1 DEF Assigned
<1>15. c \notin matched
  BY <1>11 DEF Seeded
<1>16. Incident(c) # {} /\ Incident(d) # {}
  BY <1>2 DEF Incident
<1>17. Seeded'
  <2>1. \A x \in matched' : coarse'[x] # Unassigned
    BY <1>0, <1>5, <1>7, <1>9 DEF Seeded
  <2>2. ASSUME NEW a \in 0 .. nCoarse - 1
        PROVE  \/ \E f \in edges : Aggregate(a)' \cap matched = {f.lower, f.upper}
               \/ \E x \in Rows : Aggregate(a)' = {x} /\ Incident(x) = {}
    <3>1. CASE a # b
      BY <1>12, <3>1 DEF Seeded
    <3>2. CASE a = b
      <4>1. Aggregate(a)' \cap matched = Aggregate(a) \cap matched
        BY <1>12, <1>15, <3>2
      <4>2. d \in Aggregate(a)
        BY <1>6, <1>11, <3>2 DEF Aggregate
      <4>3. ~\E x \in Rows : Aggregate(a) = {x} /\ Incident(x) = {}
        BY <1>16, <4>2
      <4> QED BY <4>1, <4>3 DEF Seeded
    <3> QED BY <3>1, <3>2
  <2> QED BY <1>0, <1>5, <1>10, <2>1, <2>2 DEF Seeded
<1>18. Connected'
  <2>1. ASSUME NEW a \in 0 .. nCoarse - 1, NEW s \in SUBSET Aggregate(a)',
               s # {}, s # Aggregate(a)'
        PROVE  \E f \in edges : {f.lower, f.upper} \subseteq Aggregate(a)'
                                /\ (f.lower \in s <=> f.upper \notin s)
    <3>1. CASE a # b
      BY <1>12, <2>1, <3>1 DEF Connected
    <3>2. CASE a = b
      <4>1. Aggregate(a)' = Aggregate(a) \cup {c} /\ c \notin Aggregate(a)
        BY <1>11, <1>12, <3>2, <1>5 DEF Aggregate, Unassigned
      <4>2. d \in Aggregate(a)
        BY <1>6, <1>11, <3>2 DEF Aggregate
      <4>3. CASE s \ {c} = {} \/ s \ {c} = Aggregate(a)
        <5>1. e.lower \in s <=> e.upper \notin s
          BY <1>2, <1>3, <1>6, <2>1, <4>1, <4>2, <4>3
        <5> QED BY <1>2, <4>1, <4>2, <5>1
      <4>4. CASE s \ {c} # {} /\ s \ {c} # Aggregate(a)
        <5>1. s \ {c} \in SUBSET Aggregate(a)
          BY <4>1
        <5>2. PICK f \in edges : {f.lower, f.upper} \subseteq Aggregate(a)
                                 /\ (f.lower \in s \ {c} <=> f.upper \notin s \ {c})
          BY <4>4, <5>1 DEF Connected
        <5> QED BY <4>1, <5>2
      <4> QED BY <4>3, <4>4
    <3> QED BY <3>1, <3>2
  <2> QED BY <1>0, <2>1 DEF Connected
<1>19. Fresh' /\ Room' /\ FromMatrix' /\ FollowsMatrix'
  BY <1>0 DEF Fresh, Room, FromMatrix, FollowsMatrix
<1> QED BY <1>13, <1>14, <1>17, <1>18, <1>19

\* A cell of the second loop is alone: it has no connections.
LEMMA SingleKeeps == BuildInv /\ Single => BuildInv'
<1> SUFFICES ASSUME BuildInv, Single PROVE BuildInv'
  OBVIOUS
<1> USE DEF BuildInv
<1>0. /\ build = "rest" /\ build' = build /\ offset < cells /\ offset' = offset + 1
      /\ UNCHANGED <<source, levels, cells, links, edges, forward, matched>>
      /\ nCoarse' = nCoarse + 1
      /\ coarse[Visited] = Unassigned
      /\ coarse' = [coarse EXCEPT ![Visited] = nCoarse]
  BY DEF Single, Visits, levelVars
<1> DEFINE c == Visited
<1>1. c \in Rows /\ \A x \in Rows : Passed(x)' <=> Passed(x) \/ x = c
  BY <1>0, Visiting
<1>2. /\ coarse \in [Rows -> {Unassigned} \cup (0 .. nCoarse - 1)] /\ nCoarse \in Nat
      /\ matched \subseteq Rows /\ Rows' = Rows
  BY <1>0 DEF BuildTypeOK, Rows
<1>3. Incident(c) = {}
  BY <1>0, <1>1 DEF Assigned
<1>4. coarse' = [coarse EXCEPT ![c] = nCoarse] /\ coarse[c] = Unassigned
  BY <1>0
<1> HIDE DEF c
<1>5. \A x \in Rows : coarse'[x] = IF x = c THEN nCoarse ELSE coarse[x]
  BY <1>1, <1>2, <1>4
<1>6. \A x : Incident(x)' = Incident(x)
  BY <1>0 DEF Incident
<1>7. \A a \in 0 .. nCoarse - 1 : Aggregate(a)' = Aggregate(a)
  BY <1>2, <1>4, <1>5 DEF Aggregate, Unassigned
<1>8. \A a : a = nCoarse => Aggregate(a)' = {c}
  BY <1>1, <1>2, <1>5 DEF Aggregate, Unassigned
<1>9. \A a \in 0 .. nCoarse' - 1 : a \in 0 .. nCoarse - 1 \/ a = nCoarse
  BY <1>0, <1>2
<1>10. BuildTypeOK'
  <2>1. coarse' \in [Rows -> {Unassigned} \cup (0 .. nCoarse' - 1)]
    <3>1. nCoarse' = nCoarse + 1
      BY <1>0
    <3>2. nCoarse \in {Unassigned} \cup (0 .. nCoarse' - 1)
      BY <1>2, <3>1
    <3>3. \A x \in Rows : coarse[x] \in {Unassigned} \cup (0 .. nCoarse' - 1)
      BY <1>2, <3>1
    <3> QED BY <1>1, <1>2, <1>4, <3>2, <3>3
  <2>2. offset' \in 0 .. cells /\ nCoarse' \in Nat
    BY <1>0 DEF BuildTypeOK
  <2> QED BY <1>0, <1>2, <2>1, <2>2 DEF BuildTypeOK
<1>11. Assigned'
  <2>1. ASSUME NEW x \in Rows, Passed(x)' \/ Incident(x) # {}
        PROVE  coarse'[x] # Unassigned
    BY <1>0, <1>1, <1>2, <1>5, <2>1 DEF Assigned, Unassigned
  <2> QED BY <1>0, <1>2, <1>6, <2>1 DEF Assigned
<1>12. Seeded'
  <2>1. \A x \in matched' : coarse'[x] # Unassigned
    BY <1>0, <1>2, <1>5 DEF Seeded, Unassigned
  <2>2. ASSUME NEW a \in 0 .. nCoarse' - 1
        PROVE  \/ \E f \in edges' : Aggregate(a)' \cap matched' = {f.lower, f.upper}
               \/ \E x \in Rows' : Aggregate(a)' = {x} /\ Incident(x)' = {}
    <3>1. CASE a \in 0 .. nCoarse - 1
      BY <1>0, <1>2, <1>6, <1>7, <3>1 DEF Seeded
    <3>2. CASE a = nCoarse
      BY <1>1, <1>2, <1>3, <1>6, <1>8, <3>2
    <3> QED BY <1>9, <3>1, <3>2
  <2> QED BY <2>1, <2>2 DEF Seeded
<1>13. Connected'
  <2>1. ASSUME NEW a \in 0 .. nCoarse' - 1, NEW s \in SUBSET Aggregate(a)',
               s # {}, s # Aggregate(a)'
        PROVE  \E f \in edges' : {f.lower, f.upper} \subseteq Aggregate(a)'
                                 /\ (f.lower \in s <=> f.upper \notin s)
    <3>1. CASE a \in 0 .. nCoarse - 1
      BY <1>0, <1>7, <2>1, <3>1 DEF Connected
    <3>2. CASE a = nCoarse
      BY <1>8, <2>1, <3>2
    <3> QED BY <1>9, <3>1, <3>2
  <2> QED BY <2>1 DEF Connected
<1>14. Fresh' /\ Room' /\ FromMatrix' /\ FollowsMatrix'
  BY <1>0 DEF Fresh, Room, FromMatrix, FollowsMatrix
<1> QED BY <1>10, <1>11, <1>12, <1>13, <1>14

\* The steps that leave the map alone.
LEMMA RestKeeps == BuildInv /\ (CheckEdges \/ Skip \/ Leave \/ EndPairs \/ Stop) => BuildInv'
<1> SUFFICES ASSUME BuildInv, CheckEdges \/ Skip \/ Leave \/ EndPairs \/ Stop PROVE BuildInv'
  OBVIOUS
<1> USE DEF BuildInv
<1>1. UNCHANGED <<source, levels, cells, links, edges, forward, coarse, nCoarse, matched>>
  BY DEF CheckEdges, Skip, Leave, EndPairs, Stop, Visits, levelVars
<1>2. /\ Rows' = Rows
      /\ \A a : Aggregate(a)' = Aggregate(a)
      /\ \A x : Incident(x)' = Incident(x)
  BY <1>1 DEF Rows, Aggregate, Incident
<1>3. Seeded' /\ Connected' /\ FromMatrix'
  BY <1>1, <1>2 DEF Seeded, Connected, FromMatrix
<1>4. CASE CheckEdges
  <2>1. BuildTypeOK'
    BY <1>1, <1>2, <1>4 DEF CheckEdges, BuildTypeOK
  <2>2. build = "edges" /\ UNCHANGED offset
    BY <1>4 DEF CheckEdges
  <2>3. \A x \in Rows : ~Passed(x)'
    BY <1>1, <2>2 DEF Fresh, Passed, Rows, BuildTypeOK
  <2>4. Assigned'
    BY <1>2, <1>4, <2>3 DEF CheckEdges, Assigned
  <2>5. build' = "pair" => Valid
    BY <1>4 DEF CheckEdges
  <2>6. FollowsMatrix'
    <3>1. CASE levels > 1
      BY <1>1, <2>2, <3>1 DEF FollowsMatrix
    <3>2. CASE levels = 1
      BY <1>1, <1>4, <2>2, <3>2 DEF CheckEdges, FollowsMatrix, FromMatrix, Valid, BuildTypeOK
    <3> QED BY <3>1, <3>2 DEF BuildTypeOK
  <2>7. Fresh' /\ Room'
    BY <1>1, <1>4, <2>2 DEF CheckEdges, Fresh, Room
  <2> QED BY <1>3, <2>1, <2>4, <2>6, <2>7
<1>5. CASE Skip \/ Leave
  <2>1. /\ offset < cells /\ offset' = offset + 1 /\ build' = build /\ build \in {"pair", "rest"}
        /\ build = "rest" => coarse[Visited] # Unassigned
        /\ build = "pair" => coarse[Visited] # Unassigned \/ Incident(Visited) = {}
    BY <1>5 DEF Skip, Leave, Visits
  <2>2. BuildTypeOK'
    BY <1>1, <1>2, <2>1 DEF BuildTypeOK
  <2>3. \A x \in Rows : Passed(x)' <=> Passed(x) \/ x = Visited
    BY <1>1, <2>1, Visiting
  <2>4. Assigned'
    BY <1>1, <1>2, <2>1, <2>3 DEF Assigned
  <2>5. Fresh' /\ Room' /\ FollowsMatrix'
    BY <1>1, <2>1 DEF Fresh, Room, FollowsMatrix
  <2> QED BY <1>3, <2>2, <2>4, <2>5
<1>6. CASE EndPairs
  <2>1. build = "pair" /\ build' = "rest" /\ offset = cells /\ offset' = 0
    BY <1>6 DEF EndPairs
  <2>2. BuildTypeOK'
    BY <1>1, <1>2, <2>1 DEF BuildTypeOK
  <2>3. \A x \in Rows : Passed(x) /\ ~Passed(x)'
    BY <1>1, <2>1 DEF Passed, Rows, BuildTypeOK
  <2>4. Assigned'
    BY <1>1, <1>2, <2>1, <2>3 DEF Assigned
  <2>5. Fresh' /\ Room' /\ FollowsMatrix'
    BY <1>1, <2>1 DEF Fresh, Room, FollowsMatrix
  <2> QED BY <1>3, <2>2, <2>4, <2>5
<1>7. CASE Stop
  <2>1. build = "decide" /\ build' \in {"built", "failed"} /\ UNCHANGED offset
        /\ (levels = 1 => build' = "failed")
    BY <1>7 DEF Stop, BuildTypeOK
  <2>2. BuildTypeOK'
    BY <1>1, <1>2, <2>1 DEF BuildTypeOK
  <2>3. Assigned' /\ Fresh' /\ Room'
    BY <2>1 DEF Assigned, Fresh, Room
  <2>4. FollowsMatrix'
    BY <1>1, <2>1 DEF FollowsMatrix
  <2> QED BY <1>3, <2>2, <2>3, <2>4
<1> QED BY <1>4, <1>5, <1>6, <1>7

\* Numbering the aggregates from the other end moves no cell to another aggregate.
LEMMA EndRestKeeps == BuildInv /\ EndRest => BuildInv'
<1> SUFFICES ASSUME BuildInv, EndRest PROVE BuildInv'
  OBVIOUS
<1> USE DEF BuildInv
<1>0. /\ build = "rest" /\ build' = "decide" /\ offset = cells
      /\ UNCHANGED <<source, levels, cells, links, edges, offset, nCoarse, matched>>
      /\ forward' = ~forward
      /\ coarse' = IF forward THEN coarse
                   ELSE [c \in 0 .. cells - 1 |-> Renumbered(coarse[c])]
  BY DEF EndRest
<1>1. /\ coarse \in [Rows -> {Unassigned} \cup (0 .. nCoarse - 1)] /\ nCoarse \in Nat
      /\ matched \subseteq Rows /\ Rows' = Rows
  BY <1>0 DEF BuildTypeOK, Rows
<1>2. \A x \in Rows : coarse[x] \in 0 .. nCoarse - 1
  <2>1. \A x \in Rows : Passed(x)
    BY <1>0 DEF Passed, Rows, BuildTypeOK
  <2> QED BY <1>0, <1>1, <2>1 DEF Assigned
<1> DEFINE New(a) == IF forward THEN a ELSE nCoarse - 1 - a
<1>3. \A x \in Rows : coarse'[x] = New(coarse[x])
  BY <1>0 DEF Renumbered, Rows
<1>4. coarse' \in [Rows -> 0 .. nCoarse - 1]
  <2>1. \A x \in Rows : New(coarse[x]) \in 0 .. nCoarse - 1
    BY <1>1, <1>2
  <2>2. coarse' = [x \in Rows |-> New(coarse[x])]
    BY <1>0, <1>1 DEF Renumbered, Rows
  <2> HIDE DEF New
  <2> QED BY <2>1, <2>2
<1>5. \A a \in 0 .. nCoarse - 1 : New(a) \in 0 .. nCoarse - 1 /\ Aggregate(a)' = Aggregate(New(a))
  <2> TAKE a \in 0 .. nCoarse - 1
  <2>1. New(a) \in 0 .. nCoarse - 1
    BY <1>1
  <2>2. \A x \in Rows : New(coarse[x]) = a <=> coarse[x] = New(a)
    BY <1>1, <1>2
  <2> HIDE DEF New
  <2> QED BY <1>1, <1>3, <2>1, <2>2 DEF Aggregate
<1> HIDE DEF New
<1>6. \A x : Incident(x)' = Incident(x)
  BY <1>0 DEF Incident
<1>7. BuildTypeOK'
  BY <1>0, <1>1, <1>4 DEF BuildTypeOK
<1>12. \A x \in Rows : coarse'[x] # Unassigned
  BY <1>1, <1>4 DEF Unassigned
<1>8. Assigned'
  BY <1>0, <1>1, <1>12 DEF Assigned
<1>9. Seeded'
  <2>1. \A x \in matched' : coarse'[x] # Unassigned
    BY <1>0, <1>1, <1>12
  <2> QED BY <1>0, <1>1, <1>5, <1>6, <2>1 DEF Seeded
<1>10. Connected'
  <2>1. ASSUME NEW a \in 0 .. nCoarse - 1, NEW s \in SUBSET Aggregate(a)',
               s # {}, s # Aggregate(a)'
        PROVE  \E f \in edges : {f.lower, f.upper} \subseteq Aggregate(a)'
                                /\ (f.lower \in s <=> f.upper \notin s)
    BY <1>5, <2>1 DEF Connected
  <2> QED BY <1>0, <2>1 DEF Connected
<1>11. Fresh' /\ Room' /\ FromMatrix' /\ FollowsMatrix'
  BY <1>0 DEF Fresh, Room, FromMatrix, FollowsMatrix
<1> QED BY <1>7, <1>8, <1>9, <1>10, <1>11

\* The next level begins with the connections of its matrix: a pair of aggregates is coupled when
\* a coupled pair of cells lies in both, and it is such pairs the edges are made from.
LEMMA CoarsenKeeps == BuildInv /\ Coarsen => BuildInv'
<1> SUFFICES ASSUME BuildInv, Coarsen PROVE BuildInv'
  OBVIOUS
<1> USE DEF BuildInv
<1>0. /\ build = "decide" /\ build' = IF levels + 1 < MaxLevels THEN "edges" ELSE "built"
      /\ nCoarse >= CoarsestCells /\ nCoarse < cells
      /\ levels' = levels + 1 /\ cells' = nCoarse
      /\ links' = CoarseLinks /\ edges' = CoarseEdges
      /\ offset' = 0 /\ nCoarse' = 0 /\ matched' = {}
      /\ UNCHANGED <<source, forward>>
  BY DEF Coarsen, Coarsens
<1>1. coarse' = [c \in 0 .. nCoarse - 1 |-> Unassigned]
  BY DEF Coarsen
<1>2. /\ coarse \in [Rows -> {Unassigned} \cup (0 .. nCoarse - 1)] /\ nCoarse \in Nat
      /\ Rows' = 0 .. nCoarse - 1
  BY <1>0 DEF BuildTypeOK, Rows
<1>3. \A x \in Rows : coarse[x] \in 0 .. nCoarse - 1
  BY <1>0, <1>2 DEF Assigned
<1>4. Pairs(edges) = links
  BY <1>0 DEF FollowsMatrix
<1>5. Pairs(CoarseEdges) =
        {OrderedPair(e.lower, e.upper) : e \in {d \in edges : coarse[d.lower] # coarse[d.upper]}}
  <2>1. \A e \in edges : OrderedPair(e.lower, e.upper)
                           = <<OrderedPair(e.lower, e.upper)[1], OrderedPair(e.lower, e.upper)[2]>>
    BY DEF OrderedPair
  <2> DEFINE P == {OrderedPair(e.lower, e.upper) :
                     e \in {d \in edges : coarse[d.lower] # coarse[d.upper]}}
             E(p) == [lower |-> p[1], upper |-> p[2], value |-> Total(p), face |-> 0]
  <2>2. CoarseEdges = {E(p) : p \in P}
    BY DEF CoarseEdges
  <2>3. \A p \in P : <<E(p).lower, E(p).upper>> = p
    BY <2>1
  <2> HIDE DEF P, E
  <2>4. Pairs(CoarseEdges) = P
    BY <2>2, <2>3 DEF Pairs
  <2> QED BY <2>4 DEF P
<1>6. \A x, y \in Rows : coarse[x] # coarse[y] =>
        /\ OrderedPair(x, y) \in Connections(nCoarse)
        /\ {coarse[x], coarse[y]} = {OrderedPair(x, y)[1], OrderedPair(x, y)[2]}
  BY <1>2, <1>3 DEF OrderedPair, Connections
<1>7. \A x, y \in Rows : \A q \in Connections(nCoarse) :
        {coarse[x], coarse[y]} = {q[1], q[2]} => coarse[x] # coarse[y] /\ OrderedPair(x, y) = q
  <2> TAKE x \in Rows, y \in Rows
  <2> TAKE q \in Connections(nCoarse)
  <2> HAVE {coarse[x], coarse[y]} = {q[1], q[2]}
  <2>1. q[1] < q[2] /\ q[1] \in 0 .. nCoarse - 1 /\ q[2] \in 0 .. nCoarse - 1 /\ q = <<q[1], q[2]>>
    BY DEF Connections
  <2>2. \/ coarse[x] = q[1] /\ coarse[y] = q[2]
        \/ coarse[x] = q[2] /\ coarse[y] = q[1]
    OBVIOUS
  <2>3. CASE coarse[x] = q[1] /\ coarse[y] = q[2]
    BY <2>1, <2>3 DEF OrderedPair
  <2>4. CASE coarse[x] = q[2] /\ coarse[y] = q[1]
    BY <2>1, <2>4 DEF OrderedPair
  <2> QED BY <2>2, <2>3, <2>4
<1>8. Pairs(CoarseEdges) = CoarseLinks
  <2>1. ASSUME NEW q \in Pairs(CoarseEdges) PROVE q \in CoarseLinks
    <3>1. PICK e \in edges : coarse[e.lower] # coarse[e.upper] /\ q = OrderedPair(e.lower, e.upper)
      BY <1>5
    <3>2. e.lower \in Rows /\ e.upper \in Rows /\ <<e.lower, e.upper>> \in links
      BY <1>4, Ends DEF Pairs
    <3>3. q \in Connections(nCoarse) /\ {coarse[e.lower], coarse[e.upper]} = {q[1], q[2]}
      BY <1>6, <3>1, <3>2
    <3> DEFINE p == <<e.lower, e.upper>>
    <3>4. p \in links /\ {coarse[p[1]], coarse[p[2]]} = {q[1], q[2]}
      BY <3>2, <3>3
    <3> QED BY <3>3, <3>4 DEF CoarseLinks
  <2>2. ASSUME NEW q \in CoarseLinks PROVE q \in Pairs(CoarseEdges)
    <3>1. /\ q \in Connections(nCoarse)
          /\ \E p \in links : {coarse[p[1]], coarse[p[2]]} = {q[1], q[2]}
      BY DEF CoarseLinks
    <3>2. PICK e \in edges : {coarse[e.lower], coarse[e.upper]} = {q[1], q[2]}
      BY <1>4, <3>1 DEF Pairs
    <3>3. e.lower \in Rows /\ e.upper \in Rows
      BY Ends
    <3>4. coarse[e.lower] # coarse[e.upper] /\ OrderedPair(e.lower, e.upper) = q
      BY <1>7, <3>1, <3>2, <3>3
    <3> QED BY <1>5, <3>4
  <2> QED BY <2>1, <2>2
<1>9. BuildTypeOK'
  <2>1. levels' \in 1 .. MaxLevels /\ cells' \in 1 .. NCells
    BY <1>0, PairingAssumption DEF BuildTypeOK, Room
  <2>2. links' \subseteq Connections(cells') /\ Pairs(edges') \subseteq Connections(cells')
    BY <1>0, <1>8 DEF CoarseLinks
  <2>3. /\ coarse' \in [Rows' -> {Unassigned} \cup (0 .. nCoarse' - 1)]
        /\ nCoarse' \in Nat /\ matched' \subseteq Rows' /\ offset' \in 0 .. cells'
    BY <1>0, <1>1, <1>2
  <2> QED BY <1>0, <2>1, <2>2, <2>3 DEF BuildTypeOK, Pairs
<1>10. \A x \in Rows' : coarse'[x] = Unassigned
  BY <1>1, <1>2
<1>11. Assigned' /\ Fresh'
  BY <1>0, <1>10 DEF Assigned, Fresh
<1>12. \A a : a \notin 0 .. nCoarse' - 1
  BY <1>0
<1>13. Seeded' /\ Connected'
  BY <1>0, <1>12 DEF Seeded, Connected
<1>14. FromMatrix' /\ FollowsMatrix'
  BY <1>0, <1>8 DEF FromMatrix, FollowsMatrix, Pairs
<1>15. Room'
  BY <1>0, PairingAssumption DEF Room, BuildTypeOK
<1> QED BY <1>9, <1>11, <1>13, <1>14, <1>15
-----------------------------------------------------------------------------
\* The inductive invariant holds in every state of every build.
THEOREM BuildInvariance == BuildSpec => []BuildInv
<1>1. BuildInv /\ UNCHANGED buildVars => BuildInv'
  <2> SUFFICES ASSUME BuildInv, UNCHANGED buildVars PROVE BuildInv'
    OBVIOUS
  <2> USE DEF BuildInv
  <2>1. UNCHANGED <<source, levels, cells, links, edges, forward, build, offset, coarse, nCoarse, matched>>
    BY DEF buildVars, levelVars
  <2>2. /\ Rows' = Rows
        /\ \A a : Aggregate(a)' = Aggregate(a)
        /\ \A x : Incident(x)' = Incident(x)
        /\ \A x : Passed(x)' = Passed(x)
    BY <2>1 DEF Rows, Aggregate, Incident, Passed
  <2>3. BuildTypeOK' /\ Assigned' /\ Fresh' /\ Room' /\ FromMatrix' /\ FollowsMatrix'
    BY <2>1, <2>2 DEF BuildTypeOK, Assigned, Fresh, Room, FromMatrix, FollowsMatrix
  <2>4. Seeded' /\ Connected'
    BY <2>1, <2>2 DEF Seeded, Connected
  <2> QED BY <2>3, <2>4
<1>2. BuildInv /\ [BuildNext]_buildVars => BuildInv'
  BY <1>1, MatchKeeps, JoinKeeps, SingleKeeps, RestKeeps, EndRestKeeps, CoarsenKeeps DEF BuildNext
<1> QED BY InitBuildInv, <1>2, PTL DEF BuildSpec

\* The map, the counters and the connections are well formed on every level.
THEOREM BuildTypeCorrect == BuildSpec => []BuildTypeOK
<1>1. BuildInv => BuildTypeOK
  BY DEF BuildInv
<1> QED BY BuildInvariance, <1>1, PTL

\* Whatever the weights and their ties, a finished map puts every cell into an aggregate that was
\* seeded by one matched pair, or leaves it alone when it has no connections.
THEOREM EveryCellOnce == BuildSpec => []OneSeed
<1>1. BuildInv => OneSeed
  <2> SUFFICES ASSUME BuildInv, build = "decide"
               PROVE  /\ \A c \in Rows : coarse[c] \in 0 .. nCoarse - 1
                      /\ \A a \in 0 .. nCoarse - 1 :
                           \/ \E e \in edges : Aggregate(a) \cap matched = {e.lower, e.upper}
                           \/ \E c \in Rows : Aggregate(a) = {c} /\ Incident(c) = {}
    BY DEF OneSeed
  <2> QED BY DEF BuildInv, BuildTypeOK, Assigned, Seeded
<1> QED BY BuildInvariance, <1>1, PTL

\* No aggregate of any level falls apart, however many cells joined it after its pair.
THEOREM AggregatesConnected == BuildSpec => []Connected
<1>1. BuildInv => Connected
  BY DEF BuildInv
<1> QED BY BuildInvariance, <1>1, PTL

\* The connections of every coarse level are the couplings of its matrix.
THEOREM ConnectionsFollow == BuildSpec => []FollowsMatrix
<1>1. BuildInv => FollowsMatrix
  BY DEF BuildInv
<1> QED BY BuildInvariance, <1>1, PTL
=============================================================================
