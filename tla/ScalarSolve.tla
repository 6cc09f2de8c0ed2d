---------------------------- MODULE ScalarSolve ----------------------------
(***************************************************************************)
(* One scalar linear solve of flow.rs: the residual of the initial values, *)
(* the iteration of one of the kernels of linear.rs, which stops by a test *)
(* of its own on a residual of its own, and the recheck of what it claims  *)
(* on the residual of the solution it returned.                            *)
(*                                                                         *)
(* A residual is the pair of its L1 norm, in units of the normalisation    *)
(* factor, and its L2 norm; of n components the L1 norm is between the L2  *)
(* norm and Spread, the square root of n, times the L2 norm.  A residual   *)
(* that is not a number compares with nothing.  The recurrence of a Krylov *)
(* kernel may drift from the residual of its solution.  relTol is the      *)
(* ratio num/den, not active when num is 0.  Solutions are counted by the  *)
(* updates made to them, matrices are versions.                            *)
(***************************************************************************)
EXTENDS Integers

CONSTANTS
  Solvers,          \* the kernels a solve may ask for
  Preconditioners,  \* the preconditioners a PCG workspace may be built with
  Matrices,         \* versions of the coefficients
  Controls,         \* the controls a solve may be called with
  Spread,           \* the square root of the number of components
  MaxNorm,          \* bound on the norms
  MaxSolves         \* bound on the number of solves

Stationary == {"Jacobi", "GaussSeidel", "symGaussSeidel"}
L2Kernels == Stationary \cup {"CG", "BiCGStab"}
Kernels == L2Kernels \cup {"PCG", "GAMG"}

ASSUME ScalarAssumption ==
  /\ Solvers \subseteq Kernels
  /\ Preconditioners \subseteq {"none", "diagonal", "incompleteCholesky", "faceLdu"}
  /\ Matrices \subseteq Nat \ {0}
  /\ Controls \subseteq [tolerance : Nat, num : Nat, den : Nat \ {0}, max : Nat, min : Nat]
  /\ Spread \in Nat \ {0}
  /\ MaxNorm \in Nat
  /\ MaxSolves \in Nat

VARIABLES
  preconditioner,  \* preconditioner_kind of the PCG workspace
  factors,         \* the matrix its factors are of (0: of none or of two)
  valid,           \* valid, the flag of the face-LDU factors
  pc,              \* the phase of the running solve, idle between solves
  call,            \* its arguments
  first,           \* the residual of its initial values
  iteration,       \* the iteration of its kernel
  updates,         \* how often the kernel has updated the solution
  residual,        \* the residual as the kernel knows it
  residualOf,      \* the solution that residual is of
  drifted,         \* whether the recurrence has left the residual of the solution
  claim,           \* how the kernel says it ended
  result,          \* what the last solve returned
  solves           \* the number of solves so far

workspace == <<preconditioner, factors, valid>>
kernel == <<iteration, updates, residual, residualOf, drifted>>
vars == <<workspace, pc, call, first, kernel, claim, result, solves>>

Norms == {r \in [l1 : 0 .. MaxNorm, l2 : 0 .. MaxNorm] : r.l2 <= r.l1 /\ r.l1 <= Spread * r.l2}
NotANumber == [l1 |-> -1, l2 |-> -1]
Residuals == Norms \cup {NotANumber}
Zero == [l1 |-> 0, l2 |-> 0]

NoClaim == [termination |-> "none", iterations |-> 0]
NoResult == [status |-> "none"]
Failed == [status |-> "error"]

Init == /\ preconditioner \in Preconditioners
        /\ factors = 0
        /\ valid = FALSE
        /\ pc = "idle"
        /\ \E s \in Solvers, m \in Matrices, c \in Controls :
             call = [solver |-> s, matrix |-> m, controls |-> c]
        /\ first = Zero
        /\ iteration = 0 /\ updates = 0 /\ residual = Zero /\ residualOf = 0 /\ drifted = FALSE
        /\ claim = NoClaim
        /\ result = NoResult
        /\ solves = 0
-----------------------------------------------------------------------------
(***************************************************************************)
(* The target and the tests.  Everything is multiplied by den.             *)
(***************************************************************************)
Target(c, initial) == IF c.num * initial.l1 > c.den * c.tolerance
                        THEN c.num * initial.l1
                        ELSE c.den * c.tolerance

DominantReason(c, initial) ==
  IF c.num * initial.l1 > c.den * c.tolerance THEN "relative" ELSE "absolute"

Meets(r, c, initial) == /\ r # NotANumber
                        /\ \/ r.l1 < c.tolerance
                           \/ c.num > 0 /\ c.den * r.l1 < c.num * initial.l1

\* The L2 test of the kernels without the step down to the next number below the limit.
MeetsL2OrEqual(r, c, initial) == r # NotANumber /\ c.den * Spread * r.l2 <= Target(c, initial)

MeetsL2(r, c, initial) == /\ r # NotANumber
                          /\ IF Target(c, initial) = 0
                               THEN r.l2 = 0
                               ELSE c.den * Spread * r.l2 < Target(c, initial)

Limit(c) == IF call.solver # "GAMG" THEN c.max
            ELSE CHOOSE n \in {c.max, c.min, 1} : \A k \in {c.max, c.min, 1} : k <= n

\* The test a kernel applies to the residual it has.
Stops(r) == IF call.solver \in L2Kernels THEN MeetsL2(r, call.controls, first)
                                         ELSE Meets(r, call.controls, first)
-----------------------------------------------------------------------------
\* The solve returns; its kernel leaves nothing but the workspace.
Return(r) == /\ result' = r
             /\ pc' = "idle"
             /\ first' = Zero
             /\ iteration' = 0 /\ updates' = 0 /\ residual' = Zero /\ residualOf' = 0
             /\ drifted' = FALSE
             /\ claim' = NoClaim
             /\ UNCHANGED <<call, solves>>

Fail == Return(Failed) /\ UNCHANGED workspace

Report(s, c, initial, converged, termination, reason, norm, actual) ==
  [status |-> "ok", solver |-> s, controls |-> c, initial |-> initial,
   converged |-> converged, termination |-> termination, reason |-> reason, norm |-> norm,
   actual |-> actual,
   iterations |-> claim.iterations, solutionOf |-> updates, residualOf |-> residualOf,
   claimed |-> claim.termination, drifted |-> drifted]

\* Initial values that are good enough as they are, but for the kernels that test them themselves.
EarlyReason(s, c, initial) ==
  IF s = "GAMG" THEN IF initial.l1 = 0 /\ c.min = 0 THEN "exactZero" ELSE "none"
  ELSE IF s # "PCG" /\ Meets(initial, c, initial) THEN DominantReason(c, initial) ELSE "none"

\* A factor of normalisation that is not finite is refused, so the initial residual is a number.
Solve(s, m, c) ==
  /\ pc = "idle"
  /\ solves < MaxSolves
  /\ solves' = solves + 1
  /\ call' = [solver |-> s, matrix |-> m, controls |-> c]
  /\ \E r \in Norms :
       IF EarlyReason(s, c, r) # "none"
         THEN /\ result' = Report(s, c, r, TRUE, "converged", EarlyReason(s, c, r), r, r)
              /\ UNCHANGED <<workspace, pc, first, kernel, claim>>
         ELSE /\ pc' = "begin"
              /\ first' = r
              /\ residual' = r
              /\ result' = NoResult
              /\ UNCHANGED <<workspace, iteration, updates, residualOf, drifted, claim>>

\* An argument is refused, or the factor is.
Reject == /\ pc = "idle"
          /\ solves < MaxSolves
          /\ solves' = solves + 1
          /\ result' = Failed
          /\ UNCHANGED <<workspace, pc, call, first, kernel, claim>>

\* The kernel returns to solve_scalar_system_with_workspaces.
Claims(termination, iterations) ==
  /\ pc' = "recheck"
  /\ claim' = [termination |-> termination, iterations |-> iterations]
  /\ UNCHANGED <<call, first, iteration, result, solves>>

Keeps == UNCHANGED <<workspace, updates, residual, residualOf, drifted>>
-----------------------------------------------------------------------------
(***************************************************************************)
(* What the kernels do before their first iteration.                       *)
(***************************************************************************)

\* The kernels with an L2 test begin with it.
Begin == /\ pc = "begin"
         /\ call.solver \in L2Kernels
         /\ Keeps
         /\ IF Stops(residual)
              THEN Claims("converged", 0)
              ELSE /\ pc' = "step"
                   /\ iteration' = 1
                   /\ UNCHANGED <<call, first, claim, result, solves>>

\* PCG tests the residual it is given before it updates its preconditioner.
BeginPcg == /\ pc = "begin"
            /\ call.solver = "PCG"
            /\ Keeps
            /\ IF Stops(residual) THEN Claims("converged", 0)
               ELSE IF call.controls.max = 0 THEN Claims("maxIterations", 0)
               ELSE pc' = "factorise" /\ UNCHANGED <<call, first, iteration, claim, result, solves>>

\* A zero diagonal, or a preconditioner that cannot be built.
BeginFails == /\ pc = "begin"
              /\ call.solver \in {"Jacobi", "BiCGStab", "PCG", "GAMG"}
              /\ Fail

\* Keeping the factors of another solve because they are there.
FactorisedOnce == IF factors = 0 THEN call.matrix ELSE factors

Factorised == call.matrix

Factorise == /\ pc = "factorise"
             /\ factors' = Factorised
             /\ valid' = (preconditioner = "faceLdu")
             /\ pc' = "precondition"
             /\ UNCHANGED <<preconditioner, call, first, kernel, claim, result, solves>>

\* A pivot is refused half way; only the face-LDU factors are marked.
FactoriseFails == /\ pc = "factorise"
                  /\ preconditioner # "none"
                  /\ factors' = 0
                  /\ valid' = FALSE
                  /\ Return(Failed)
                  /\ UNCHANGED preconditioner

\* The preconditioned residual and its product with the residual give the next direction.
Precondition == /\ pc = "precondition"
                /\ preconditioner = "faceLdu" => valid
                /\ pc' = "step"
                /\ iteration' = iteration + 1
                /\ Keeps
                /\ UNCHANGED <<call, first, claim, result, solves>>

\* The product is singular: the direction would be none.
PreconditionBreaksDown == /\ pc = "precondition"
                          /\ preconditioner = "faceLdu" => valid
                          /\ Claims("breakdown", iteration)
                          /\ Keeps

PreconditionFails == pc = "precondition" /\ Fail
-----------------------------------------------------------------------------
(***************************************************************************)
(* The iterations.                                                         *)
(***************************************************************************)
\* Without the end of the loop.
IteratesOn == pc = "step"

Iterates == pc = "step" /\ iteration <= Limit(call.controls)

\* A residual taken over without the update it belongs to.
Forgotten(n) == n

Updated(n) == n + 1

\* The solution is updated and its residual known to be r.
Update(r, drifts) == /\ updates' = Updated(updates)
                     /\ residual' = r
                     /\ residualOf' = updates + 1
                     /\ drifted' = (drifted \/ drifts)
                     /\ UNCHANGED workspace

\* The end of an iteration with residual r.
EndIteration(r) == IF Stops(r)
                     THEN Claims("converged", iteration)
                     ELSE /\ pc' = "step"
                          /\ iteration' = iteration + 1
                          /\ UNCHANGED <<call, first, claim, result, solves>>

\* A sweep over the rows, forth or forth and back; the residual is computed from the solution.
Sweep == /\ Iterates
         /\ call.solver \in Stationary
         /\ \E r \in Residuals : Update(r, FALSE) /\ EndIteration(r)

CgStep == /\ Iterates
          /\ call.solver = "CG"
          /\ \E r \in Residuals, drifts \in BOOLEAN : Update(r, drifts) /\ EndIteration(r)

\* The step of PCG; a residual that does not stop it is preconditioned first.
PcgStep == /\ Iterates
           /\ call.solver = "PCG"
           /\ \E r \in Residuals, drifts \in BOOLEAN :
                /\ Update(r, drifts)
                /\ IF Stops(r)
                     THEN Claims("converged", iteration)
                     ELSE /\ pc' = "precondition"
                          /\ UNCHANGED <<call, first, iteration, claim, result, solves>>

\* BiCGStab may stop after the first half of a step, with the first half of the update.
HalfStep == /\ Iterates
            /\ call.solver = "BiCGStab"
            /\ \E s \in Residuals, drifts \in BOOLEAN :
                 IF Stops(s)
                   THEN Update(s, drifts) /\ Claims("converged", iteration)
                   ELSE /\ pc' = "half"
                        /\ Keeps
                        /\ UNCHANGED <<call, first, iteration, claim, result, solves>>

FullStep == /\ pc = "half"
            /\ \E r \in Residuals, drifts \in BOOLEAN : Update(r, drifts) /\ EndIteration(r)

\* A singular product: the solution stays that of the iteration before.
Breakdown == /\ \/ Iterates /\ call.solver \in {"CG", "PCG", "BiCGStab"}
                \/ pc = "half"
             /\ Claims("breakdown", iteration)
             /\ Keeps

\* An update or a product is not finite.
StepFails == (Iterates \/ pc = "half") /\ Fail

\* The loop ends without a claim.
Exhausted == /\ pc = "step"
             /\ iteration > Limit(call.controls)
             /\ Claims("maxIterations", Limit(call.controls))
             /\ Keeps

\* The multigrid kernel, as GamgWorkspace has it.
Multigrid == /\ pc = "begin"
             /\ call.solver = "GAMG"
             /\ \E n \in 1 .. Limit(call.controls), r \in Residuals, drifts \in BOOLEAN :
                  \/ /\ n >= call.controls.min /\ Stops(r)
                     /\ Update(r, drifts) /\ Claims("converged", n)
                  \/ /\ n = Limit(call.controls) /\ ~Stops(r)
                     /\ Update(r, drifts) /\ Claims("maxIterations", n)
                  \/ r # Zero /\ Update(r, drifts) /\ Claims("breakdown", n)
-----------------------------------------------------------------------------
\* What the residual of the returned solution may be.
Actual == IF drifted THEN Residuals ELSE {residual}

\* Taking the kernel's word for it.
Trusted(actual) == residual

\* The residual is computed again from the solution.
Remeasured(actual) == actual

Recheck ==
  /\ pc = "recheck"
  /\ \E actual \in Actual :
       LET c == call.controls
           norm == Remeasured(actual)
           exactZero == /\ call.solver = "GAMG" /\ norm = Zero
                        /\ claim.termination = "converged" /\ claim.iterations = 0
           converged == exactZero \/ Meets(norm, c, first)
           termination == IF converged THEN "converged"
                          ELSE IF claim.termination = "breakdown" THEN "breakdown"
                          ELSE "maxIterations"
           reason == IF exactZero THEN "exactZero"
                     ELSE IF converged THEN DominantReason(c, first)
                     ELSE termination
       IN  Return(Report(call.solver, c, first, converged, termination, reason, norm, actual))
  /\ UNCHANGED workspace

Next == \/ \E s \in Solvers, m \in Matrices, c \in Controls : Solve(s, m, c)
        \/ Reject
        \/ Begin \/ BeginPcg \/ BeginFails
        \/ Factorise \/ FactoriseFails
        \/ Precondition \/ PreconditionBreaksDown \/ PreconditionFails
        \/ Sweep \/ CgStep \/ PcgStep \/ HalfStep \/ FullStep
        \/ Breakdown \/ StepFails \/ Exhausted
        \/ Multigrid
        \/ Recheck

Spec == Init /\ [][Next]_vars
-----------------------------------------------------------------------------
Call == [solver : Solvers, matrix : Matrices, controls : Controls]
Terminations == {"converged", "maxIterations", "breakdown"}
Reports == [status : {"ok"}, solver : Solvers, controls : Controls, initial : Norms,
            converged : BOOLEAN, termination : Terminations,
            reason : {"absolute", "relative", "exactZero", "maxIterations", "breakdown"},
            norm : Residuals, actual : Residuals, iterations : Nat, solutionOf : Nat,
            residualOf : Nat, claimed : Terminations \cup {"none"}, drifted : BOOLEAN]

TypeOK == /\ preconditioner \in Preconditioners
          /\ factors \in Matrices \cup {0}
          /\ valid \in BOOLEAN
          /\ pc \in {"idle", "begin", "factorise", "precondition", "step", "half", "recheck"}
          /\ call \in Call
          /\ first \in Norms
          /\ iteration \in 0 .. Limit(call.controls) + 1
          /\ updates \in Nat
          /\ residual \in Residuals
          /\ residualOf \in Nat
          /\ drifted \in BOOLEAN
          /\ claim \in [termination : Terminations \cup {"none"}, iterations : Nat]
          /\ result \in {NoResult, Failed} \cup Reports
          /\ solves \in 0 .. MaxSolves

\* What a solve reports is true of the solution it returns, whatever its kernel believed: it is
\* converged exactly when the residual computed from that solution is a number strictly below
\* the tolerance or the relative limit, but for the exact zero of the multigrid kernel, and the
\* reason it gives is the larger of the two limits.
TrueConvergence ==
  result.status = "ok" =>
    LET c == result.controls
        below == /\ result.actual # NotANumber
                 /\ c.den * result.actual.l1 < Target(c, result.initial)
    IN  /\ result.converged <=> (below \/ result.reason = "exactZero")
        /\ result.reason = "exactZero" =>
             result.solver = "GAMG" /\ result.actual = Zero /\ result.iterations = 0
        /\ result.reason = "relative" => c.num * result.initial.l1 > c.den * c.tolerance
        /\ result.converged <=> result.termination = "converged"

\* A kernel that stops by its own test has done enough: unless its recurrence drifted, or the
\* target is zero, the recheck does not take its convergence back, and no other
\* solve ends for its iterations before the limit.  The L2 limit of the kernels is strict enough
\* for the L1 target.
ClaimKept ==
  result.status = "ok" /\ ~result.drifted /\ Target(result.controls, result.initial) > 0 =>
    /\ result.claimed = "converged" => result.converged
    /\ result.termination = "maxIterations" => result.iterations >= result.controls.max

\* The residual a kernel reports is that of the solution it returns, also when it stops half way
\* through a step or breaks down before one.
SameIterate == result.status = "ok" => result.residualOf = result.solutionOf

\* PCG is never preconditioned by the factors of another matrix, nor by those that a refused
\* factorisation left half written, although its workspace outlives the solve.
FreshFactors == pc = "precondition" => /\ factors = call.matrix
                                       /\ preconditioner = "faceLdu" => valid

\* The target of every linear solve is strict: a converged solve is below it.
StrictTarget ==
  result.status = "ok" /\ result.converged =>
    result.controls.den * result.norm.l1 < Target(result.controls, result.initial)
=============================================================================
