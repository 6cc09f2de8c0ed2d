-------------------------- MODULE ScalarSolveProofs --------------------------
(***************************************************************************)
(* Proofs about ScalarSolve, for any kernels, controls, norms, number of   *)
(* components and number of solves: the inductive invariant IInv and the   *)
(* properties that follow from it.  What arithmetic there is (the L2 limit *)
(* implies the L1 target) is TargetFacts and L2Suffices.                   *)
(***************************************************************************)
EXTENDS ScalarSolve, TLAPS

\* The kernel's residual is of the solution it has.
Paired == residualOf = updates

\* Between solves nothing of a kernel is left.
Idle == pc = "idle" => updates = 0 /\ iteration = 0 /\ ~drifted /\ claim = NoClaim

\* The iterations of the loops, and which kernel is in which.
Counted ==
  /\ pc \in {"idle", "begin", "factorise"} => iteration = 0
  /\ pc \in {"precondition", "half"} => iteration <= Limit(call.controls)
  /\ pc \in {"factorise", "precondition"} => call.solver = "PCG"
  /\ pc = "half" => call.solver = "BiCGStab"

\* The factors are of the matrix from the factorisation to the end of PCG's loop.
Fresh == pc = "precondition" \/ (pc = "step" /\ call.solver = "PCG") =>
           factors = call.matrix /\ (preconditioner = "faceLdu" => valid)

\* What the kernel claims it has seen.
Claimed ==
  pc = "recheck" =>
    /\ claim.termination \in Terminations
    /\ claim.termination = "converged" => Stops(residual)
    /\ claim.termination = "maxIterations" => claim.iterations >= call.controls.max

\* What is reported.
Reported == TrueConvergence /\ ClaimKept /\ SameIterate

IInv == TypeOK /\ Paired /\ Idle /\ Counted /\ Fresh /\ Claimed /\ Reported
-----------------------------------------------------------------------------
(***************************************************************************)
(* The limits and the norms.                                               *)
(***************************************************************************)
LEMMA ControlFacts ==
  ASSUME NEW c \in Controls
  PROVE  /\ c.tolerance \in Nat /\ c.num \in Nat /\ c.den \in Nat /\ c.den # 0
         /\ c.max \in Nat /\ c.min \in Nat
  BY ScalarAssumption

LEMMA CallFacts ==
  ASSUME TypeOK
  PROVE  /\ call.solver \in Solvers /\ call.matrix \in Matrices /\ call.controls \in Controls
         /\ call.controls.max \in Nat /\ call.controls.min \in Nat
<1>1. call \in [solver : Solvers, matrix : Matrices, controls : Controls]
  BY DEF TypeOK, Call
<1> QED
  BY <1>1, ControlFacts

LEMMA LimitFacts ==
  ASSUME TypeOK
  PROVE  Limit(call.controls) \in Nat /\ call.controls.max <= Limit(call.controls)
<1> DEFINE S == {call.controls.max, call.controls.min, 1}
           Largest(n) == n \in S /\ \A k \in S : k <= n
<1>1. call.controls.max \in Nat /\ call.controls.min \in Nat
  BY CallFacts
<1>2. S \subseteq Nat /\ call.controls.max \in S
  BY <1>1
<1>3. \E n : Largest(n)
  BY <1>1
<1>4. Largest(CHOOSE n : Largest(n))
  BY <1>3, Zenon
<1>5. (CHOOSE n \in S : \A k \in S : k <= n) = CHOOSE n : Largest(n)
  OBVIOUS
<1>6. (CHOOSE n \in S : \A k \in S : k <= n) \in Nat
      /\ call.controls.max <= (CHOOSE n \in S : \A k \in S : k <= n)
  BY <1>2, <1>4, <1>5
<1> HIDE DEF Largest
<1>7. \/ Limit(call.controls) = call.controls.max
      \/ Limit(call.controls) = CHOOSE n \in S : \A k \in S : k <= n
  BY DEF Limit
<1> QED
  BY <1>1, <1>6, <1>7

LEMMA NormFacts ==
  /\ \A r \in Norms : /\ r.l1 \in Nat /\ r.l2 \in Nat
                       /\ r.l1 <= Spread * r.l2 /\ r # NotANumber
  /\ Residuals = Norms \cup {NotANumber}
  /\ Zero \in Norms /\ Zero.l1 = 0
  /\ Spread \in Nat
<1>1. Spread \in Nat /\ MaxNorm \in Nat
  BY ScalarAssumption
<1>2. \A r \in Norms : /\ r.l1 \in Nat /\ r.l2 \in Nat
                        /\ r.l1 <= Spread * r.l2
  BY <1>1 DEF Norms
<1>3. \A r \in Norms : r # NotANumber
  <2>1. NotANumber.l1 = -1
    BY DEF NotANumber
  <2> QED
    BY <1>2, <2>1
<1>4. Zero \in Norms /\ Zero.l1 = 0
  <2>1. Zero \in [l1 : 0 .. MaxNorm, l2 : 0 .. MaxNorm] /\ Zero.l1 = 0 /\ Zero.l2 = 0
    BY <1>1 DEF Zero
  <2>2. Spread * 0 = 0
    BY <1>1
  <2> QED
    BY <2>1, <2>2 DEF Norms
<1> QED
  BY <1>1, <1>2, <1>3, <1>4 DEF Residuals

LEMMA Product == \A a, b \in Nat : a * b \in Nat
  OBVIOUS

\* A product by a positive number keeps the order.
LEMMA Scaled ==
  ASSUME NEW d \in Nat, d # 0, NEW a \in Nat, NEW b \in Nat
  PROVE  (a <= b => d * a <= d * b) /\ (d * a < d * b <=> a < b)
<1>1. a <= b => d * a <= d * b
  OBVIOUS
<1>2. b <= a => d * b <= d * a
  OBVIOUS
<1>3. a < b => d * a < d * b
  OBVIOUS
<1>4. d * a \in Nat /\ d * b \in Nat
  OBVIOUS
<1> QED
  BY <1>1, <1>2, <1>3, <1>4

\* To be below the tolerance or the relative limit is to be below the target.
LEMMA TargetFacts ==
  ASSUME NEW c \in Controls, NEW initial \in Norms
  PROVE  /\ Target(c, initial) \in Nat
         /\ \A r \in Norms : Meets(r, c, initial) <=> c.den * r.l1 < Target(c, initial)
         /\ ~Meets(NotANumber, c, initial)
<1>1. /\ c.tolerance \in Nat /\ c.num \in Nat /\ c.den \in Nat /\ c.den # 0
      /\ initial.l1 \in Nat
  BY ControlFacts, NormFacts
<1> DEFINE relative == c.num * initial.l1
           absolute == c.den * c.tolerance
<1>2. relative \in Nat /\ absolute \in Nat
  BY <1>1, Product
<1>3. c.num = 0 => relative = 0
  BY <1>1
<1>4. Target(c, initial) = IF relative > absolute THEN relative ELSE absolute
  BY DEF Target
<1> HIDE DEF relative, absolute
<1>5. ASSUME NEW r \in Norms
      PROVE  Meets(r, c, initial) <=> c.den * r.l1 < Target(c, initial)
  <2>1. r.l1 \in Nat /\ r # NotANumber /\ c.den * r.l1 \in Nat
    BY <1>1, NormFacts, Product
  <2>2. r.l1 < c.tolerance <=> c.den * r.l1 < absolute
    BY <1>1, <2>1, Scaled DEF absolute
  <2>3. c.den * r.l1 < relative => c.num > 0
    BY <1>1, <1>2, <1>3, <2>1
  <2>4. CASE r.l1 < c.tolerance
    <3>1. Meets(r, c, initial)
      BY <2>1, <2>4 DEF Meets
    <3> QED
      BY <1>2, <1>4, <2>1, <2>2, <2>4, <3>1
  <2>5. CASE ~(r.l1 < c.tolerance)
    <3>1. Meets(r, c, initial) <=> c.num > 0 /\ c.den * r.l1 < relative
      BY <2>1, <2>5 DEF Meets, relative
    <3> QED
      BY <1>1, <1>2, <1>4, <2>1, <2>2, <2>3, <2>5, <3>1
  <2> QED
    BY <2>4, <2>5
<1>6. ~Meets(NotANumber, c, initial)
  BY DEF Meets
<1> QED
  BY <1>2, <1>4, <1>5, <1>6

\* An L2 norm below its limit is enough for the target, unless the target is zero.
LEMMA L2Suffices ==
  ASSUME NEW c \in Controls, NEW initial \in Norms, NEW r \in Residuals,
         Target(c, initial) > 0, MeetsL2(r, c, initial)
  PROVE  Meets(r, c, initial)
<1>1. r \in Norms /\ c.den * Spread * r.l2 < Target(c, initial)
  BY NormFacts DEF MeetsL2
<1>2. /\ c.den \in Nat /\ c.den # 0 /\ r.l1 \in Nat /\ r.l2 \in Nat /\ Spread \in Nat
      /\ r.l1 <= Spread * r.l2 /\ Spread * r.l2 \in Nat
      /\ Target(c, initial) \in Nat
  BY <1>1, ControlFacts, NormFacts, TargetFacts, Product
<1>3. c.den * r.l1 <= c.den * (Spread * r.l2)
  BY <1>2, Scaled
<1>4. c.den * (Spread * r.l2) = c.den * Spread * r.l2
  BY <1>2
<1>5. c.den * r.l1 \in Nat /\ c.den * (Spread * r.l2) \in Nat
  BY <1>2, Product
<1>6. c.den * r.l1 < Target(c, initial)
  BY <1>1, <1>2, <1>3, <1>4, <1>5
<1> QED
  BY <1>1, <1>6, TargetFacts

-----------------------------------------------------------------------------
(***************************************************************************)
(* What the actions have in common.                                        *)
(***************************************************************************)
Phases == {"begin", "factorise", "precondition", "step", "half", "recheck"}
Claim == [termination : Terminations \cup {"none"}, iterations : Nat]
WorkspaceOK == preconditioner \in Preconditioners /\ factors \in Matrices \cup {0}
               /\ valid \in BOOLEAN

LEMMA Parts ==
  ASSUME IInv
  PROVE  /\ WorkspaceOK /\ pc \in Phases \cup {"idle"} /\ call \in Call /\ first \in Norms
         /\ iteration \in Nat /\ iteration <= Limit(call.controls) + 1
         /\ updates \in Nat /\ residual \in Residuals /\ residualOf = updates
         /\ drifted \in BOOLEAN /\ claim \in Claim
         /\ Limit(call.controls) \in Nat /\ call.controls.max <= Limit(call.controls)
         /\ call.solver \in Solvers /\ call.matrix \in Matrices /\ call.controls \in Controls
         /\ call.controls.max \in Nat
<1>1. TypeOK
  BY DEF IInv
<1>2. /\ Limit(call.controls) \in Nat /\ call.controls.max <= Limit(call.controls)
      /\ call.solver \in Solvers /\ call.matrix \in Matrices /\ call.controls \in Controls
      /\ call.controls.max \in Nat
  BY <1>1, LimitFacts, CallFacts
<1> QED
  BY <1>1, <1>2 DEF IInv, TypeOK, Paired, Phases, Claim, WorkspaceOK

LEMMA SameResult == ASSUME Reported, result' = result PROVE Reported'
  BY DEF Reported, TrueConvergence, ClaimKept, SameIterate

\* A step of a running kernel.
LEMMA KernelStep ==
  ASSUME IInv, UNCHANGED <<call, first, result, solves>>, WorkspaceOK', pc' \in Phases,
         iteration' \in Nat, iteration' <= Limit(call.controls) + 1,
         updates' \in Nat, residualOf' = updates', residual' \in Residuals,
         drifted' \in BOOLEAN, claim' \in Claim,
         Counted', Fresh', Claimed'
  PROVE  IInv'
<1>1. Limit(call.controls)' = Limit(call.controls)
  BY DEF Limit
<1>2. iteration' \in 0 .. Limit(call.controls)' + 1
  BY <1>1, Parts
<1>3. updates' \in Nat /\ residualOf' \in Nat
  OBVIOUS
<1>4. TypeOK'
  BY <1>2, <1>3 DEF IInv, TypeOK, Phases, Claim, WorkspaceOK
<1>5. Paired' /\ Idle'
  BY DEF Paired, Idle, Phases
<1>6. Reported'
  BY SameResult DEF IInv
<1> QED
  BY <1>4, <1>5, <1>6 DEF IInv

\* The kernel returns with a claim.
LEMMA Claiming ==
  ASSUME IInv, NEW t \in Terminations, NEW n \in Nat, Claims(t, n), WorkspaceOK',
         updates' \in Nat, residualOf' = updates', residual' \in Residuals,
         drifted' \in BOOLEAN,
         t = "converged" => Stops(residual'),
         t = "maxIterations" => n >= call.controls.max
  PROVE  IInv'
<1>1. /\ pc' = "recheck" /\ claim' = [termination |-> t, iterations |-> n]
      /\ UNCHANGED <<call, first, iteration, result, solves>>
  BY DEF Claims
<1>2. claim' \in Claim /\ claim'.termination = t /\ claim'.iterations = n
  BY <1>1 DEF Claim
<1>3. Stops(residual)' <=> Stops(residual')
  BY <1>1 DEF Stops
<1>4. Claimed'
  BY <1>1, <1>2, <1>3 DEF Claimed
<1>5. Counted' /\ Fresh'
  BY <1>1 DEF Counted, Fresh
<1>6. iteration' \in Nat /\ iteration' <= Limit(call.controls) + 1 /\ pc' \in Phases
  BY <1>1, Parts DEF Phases
<1> QED
  BY <1>1, <1>2, <1>4, <1>5, <1>6, KernelStep

\* The kernel goes on to its next iteration.
LEMMA NextIteration ==
  ASSUME IInv, pc' = "step", iteration' = iteration + 1, iteration <= Limit(call.controls),
         UNCHANGED <<call, first, claim, result, solves>>, WorkspaceOK',
         updates' \in Nat, residualOf' = updates', residual' \in Residuals, drifted' \in BOOLEAN,
         call.solver = "PCG" =>
           factors' = call.matrix /\ (preconditioner' = "faceLdu" => valid')
  PROVE  IInv'
<1>1. Claimed' /\ Counted' /\ Fresh'
  BY DEF Claimed, Counted, Fresh
<1>2. iteration' \in Nat /\ iteration' <= Limit(call.controls) + 1 /\ claim' \in Claim
  BY Parts
<1> QED
  BY <1>1, <1>2, KernelStep DEF Phases

\* A solve that returns something true.
LEMMA Returning ==
  ASSUME IInv, NEW r \in {Failed} \cup Reports, Return(r), WorkspaceOK', Reported'
  PROVE  IInv'
<1>1. /\ result' = r /\ pc' = "idle" /\ first' = Zero
      /\ iteration' = 0 /\ updates' = 0 /\ residual' = Zero /\ residualOf' = 0
      /\ drifted' = FALSE /\ claim' = NoClaim /\ UNCHANGED <<call, solves>>
  BY DEF Return
<1>2. Limit(call.controls)' = Limit(call.controls) /\ Limit(call.controls) \in Nat
  BY <1>1, Parts DEF Limit
<1>3. NoClaim \in Claim
  BY DEF NoClaim, Claim
<1>4. Zero \in Norms /\ Zero \in Residuals
  BY NormFacts
<1>5. iteration' \in 0 .. Limit(call.controls)' + 1
  BY <1>1, <1>2
<1>6. TypeOK'
  BY <1>1, <1>3, <1>4, <1>5 DEF IInv, TypeOK, Claim, WorkspaceOK
<1>7. Paired' /\ Idle' /\ Counted' /\ Fresh' /\ Claimed'
  BY <1>1 DEF Paired, Idle, Counted, Fresh, Claimed
<1> QED
  BY <1>6, <1>7 DEF IInv

LEMMA Failing ==
  ASSUME IInv, Return(Failed), WorkspaceOK'
  PROVE  IInv'
<1>1. result' = Failed /\ Failed.status # "ok"
  BY DEF Return, Failed
<1>2. Reported'
  BY <1>1 DEF Reported, TrueConvergence, ClaimKept, SameIterate
<1> QED
  BY <1>2, Returning

LEMMA Unchanged ==
  ASSUME IInv, UNCHANGED workspace
  PROVE  WorkspaceOK'
  BY Parts DEF WorkspaceOK, workspace

LEMMA UpdateFacts ==
  ASSUME IInv, NEW r \in Residuals, NEW drifts \in BOOLEAN, Update(r, drifts)
  PROVE  /\ WorkspaceOK' /\ updates' \in Nat /\ residualOf' = updates'
         /\ residual' = r /\ residual' \in Residuals /\ drifted' \in BOOLEAN
         /\ UNCHANGED workspace
  BY Parts, Unchanged DEF Update, Updated

LEMMA KeepFacts ==
  ASSUME IInv, Keeps
  PROVE  /\ WorkspaceOK' /\ updates' \in Nat /\ residualOf' = updates'
         /\ residual' = residual /\ residual' \in Residuals /\ drifted' \in BOOLEAN
         /\ UNCHANGED workspace
<1>1. UNCHANGED <<workspace, updates, residual, residualOf, drifted>>
  BY DEF Keeps
<1> QED
  BY <1>1, Parts, Unchanged

LEMMA TerminationFacts == {"converged", "maxIterations", "breakdown"} \subseteq Terminations
  BY DEF Terminations

-----------------------------------------------------------------------------
(***************************************************************************)
(* The beginning and the end of a solve.                                   *)
(***************************************************************************)
LEMMA Initial == Init => IInv
<1> SUFFICES ASSUME Init PROVE IInv
  OBVIOUS
<1>1. PICK s \in Solvers, m \in Matrices, c \in Controls :
        call = [solver |-> s, matrix |-> m, controls |-> c]
  BY DEF Init
<1>2. call \in Call /\ call.controls \in Controls
  BY <1>1 DEF Call
<1>3. /\ preconditioner \in Preconditioners /\ factors = 0 /\ valid = FALSE /\ pc = "idle"
      /\ first = Zero /\ iteration = 0 /\ updates = 0 /\ residual = Zero /\ residualOf = 0
      /\ drifted = FALSE /\ claim = NoClaim /\ result = NoResult /\ solves = 0
  BY DEF Init
<1>4. Limit(call.controls) \in Nat
  <2>1. call.controls.max \in Nat /\ call.controls.min \in Nat
    BY <1>2, ControlFacts
  <2> DEFINE S == {call.controls.max, call.controls.min, 1}
  <2>2. S \subseteq Nat /\ \E n \in S : \A k \in S : k <= n
    BY <2>1
  <2> HIDE DEF S
  <2>3. (CHOOSE n \in S : \A k \in S : k <= n) \in Nat
    BY <2>2
  <2>4. \/ Limit(call.controls) = call.controls.max
        \/ Limit(call.controls) = CHOOSE n \in S : \A k \in S : k <= n
    BY DEF Limit, S
  <2> QED
    BY <2>1, <2>3, <2>4
<1>5. NoClaim \in Claim
  BY DEF NoClaim, Claim
<1>6. iteration \in 0 .. Limit(call.controls) + 1
  BY <1>3, <1>4
<1>7. TypeOK
  <2>1. first \in Norms /\ residual \in Residuals
    BY <1>3, NormFacts
  <2>2. solves \in 0 .. MaxSolves
    BY <1>3, ScalarAssumption
  <2>3. updates \in Nat /\ residualOf \in Nat /\ valid \in BOOLEAN /\ drifted \in BOOLEAN
    BY <1>3
  <2> QED
    BY <1>2, <1>3, <1>5, <1>6, <2>1, <2>2, <2>3 DEF TypeOK, Claim
<1>8. result.status # "ok"
  BY <1>3 DEF NoResult
<1>9. Reported
  BY <1>8 DEF Reported, TrueConvergence, ClaimKept, SameIterate
<1>10. Paired /\ Idle /\ Counted /\ Fresh /\ Claimed
  BY <1>3 DEF Paired, Idle, Counted, Fresh, Claimed
<1> QED
  BY <1>7, <1>9, <1>10 DEF IInv

\* What the reason of a converged solve says of the limits.
LEMMA ReasonFacts ==
  ASSUME NEW c \in Controls, NEW initial \in Norms
  PROVE  /\ DominantReason(c, initial) \in {"absolute", "relative"}
         /\ DominantReason(c, initial) = "relative" => c.num * initial.l1 > c.den * c.tolerance
  BY DEF DominantReason

\* A report that is true: of the solution that is returned, and no better than it.
LEMMA TrueReport ==
  ASSUME NEW s \in Solvers, NEW c \in Controls, NEW initial \in Norms,
         NEW converged \in BOOLEAN, NEW termination \in Terminations,
         NEW reason \in {"absolute", "relative", "exactZero", "maxIterations", "breakdown"},
         NEW norm \in Residuals, NEW actual \in Residuals,
         claim \in Claim, updates \in Nat, residualOf = updates, drifted \in BOOLEAN,
         converged <=> Meets(actual, c, initial) \/ reason = "exactZero",
         reason = "exactZero" => s = "GAMG" /\ actual = Zero /\ claim.iterations = 0,
         reason = "relative" => c.num * initial.l1 > c.den * c.tolerance,
         converged <=> termination = "converged",
         ~drifted /\ Target(c, initial) > 0 =>
           /\ claim.termination = "converged" => converged
           /\ termination = "maxIterations" => claim.iterations >= c.max,
         result' = Report(s, c, initial, converged, termination, reason, norm, actual)
  PROVE  result' \in Reports /\ Reported'
<1> DEFINE r == Report(s, c, initial, converged, termination, reason, norm, actual)
<1>1. r = [status |-> "ok", solver |-> s, controls |-> c, initial |-> initial,
           converged |-> converged, termination |-> termination, reason |-> reason, norm |-> norm,
           actual |-> actual,
           iterations |-> claim.iterations, solutionOf |-> updates, residualOf |-> residualOf,
           claimed |-> claim.termination, drifted |-> drifted]
  BY DEF Report
<1>2. claim.iterations \in Nat /\ claim.termination \in Terminations \cup {"none"}
  BY DEF Claim
<1> HIDE DEF r
<1>3. r \in Reports
  BY <1>1, <1>2 DEF Reports
<1>4. /\ r.solver = s /\ r.controls = c /\ r.initial = initial
      /\ r.converged = converged /\ r.termination = termination /\ r.reason = reason
      /\ r.actual = actual /\ r.iterations = claim.iterations /\ r.solutionOf = updates
      /\ r.residualOf = residualOf /\ r.claimed = claim.termination /\ r.drifted = drifted
  BY <1>1
<1>5. Meets(actual, c, initial) <=> actual # NotANumber /\ c.den * actual.l1 < Target(c, initial)
  BY TargetFacts, NormFacts
<1>6. result' = r
  BY DEF r
<1>7. TrueConvergence'
  BY <1>4, <1>5, <1>6 DEF TrueConvergence
<1>8. ClaimKept'
  BY <1>4, <1>6 DEF ClaimKept
<1>9. SameIterate'
  BY <1>4, <1>6 DEF SameIterate
<1> QED
  BY <1>3, <1>6, <1>7, <1>8, <1>9 DEF Reported

LEMMA RejectStep == ASSUME IInv, Reject PROVE IInv'
<1>1. /\ pc = "idle" /\ solves < MaxSolves /\ solves' = solves + 1 /\ result' = Failed
      /\ UNCHANGED <<workspace, pc, call, first, kernel, claim>>
  BY DEF Reject
<1>2. solves' \in 0 .. MaxSolves
  BY <1>1, ScalarAssumption DEF IInv, TypeOK
<1>3. Limit(call.controls)' = Limit(call.controls)
  BY <1>1 DEF Limit
<1>4. TypeOK'
  BY <1>1, <1>2, <1>3 DEF IInv, TypeOK, workspace, kernel
<1>5. Reported'
  BY <1>1 DEF Failed, Reported, TrueConvergence, ClaimKept, SameIterate
<1>6. Paired' /\ Idle' /\ Counted' /\ Fresh' /\ Claimed'
  BY <1>1 DEF IInv, Paired, Idle, Counted, Fresh, Claimed, kernel
<1> QED
  BY <1>4, <1>5, <1>6 DEF IInv

LEMMA SolveStep ==
  ASSUME IInv, NEW s \in Solvers, NEW m \in Matrices, NEW c \in Controls, Solve(s, m, c)
  PROVE  IInv'
<1>1. /\ pc = "idle" /\ solves < MaxSolves /\ solves' = solves + 1
      /\ call' = [solver |-> s, matrix |-> m, controls |-> c]
  BY DEF Solve
<1>2. PICK r \in Norms :
       IF EarlyReason(s, c, r) # "none"
         THEN /\ result' = Report(s, c, r, TRUE, "converged", EarlyReason(s, c, r), r, r)
              /\ UNCHANGED <<workspace, pc, first, kernel, claim>>
         ELSE /\ pc' = "begin"
              /\ first' = r
              /\ residual' = r
              /\ result' = NoResult
              /\ UNCHANGED <<workspace, iteration, updates, residualOf, drifted, claim>>
  BY DEF Solve
<1>3. solves' \in 0 .. MaxSolves
  BY <1>1, ScalarAssumption DEF IInv, TypeOK
<1>4. call' \in Call /\ call'.controls = c /\ call'.solver = s
  BY <1>1 DEF Call
<1>5. updates = 0 /\ iteration = 0 /\ drifted = FALSE /\ claim = NoClaim /\ residualOf = 0
  BY <1>1 DEF IInv, Idle, Paired, TypeOK
<1>6. NoClaim \in Claim /\ NoClaim.iterations = 0 /\ NoClaim.termination = "none"
  BY DEF NoClaim, Claim
<1>7. Limit(call.controls)' \in Nat
  <2> DEFINE S == {c.max, c.min, 1}
  <2>1. S \subseteq Nat /\ (\E n \in S : \A k \in S : k <= n) /\ c.max \in Nat
    BY ControlFacts
  <2>2. \/ Limit(call.controls)' = c.max
        \/ Limit(call.controls)' = CHOOSE n \in S : \A k \in S : k <= n
    BY <1>4 DEF Limit
  <2> HIDE DEF S
  <2>3. (CHOOSE n \in S : \A k \in S : k <= n) \in Nat
    BY <2>1
  <2> QED
    BY <2>1, <2>2, <2>3
<1>8. 0 \in 0 .. Limit(call.controls)' + 1
  BY <1>7
<1>9. CASE EarlyReason(s, c, r) # "none"
  <2>1. /\ result' = Report(s, c, r, TRUE, "converged", EarlyReason(s, c, r), r, r)
        /\ UNCHANGED <<workspace, pc, first, kernel, claim>>
    BY <1>2, <1>9
  <2> DEFINE why == EarlyReason(s, c, r)
  <2>2. why \in {"absolute", "relative", "exactZero"}
    BY <1>9, ReasonFacts DEF EarlyReason
  <2>3. why = "exactZero" => s = "GAMG" /\ r.l1 = 0
    BY ReasonFacts DEF EarlyReason
  <2>4. why # "exactZero" => Meets(r, c, r) /\ why = DominantReason(c, r)
    BY <1>9 DEF EarlyReason
  <2> HIDE DEF why
  <2>5. why = "exactZero" => r = Zero
    <3>1. r \in [l1 : 0 .. MaxNorm, l2 : 0 .. MaxNorm] /\ r.l2 <= r.l1 /\ MaxNorm \in Nat
      BY ScalarAssumption DEF Norms
    <3>2. r.l1 = 0 => r.l2 = 0
      BY <3>1
    <3> QED
      BY <2>3, <3>1, <3>2 DEF Zero
  <2>6. r \in Residuals /\ "converged" \in Terminations
    BY NormFacts, TerminationFacts
  <2>7. result' \in Reports /\ Reported'
    BY <1>5, <1>6, <2>1, <2>2, <2>3, <2>4, <2>5, <2>6, ReasonFacts, TrueReport DEF why
  <2>8. TypeOK'
    BY <1>1, <1>3, <1>4, <1>5, <1>8, <2>1, <2>7 DEF IInv, TypeOK, workspace, kernel
  <2>9. Paired' /\ Idle' /\ Counted' /\ Fresh' /\ Claimed'
    BY <1>1, <2>1 DEF IInv, Paired, Idle, Counted, Fresh, Claimed, kernel
  <2> QED
    BY <2>7, <2>8, <2>9 DEF IInv
<1>10. CASE EarlyReason(s, c, r) = "none"
  <2>1. /\ pc' = "begin" /\ first' = r /\ residual' = r /\ result' = NoResult
        /\ UNCHANGED <<workspace, iteration, updates, residualOf, drifted, claim>>
    BY <1>2, <1>10
  <2>2. r \in Residuals
    BY NormFacts
  <2>3. TypeOK'
    BY <1>3, <1>4, <1>5, <1>8, <2>1, <2>2 DEF IInv, TypeOK, workspace
  <2>4. Reported'
    BY <2>1 DEF NoResult, Reported, TrueConvergence, ClaimKept, SameIterate
  <2>5. Paired' /\ Idle' /\ Counted' /\ Fresh' /\ Claimed'
    BY <1>5, <2>1 DEF IInv, Paired, Idle, Counted, Fresh, Claimed
  <2> QED
    BY <2>3, <2>4, <2>5 DEF IInv
<1> QED
  BY <1>9, <1>10

-----------------------------------------------------------------------------
(***************************************************************************)
(* The kernels.                                                            *)
(***************************************************************************)
LEMMA BeginStep == ASSUME IInv, Begin PROVE IInv'
<1>1. pc = "begin" /\ call.solver \in L2Kernels /\ Keeps
  BY DEF Begin
<1>2. iteration = 0
  BY <1>1 DEF IInv, Counted
<1>3. CASE Stops(residual)
  <2>1. Claims("converged", 0) /\ Stops(residual')
    BY <1>1, <1>3, KeepFacts DEF Begin
  <2> QED
    BY <1>1, <2>1, KeepFacts, TerminationFacts, Claiming
<1>4. CASE ~Stops(residual)
  <2>1. pc' = "step" /\ iteration' = 1 /\ UNCHANGED <<call, first, claim, result, solves>>
    BY <1>1, <1>4 DEF Begin
  <2>2. call.solver # "PCG"
    BY <1>1 DEF L2Kernels, Stationary
  <2>3. iteration <= Limit(call.controls)
    BY <1>2, Parts
  <2> QED
    BY <1>1, <1>2, <2>1, <2>2, <2>3, KeepFacts, NextIteration
<1> QED
  BY <1>3, <1>4

LEMMA BeginPcgStep == ASSUME IInv, BeginPcg PROVE IInv'
<1>1. pc = "begin" /\ call.solver = "PCG" /\ Keeps
  BY DEF BeginPcg
<1>2. iteration = 0 /\ call.controls.max \in Nat
  BY <1>1, Parts DEF IInv, Counted
<1>3. CASE Stops(residual)
  <2>1. Claims("converged", 0) /\ Stops(residual')
    BY <1>1, <1>3, KeepFacts DEF BeginPcg
  <2> QED
    BY <1>1, <2>1, KeepFacts, TerminationFacts, Claiming
<1>4. CASE ~Stops(residual) /\ call.controls.max = 0
  <2>1. Claims("maxIterations", 0) /\ 0 >= call.controls.max
    BY <1>1, <1>4 DEF BeginPcg
  <2> QED
    BY <1>1, <2>1, KeepFacts, TerminationFacts, Claiming
<1>5. CASE ~Stops(residual) /\ call.controls.max # 0
  <2>1. pc' = "factorise" /\ UNCHANGED <<call, first, iteration, claim, result, solves>>
    BY <1>1, <1>5 DEF BeginPcg
  <2>2. Counted' /\ Fresh' /\ Claimed'
    BY <1>1, <1>2, <2>1 DEF Counted, Fresh, Claimed
  <2>3. iteration' \in Nat /\ iteration' <= Limit(call.controls) + 1 /\ claim' \in Claim
    BY <2>1, Parts
  <2> QED
    BY <1>1, <2>1, <2>2, <2>3, KeepFacts, KernelStep DEF Phases
<1> QED
  BY <1>3, <1>4, <1>5

\* Every failure that leaves the workspace alone.
LEMMA FailStep == ASSUME IInv, Fail PROVE IInv'
  BY Unchanged, Failing DEF Fail

LEMMA FactoriseStep == ASSUME IInv, Factorise PROVE IInv'
<1>1. /\ pc = "factorise" /\ factors' = call.matrix /\ valid' = (preconditioner = "faceLdu")
      /\ pc' = "precondition"
      /\ UNCHANGED <<preconditioner, call, first, kernel, claim, result, solves>>
  BY DEF Factorise, Factorised
<1>2. UNCHANGED <<iteration, updates, residual, residualOf, drifted>>
  BY <1>1 DEF kernel
<1>3. WorkspaceOK'
  BY <1>1, Parts DEF WorkspaceOK
<1>4. iteration = 0 /\ call.solver = "PCG" /\ Limit(call.controls) \in Nat
  BY <1>1, Parts DEF IInv, Counted
<1>5. Limit(call.controls)' = Limit(call.controls)
  BY <1>1 DEF Limit
<1>6. Counted'
  BY <1>1, <1>2, <1>4, <1>5 DEF Counted
<1>7. Fresh' /\ Claimed'
  BY <1>1 DEF Fresh, Claimed
<1> QED
  BY <1>1, <1>2, <1>3, <1>4, <1>6, <1>7, Parts, KernelStep DEF Phases

LEMMA FactoriseFailsStep == ASSUME IInv, FactoriseFails PROVE IInv'
<1>1. factors' = 0 /\ valid' = FALSE /\ Return(Failed) /\ UNCHANGED preconditioner
  BY DEF FactoriseFails
<1>2. WorkspaceOK'
  BY <1>1, Parts DEF WorkspaceOK
<1> QED
  BY <1>1, <1>2, Failing

LEMMA PreconditionStep == ASSUME IInv, Precondition PROVE IInv'
<1>1. /\ pc = "precondition" /\ pc' = "step" /\ iteration' = iteration + 1 /\ Keeps
      /\ UNCHANGED <<call, first, claim, result, solves>>
  BY DEF Precondition
<1>2. /\ iteration <= Limit(call.controls)
      /\ factors = call.matrix /\ (preconditioner = "faceLdu" => valid)
  BY <1>1 DEF IInv, Counted, Fresh
<1>3. factors' = factors /\ preconditioner' = preconditioner /\ valid' = valid
  BY <1>1, KeepFacts DEF workspace
<1> QED
  BY <1>1, <1>2, <1>3, KeepFacts, NextIteration

\* A breakdown, and the end of the loop.
LEMMA KeptClaim ==
  ASSUME IInv, NEW t \in {"breakdown", "maxIterations"}, NEW n \in Nat, Claims(t, n), Keeps,
         t = "maxIterations" => n >= call.controls.max
  PROVE  IInv'
  BY KeepFacts, TerminationFacts, Claiming

LEMMA PreconditionBreaksDownStep == ASSUME IInv, PreconditionBreaksDown PROVE IInv'
<1>1. Claims("breakdown", iteration) /\ Keeps /\ iteration \in Nat
  BY Parts DEF PreconditionBreaksDown
<1> QED
  BY <1>1, KeptClaim

LEMMA BreakdownStep == ASSUME IInv, Breakdown PROVE IInv'
<1>1. Claims("breakdown", iteration) /\ Keeps /\ iteration \in Nat
  BY Parts DEF Breakdown
<1> QED
  BY <1>1, KeptClaim

LEMMA ExhaustedStep == ASSUME IInv, Exhausted PROVE IInv'
<1>1. Claims("maxIterations", Limit(call.controls)) /\ Keeps
  BY DEF Exhausted
<1>2. Limit(call.controls) \in Nat /\ Limit(call.controls) >= call.controls.max
  BY Parts
<1> QED
  BY <1>1, <1>2, KeptClaim

\* The end of an iteration that updated the solution.
LEMMA UpdatedIteration ==
  ASSUME IInv, NEW r \in Residuals, NEW drifts \in BOOLEAN, Update(r, drifts), EndIteration(r),
         iteration <= Limit(call.controls), call.solver # "PCG"
  PROVE  IInv'
<1>1. CASE Stops(r)
  <2>1. Claims("converged", iteration) /\ iteration \in Nat /\ Stops(residual')
    BY <1>1, Parts, UpdateFacts DEF EndIteration
  <2> QED
    BY <2>1, UpdateFacts, TerminationFacts, Claiming
<1>2. CASE ~Stops(r)
  <2>1. pc' = "step" /\ iteration' = iteration + 1 /\ UNCHANGED <<call, first, claim, result, solves>>
    BY <1>2 DEF EndIteration
  <2> QED
    BY <2>1, UpdateFacts, NextIteration
<1> QED
  BY <1>1, <1>2

LEMMA SweepStep == ASSUME IInv, Sweep PROVE IInv'
<1>1. PICK r \in Residuals : Update(r, FALSE) /\ EndIteration(r)
  BY DEF Sweep
<1>2. iteration <= Limit(call.controls) /\ call.solver # "PCG" /\ FALSE \in BOOLEAN
  BY DEF Sweep, Iterates, Stationary
<1> QED
  BY <1>1, <1>2, UpdatedIteration

LEMMA CgStepStep == ASSUME IInv, CgStep PROVE IInv'
<1>1. PICK r \in Residuals, drifts \in BOOLEAN : Update(r, drifts) /\ EndIteration(r)
  BY DEF CgStep
<1>2. iteration <= Limit(call.controls) /\ call.solver # "PCG"
  BY DEF CgStep, Iterates
<1> QED
  BY <1>1, <1>2, UpdatedIteration

LEMMA FullStepStep == ASSUME IInv, FullStep PROVE IInv'
<1>1. PICK r \in Residuals, drifts \in BOOLEAN : Update(r, drifts) /\ EndIteration(r)
  BY DEF FullStep
<1>2. iteration <= Limit(call.controls) /\ call.solver # "PCG"
  BY DEF FullStep, IInv, Counted
<1> QED
  BY <1>1, <1>2, UpdatedIteration

LEMMA PcgStepStep == ASSUME IInv, PcgStep PROVE IInv'
<1>1. pc = "step" /\ iteration <= Limit(call.controls) /\ call.solver = "PCG"
  BY DEF PcgStep, Iterates
<1>2. PICK r \in Residuals, drifts \in BOOLEAN :
        /\ Update(r, drifts)
        /\ IF Stops(r)
             THEN Claims("converged", iteration)
             ELSE /\ pc' = "precondition"
                  /\ UNCHANGED <<call, first, iteration, claim, result, solves>>
  BY DEF PcgStep
<1>3. CASE Stops(r)
  <2>1. Claims("converged", iteration) /\ iteration \in Nat /\ Stops(residual')
    BY <1>2, <1>3, Parts, UpdateFacts
  <2> QED
    BY <1>2, <2>1, UpdateFacts, TerminationFacts, Claiming
<1>4. CASE ~Stops(r)
  <2>1. pc' = "precondition" /\ UNCHANGED <<call, first, iteration, claim, result, solves>>
        /\ UNCHANGED workspace
    BY <1>2, <1>4, UpdateFacts
  <2>2. Limit(call.controls)' = Limit(call.controls)
    BY <2>1 DEF Limit
  <2>3. Counted' /\ Fresh' /\ Claimed'
    BY <1>1, <2>1, <2>2 DEF IInv, Counted, Fresh, Claimed, workspace
  <2>4. iteration' \in Nat /\ iteration' <= Limit(call.controls) + 1 /\ claim' \in Claim
    BY <2>1, Parts
  <2> QED
    BY <1>2, <2>1, <2>3, <2>4, UpdateFacts, KernelStep DEF Phases
<1> QED
  BY <1>3, <1>4

LEMMA HalfStepStep == ASSUME IInv, HalfStep PROVE IInv'
<1>1. pc = "step" /\ iteration <= Limit(call.controls) /\ call.solver = "BiCGStab"
  BY DEF HalfStep, Iterates
<1>2. PICK s \in Residuals, drifts \in BOOLEAN :
        IF Stops(s)
          THEN Update(s, drifts) /\ Claims("converged", iteration)
          ELSE /\ pc' = "half"
               /\ Keeps
               /\ UNCHANGED <<call, first, iteration, claim, result, solves>>
  BY DEF HalfStep
<1>3. CASE Stops(s)
  <2>1. Claims("converged", iteration) /\ iteration \in Nat /\ Stops(residual')
    BY <1>2, <1>3, Parts, UpdateFacts
  <2> QED
    BY <1>2, <1>3, <2>1, UpdateFacts, TerminationFacts, Claiming
<1>4. CASE ~Stops(s)
  <2>1. pc' = "half" /\ Keeps /\ UNCHANGED <<call, first, iteration, claim, result, solves>>
    BY <1>2, <1>4
  <2>2. Limit(call.controls)' = Limit(call.controls)
    BY <2>1 DEF Limit
  <2>3. Counted' /\ Fresh' /\ Claimed'
    BY <1>1, <2>1, <2>2 DEF Counted, Fresh, Claimed
  <2>4. iteration' \in Nat /\ iteration' <= Limit(call.controls) + 1 /\ claim' \in Claim
    BY <2>1, Parts
  <2> QED
    BY <2>1, <2>3, <2>4, KeepFacts, KernelStep DEF Phases
<1> QED
  BY <1>3, <1>4

LEMMA MultigridStep == ASSUME IInv, Multigrid PROVE IInv'
<1>1. PICK n \in 1 .. Limit(call.controls), r \in Residuals, drifts \in BOOLEAN :
        \/ /\ n >= call.controls.min /\ Stops(r)
           /\ Update(r, drifts) /\ Claims("converged", n)
        \/ /\ n = Limit(call.controls) /\ ~Stops(r)
           /\ Update(r, drifts) /\ Claims("maxIterations", n)
        \/ r # Zero /\ Update(r, drifts) /\ Claims("breakdown", n)
  BY DEF Multigrid
<1>2. Limit(call.controls) \in Nat /\ Limit(call.controls) >= call.controls.max
  BY Parts
<1>3. n \in Nat
  BY <1>2
<1>4. Update(r, drifts) /\ residual' = r
  BY <1>1, UpdateFacts
<1>5. CASE Stops(r) /\ Claims("converged", n)
  <2>1. Stops(residual')
    BY <1>4, <1>5
  <2> QED
    BY <1>3, <1>4, <1>5, <2>1, UpdateFacts, TerminationFacts, Claiming
<1>6. CASE n = Limit(call.controls) /\ Claims("maxIterations", n)
  BY <1>2, <1>3, <1>4, <1>6, UpdateFacts, TerminationFacts, Claiming
<1>7. CASE Claims("breakdown", n)
  BY <1>3, <1>4, <1>7, UpdateFacts, TerminationFacts, Claiming
<1> QED
  BY <1>1, <1>5, <1>6, <1>7

LEMMA RecheckStep == ASSUME IInv, Recheck PROVE IInv'
<1> DEFINE c == call.controls
<1>1. pc = "recheck" /\ UNCHANGED workspace
  BY DEF Recheck
<1>2. PICK actual \in Actual :
       LET norm == Remeasured(actual)
           exactZero == /\ call.solver = "GAMG" /\ norm = Zero
                        /\ claim.termination = "converged" /\ claim.iterations = 0
           converged == exactZero \/ Meets(norm, c, first)
           termination == IF converged THEN "converged"
                          ELSE IF claim.termination = "breakdown" THEN "breakdown"
                          ELSE "maxIterations"
           reason == IF exactZero THEN "exactZero"
                     ELSE IF converged THEN DominantReason(c, first)
                     ELSE termination
       IN  Return(Report(call.solver, c, first, converged, termination, reason, norm, actual))
  BY DEF Recheck
<1> DEFINE exactZero == /\ call.solver = "GAMG" /\ actual = Zero
                        /\ claim.termination = "converged" /\ claim.iterations = 0
           converged == exactZero \/ Meets(actual, c, first)
           termination == IF converged THEN "converged"
                          ELSE IF claim.termination = "breakdown" THEN "breakdown"
                          ELSE "maxIterations"
           reason == IF exactZero THEN "exactZero"
                     ELSE IF converged THEN DominantReason(c, first)
                     ELSE termination
           report == Report(call.solver, c, first, converged, termination, reason, actual, actual)
<1>3. Return(report)
  BY <1>2 DEF Remeasured
<1>4. actual \in Residuals /\ (~drifted => actual = residual)
  BY Parts DEF Actual
<1>5. /\ claim.termination \in Terminations
      /\ claim.termination = "converged" => Stops(residual)
      /\ claim.termination = "maxIterations" => claim.iterations >= c.max
  BY <1>1 DEF IInv, Claimed
<1>6. c \in Controls /\ call.solver \in Solvers /\ first \in Norms /\ residual \in Residuals
  BY Parts
<1>7. ~drifted /\ Target(c, first) > 0 /\ claim.termination = "converged" => Meets(actual, c, first)
  <2> SUFFICES ASSUME ~drifted, Target(c, first) > 0, claim.termination = "converged"
               PROVE  Meets(actual, c, first)
    OBVIOUS
  <2>1. actual = residual /\ Stops(residual)
    BY <1>4, <1>5
  <2>2. CASE call.solver \in L2Kernels
    BY <1>6, <2>1, <2>2, L2Suffices DEF Stops
  <2>3. CASE call.solver \notin L2Kernels
    BY <2>1, <2>3 DEF Stops
  <2> QED
    BY <2>2, <2>3
<1>8. /\ converged \in BOOLEAN
      /\ termination \in {"converged", "maxIterations", "breakdown"}
      /\ converged <=> termination = "converged"
      /\ termination = "maxIterations" => ~converged /\ claim.termination # "breakdown"
      /\ reason = "exactZero" <=> exactZero
      /\ reason \in {"absolute", "relative", "exactZero", "maxIterations", "breakdown"}
      /\ reason = "relative" => c.num * first.l1 > c.den * c.tolerance
  BY <1>6, ReasonFacts
<1>9. converged <=> Meets(actual, c, first) \/ reason = "exactZero"
  BY <1>8
<1>10. reason = "exactZero" => call.solver = "GAMG" /\ actual = Zero /\ claim.iterations = 0
  BY <1>8
<1>11. ~drifted /\ Target(c, first) > 0 =>
           /\ claim.termination = "converged" => converged
           /\ termination = "maxIterations" => claim.iterations >= c.max
  BY <1>5, <1>7, <1>8 DEF Terminations
<1>12. result' = report
  BY <1>3 DEF Return
<1>13. claim \in Claim /\ updates \in Nat /\ residualOf = updates /\ drifted \in BOOLEAN
       /\ termination \in Terminations
  BY <1>8, Parts, TerminationFacts
<1> HIDE DEF c, exactZero, converged, termination, reason
<1>14. result' \in Reports /\ Reported'
  BY <1>4, <1>6, <1>8, <1>9, <1>10, <1>11, <1>12, <1>13, TrueReport
<1>15. report \in {Failed} \cup Reports /\ WorkspaceOK'
  BY <1>1, <1>12, <1>14, Unchanged
<1> QED
  BY <1>3, <1>14, <1>15, Returning

LEMMA Stutters == ASSUME IInv, UNCHANGED vars PROVE IInv'
<1>1. UNCHANGED <<preconditioner, factors, valid, pc, call, first, iteration, updates, residual,
                  residualOf, drifted, claim, result, solves>>
  BY DEF vars, workspace, kernel
<1>2. Limit(call.controls)' = Limit(call.controls) /\ (Stops(residual)' <=> Stops(residual))
  BY <1>1 DEF Limit, Stops
<1>3. TypeOK'
  BY <1>1, <1>2 DEF IInv, TypeOK
<1>4. Paired' /\ Idle' /\ Counted' /\ Fresh' /\ Claimed' /\ Reported'
  BY <1>1, <1>2, SameResult DEF IInv, Paired, Idle, Counted, Fresh, Claimed
<1> QED
  BY <1>3, <1>4 DEF IInv

LEMMA Inductive == IInv /\ [Next]_vars => IInv'
<1> SUFFICES ASSUME IInv, [Next]_vars PROVE IInv'
  OBVIOUS
<1>1. CASE \E s \in Solvers, m \in Matrices, c \in Controls : Solve(s, m, c)
  BY <1>1, SolveStep
<1>2. CASE Reject
  BY <1>2, RejectStep
<1>3. CASE Begin \/ BeginPcg
  BY <1>3, BeginStep, BeginPcgStep
<1>4. CASE BeginFails \/ PreconditionFails \/ StepFails
  BY <1>4, FailStep DEF BeginFails, PreconditionFails, StepFails
<1>5. CASE Factorise \/ FactoriseFails
  BY <1>5, FactoriseStep, FactoriseFailsStep
<1>6. CASE Precondition \/ PreconditionBreaksDown
  BY <1>6, PreconditionStep, PreconditionBreaksDownStep
<1>7. CASE Sweep \/ CgStep \/ FullStep
  BY <1>7, SweepStep, CgStepStep, FullStepStep
<1>8. CASE PcgStep \/ HalfStep
  BY <1>8, PcgStepStep, HalfStepStep
<1>9. CASE Breakdown \/ Exhausted
  BY <1>9, BreakdownStep, ExhaustedStep
<1>10. CASE Multigrid
  BY <1>10, MultigridStep
<1>11. CASE Recheck
  BY <1>11, RecheckStep
<1>12. CASE UNCHANGED vars
  BY <1>12, Stutters
<1> QED
  BY <1>1, <1>2, <1>3, <1>4, <1>5, <1>6, <1>7, <1>8, <1>9, <1>10, <1>11, <1>12 DEF Next

\* IInv holds in every state of every sequence of solves.
THEOREM Invariance == Spec => []IInv
<1> USE Initial, Inductive
<1> QED
  BY PTL DEF Spec

\* The variables have their types: no kernel counts past one more than its limit.
THEOREM TypeCorrect == Spec => []TypeOK
<1>1. IInv => TypeOK
  BY DEF IInv
<1> QED
  BY <1>1, Invariance, PTL

\* What is reported as converged is, by the residual of the solution that is returned.
THEOREM ConvergenceIsTrue == Spec => []TrueConvergence
<1>1. IInv => TrueConvergence
  BY DEF IInv, Reported
<1> QED
  BY <1>1, Invariance, PTL

\* A recurrence that has not drifted is not contradicted, for any number of components: the L2
\* limit of the kernels is strict enough for the L1 target.
THEOREM ClaimsAreKept == Spec => []ClaimKept
<1>1. IInv => ClaimKept
  BY DEF IInv, Reported
<1> QED
  BY <1>1, Invariance, PTL

\* The residual that is reported and the solution that is returned are of the same iterate.
THEOREM OneIterate == Spec => []SameIterate
<1>1. IInv => SameIterate
  BY DEF IInv, Reported
<1> QED
  BY <1>1, Invariance, PTL

\* The preconditioner of PCG is of the matrix it solves.
THEOREM FactorsAreFresh == Spec => []FreshFactors
<1>1. IInv => FreshFactors
  BY DEF IInv, Fresh, FreshFactors
<1> QED
  BY <1>1, Invariance, PTL
=============================================================================
