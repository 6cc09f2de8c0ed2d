-------------------------- MODULE SimpleLoopProofs --------------------------
(***************************************************************************)
(* Proofs about SimpleLoop, for any bound on the iterations and on the     *)
(* correctors: the inductive invariant IInv and the properties that follow *)
(* from it.  What Append does to the history is AppendFacts.               *)
(***************************************************************************)
EXTENDS SimpleLoop, SequenceTheorems, WellFoundedInduction, TLAPS

Running == pc \in {"predicted", "coupling", "solving", "correcting"}
Open == Running \/ pc \in {"setup", "iterating"}
Over == pc \in {"finalizing", "done"}

\* One summary for each iteration that ended; none of them a rejection while the loop runs.
Progress ==
  /\ pc = "setup" => iteration = 0
  /\ pc \in {"setup", "iterating"} => Len(history) = iteration
  /\ Running => Len(history) + 1 = iteration
  /\ Over => Len(history) = iteration /\ iteration # 0
  /\ iteration <= options.max
  /\ Open => stop = "none" /\ \A i \in 1 .. Len(history) : history[i].accepted

\* How far the pressure solves of the iteration have come.
Solving ==
  /\ pc \in {"predicted", "coupling"} => pressure.solves = 0
  /\ pc = "solving" => pressure.solves < SolveCount
  /\ pc = "correcting" => pressure.solves = SolveCount
  /\ pressure.bad <= pressure.solves
  /\ pressure.solves <= SolveCount
  /\ pressure.first = IF pressure.solves = 0 THEN 0 ELSE 1

\* The residuals of the last accepted iteration stay in residuals or in saved.
FromLast ==
  /\ pc \in {"setup", "iterating"} => /\ residuals.momentum = iteration
                                      /\ FromIteration(residuals, iteration)
  /\ Running => /\ saved.momentum = iteration - 1
                /\ FromIteration(saved, iteration - 1)
  /\ pc = "predicted" => residuals = saved
  /\ pc \in {"coupling", "solving", "correcting"} => residuals.momentum = iteration
  /\ pc = "coupling" => FromIteration(residuals, iteration - 1)
  /\ pc = "correcting" => residuals.pressure = At(iteration, SolveCount)

\* What is reported of them, from the end of the loop on.
AtEnd ==
  Over =>
    /\ stop = "PressureSolverInvalidState" =>
           /\ residuals.momentum = Accepted + 1
           /\ residuals.initial = At(Accepted + 1, LastSolves)
           /\ residuals.pressure = residuals.initial
    /\ stop = "SolverInvalidState" /\ LastSolves = 0 =>
           residuals.momentum = Accepted + 1 /\ FromIteration(residuals, Accepted)
    /\ \/ stop \notin {"PressureSolverInvalidState", "SolverInvalidState"}
       \/ stop = "SolverInvalidState" /\ LastSolves # 0
       => residuals.momentum = Accepted /\ FromIteration(residuals, Accepted)

\* No iteration that converges has another after it, and none is checked without a criterion.
Reasons ==
  /\ Open => \A i \in 1 .. Len(history) : ~Good(i)
  /\ \A i \in 1 .. Len(history) : history[i].control.checked => options.u \/ options.p
  /\ Over => /\ stop = "Converged" <=> Good(Len(history))
             /\ \A i \in 1 .. Len(history) - 1 : ~Good(i)
             /\ stop \in Invalid <=> ~history[Len(history)].accepted
             /\ stop \notin Invalid \cup {"Converged"} => Len(history) = options.max
             /\ stop = "ConvergenceCriteriaNotConfigured" => ~options.u /\ ~options.p

\* The bound of the pressure equations, in an iteration and before it.
PerIteration == MaxCorrectors + 1
Bounded ==
  /\ pc \in {"setup", "iterating"} => totals.pressure <= iteration * PerIteration
  /\ Running => totals.pressure <= (iteration - 1) * PerIteration + pressure.solves
  /\ pc = "predicted" => totals.momentum + 1 = iteration
  /\ pc \in {"setup", "iterating", "coupling", "solving", "correcting"} => totals.momentum = iteration

IInv == TypeOK /\ LastAccepted /\ HistoryChains /\ Progress /\ Solving /\ FromLast /\ AtEnd
        /\ Reasons /\ Bounded
-----------------------------------------------------------------------------
\* The options, the most pressure equations of an iteration, and what is summarised of a control.
LEMMA OptionFacts ==
  ASSUME options \in Options
  PROVE  /\ options.max \in 1 .. MaxIterations /\ options.min \in 1 .. MaxIterations
         /\ options.min <= options.max
         /\ options.corrected \in BOOLEAN /\ options.u \in BOOLEAN /\ options.p \in BOOLEAN
         /\ SolveCount \in Nat /\ 1 <= SolveCount /\ SolveCount <= PerIteration
         /\ PerIteration \in Nat /\ PerIteration = MaxCorrectors + 1
<1>1. options \in [max : 1 .. MaxIterations, min : 1 .. MaxIterations,
                   correctors : 0 .. MaxCorrectors, corrected : BOOLEAN, u : BOOLEAN, p : BOOLEAN]
      /\ options.min <= options.max
  BY DEF Options
<1>2. options.correctors \in 0 .. MaxCorrectors
  BY <1>1
<1> QED
  BY <1>1, <1>2, MaxIterationsAssumption, MaxCorrectorsAssumption DEF SolveCount, PerIteration

ControlType == [source : 0 .. MaxCorrectors + 1, checked : BOOLEAN, satisfied : BOOLEAN]
LEMMA ControlFacts ==
  ASSUME options \in Options, NEW u \in BOOLEAN, NEW p \in BOOLEAN,
         NEW source \in 0 .. MaxCorrectors + 1
  PROVE  /\ Control(u, source, p) \in ControlType
         /\ Control(u, source, p).checked => options.u \/ options.p
<1>1. options.u \in BOOLEAN /\ options.p \in BOOLEAN
  BY OptionFacts
<1> QED
  BY <1>1 DEF Control, ControlType

\* What an ended iteration does to the history.
LEMMA AppendFacts ==
  ASSUME NEW h \in Seq(SummaryType), NEW e \in SummaryType
  PROVE  /\ Append(h, e) \in Seq(SummaryType)
         /\ Len(h) \in Nat /\ Len(Append(h, e)) = Len(h) + 1
         /\ Append(h, e)[Len(h) + 1] = e
         /\ \A i \in 1 .. Len(h) : Append(h, e)[i] = h[i]
  BY AppendProperties

LEMMA HistoryFacts ==
  ASSUME TypeOK
  PROVE  /\ Len(history) \in Nat
         /\ \A i \in 1 .. Len(history) : history[i] \in SummaryType
  BY DEF TypeOK

\* While the loop runs all iterations that have ended were accepted.
LEMMA AcceptedSoFar ==
  ASSUME TypeOK, Progress, Open
  PROVE  /\ Accepted = Len(history)
         /\ Running => Accepted = iteration - 1
         /\ pc \in {"setup", "iterating"} => Accepted = iteration
<1>1. Len(history) \in Nat /\ iteration \in Nat
  BY HistoryFacts DEF TypeOK
<1>2. Accepted = Len(history)
  BY <1>1 DEF Progress, Accepted
<1> QED
  BY <1>1, <1>2 DEF Progress

-----------------------------------------------------------------------------
(***************************************************************************)
(* The steps that end no iteration.                                        *)
(***************************************************************************)
LEMMA Initial == Init => IInv
<1> SUFFICES ASSUME Init PROVE IInv
  OBVIOUS
<1>1. history = <<>> /\ Len(history) = 0 /\ history \in Seq(SummaryType)
  BY DEF Init
<1>2. pc = "setup" /\ iteration = 0 /\ options \in Options /\ stop = "none"
  BY DEF Init
<1>3. Accepted = 0
  BY <1>1 DEF Accepted
<1>4. /\ options.max \in Nat /\ 0 <= options.max
      /\ SolveCount \in Nat /\ PerIteration \in Nat
  BY <1>2, OptionFacts
<1>5. At(0, 0) \in Tag /\ residuals = [momentum |-> 0, initial |-> At(0, 0), pressure |-> At(0, 0)]
      /\ saved = residuals
  BY MaxIterationsAssumption, MaxCorrectorsAssumption DEF Init, At, Tag
<1>6. totals = [momentum |-> 0, pressure |-> 0] /\ 0 <= MaxIterations * (MaxCorrectors + 1)
  BY MaxIterationsAssumption, MaxCorrectorsAssumption DEF Init
<1>7. TypeOK
  <2>1. /\ iteration \in 0 .. MaxIterations
        /\ state \in [velocity : 0 .. MaxIterations, pressure : 0 .. MaxIterations,
                      flux : 0 .. MaxIterations]
        /\ final \in [phi : 0 .. MaxIterations, continuity : 0 .. MaxIterations,
                      gradP : 0 .. MaxIterations, hbyA : 0 .. MaxIterations,
                      assembly : 0 .. MaxIterations]
        /\ momentum \in BOOLEAN
    <3>1. 0 \in 0 .. MaxIterations
      BY MaxIterationsAssumption
    <3> QED
      BY <3>1 DEF Init
  <2>2. pressure \in [solves : 0 .. MaxCorrectors + 1, bad : 0 .. MaxCorrectors + 1,
                      first : 0 .. 1, below : BOOLEAN]
    BY MaxCorrectorsAssumption DEF Init, NoSolve
  <2>3. {residuals, saved} \subseteq [momentum : 0 .. MaxIterations, initial : Tag, pressure : Tag]
    BY <1>5, MaxIterationsAssumption
  <2>4. totals \in [momentum : 0 .. MaxIterations,
                    pressure : 0 .. MaxIterations * (MaxCorrectors + 1)]
    BY <1>6, MaxIterationsAssumption, MaxCorrectorsAssumption
  <2>5. Len(history) <= MaxIterations
    BY <1>1, MaxIterationsAssumption
  <2> QED
    BY <2>1, <2>2, <2>3, <2>4, <2>5, <1>1, <1>2 DEF TypeOK
<1>8. LastAccepted
  BY <1>3 DEF LastAccepted, Init
<1>9. HistoryChains /\ Reasons
  BY <1>1, <1>2 DEF HistoryChains, Reasons, Over
<1>10. Progress
  BY <1>1, <1>2, <1>4 DEF Progress, Running, Over
<1>11. Solving
  BY <1>2, <1>4 DEF Solving, Init, NoSolve
<1>12. FromLast /\ AtEnd
  BY <1>2, <1>5 DEF FromLast, AtEnd, FromIteration, Running, Over
<1>13. Bounded
  BY <1>2, <1>4, <1>6 DEF Bounded, Running
<1> QED
  BY <1>7, <1>8, <1>9, <1>10, <1>11, <1>12, <1>13 DEF IInv

\* A step that leaves history and fields alone keeps what is said of them.
LEMMA SameHistory ==
  ASSUME IInv, UNCHANGED <<options, state, final, history>>
  PROVE  /\ LastAccepted' /\ HistoryChains'
         /\ Accepted' = Accepted /\ LastSolves' = LastSolves
         /\ \A i : Good(i)' <=> Good(i)
         /\ \A i \in 1 .. Len(history') :
              history'[i].control.checked => options'.u \/ options'.p
<1>1. Accepted' = Accepted
  BY DEF Accepted
<1>2. LastAccepted'
  BY <1>1 DEF IInv, LastAccepted
<1>3. HistoryChains'
  BY DEF IInv, HistoryChains
<1>4. \A i : Good(i)' <=> Good(i)
  BY DEF Good
<1>5. LastSolves' = LastSolves
  BY DEF LastSolves
<1> QED
  BY <1>1, <1>2, <1>3, <1>4, <1>5 DEF IInv, Reasons

LEMMA SetupStep == IInv /\ Setup => IInv'
<1> SUFFICES ASSUME IInv, Setup PROVE IInv'
  OBVIOUS
<1>1. /\ pc = "setup" /\ pc' = "iterating"
      /\ UNCHANGED <<options, iteration, state, final, residuals, saved, momentum, pressure,
                     totals, history, stop>>
  BY DEF Setup
<1>2. TypeOK'
  BY <1>1 DEF IInv, TypeOK
<1>3. Progress' /\ Solving' /\ Bounded'
  BY <1>1 DEF IInv, Progress, Solving, Bounded, Running, Over, Open, SolveCount
<1>4. FromLast' /\ AtEnd'
  BY <1>1 DEF IInv, FromLast, AtEnd, Running, Over, FromIteration, SolveCount
<1>5. Reasons'
  BY <1>1, SameHistory DEF IInv, Reasons, Running, Over, Open
<1> QED
  BY <1>1, <1>2, <1>3, <1>4, <1>5, SameHistory DEF IInv

LEMMA PredictStep == ASSUME IInv, NEW below \in BOOLEAN, Predict(below) PROVE IInv'
<1>1. /\ pc = "iterating" /\ pc' = "predicted"
      /\ iteration < options.max /\ iteration' = iteration + 1
      /\ saved' = residuals /\ momentum' = below /\ pressure' = NoSolve
      /\ UNCHANGED <<options, state, final, residuals, totals, history, stop>>
  BY DEF Predict
<1>2. /\ options.max \in 1 .. MaxIterations
      /\ SolveCount \in Nat /\ 1 <= SolveCount /\ PerIteration \in Nat
      /\ iteration \in Nat /\ SolveCount' = SolveCount
      /\ MaxIterations \in Nat
  BY <1>1, OptionFacts, MaxIterationsAssumption DEF IInv, TypeOK, SolveCount
<1>3. pressure' \in [solves : 0 .. MaxCorrectors + 1, bad : 0 .. MaxCorrectors + 1,
                     first : 0 .. 1, below : BOOLEAN]
      /\ pressure'.solves = 0 /\ pressure'.bad = 0 /\ pressure'.first = 0
  BY <1>1, MaxCorrectorsAssumption DEF NoSolve
<1>4. TypeOK'
  <2>1. iteration' \in 0 .. MaxIterations
    BY <1>1, <1>2
  <2> QED
    BY <1>1, <1>3, <2>1 DEF IInv, TypeOK
<1>5. Progress'
  BY <1>1, <1>2 DEF IInv, Progress, Running, Over, Open
<1>6. Solving'
  BY <1>1, <1>2, <1>3 DEF Solving
<1>7. FromLast'
  <2>1. FromIteration(residuals, iteration) /\ residuals.momentum = iteration
    BY <1>1 DEF IInv, FromLast
  <2>2. iteration' - 1 = iteration
    BY <1>1, <1>2
  <2>3. FromIteration(saved, iteration - 1)' /\ saved'.momentum = iteration' - 1
    BY <1>1, <1>2, <2>1, <2>2 DEF FromIteration
  <2> QED
    BY <1>1, <2>3 DEF FromLast, Running
<1>8. AtEnd'
  BY <1>1 DEF AtEnd, Over
<1>9. Reasons'
  BY <1>1, SameHistory DEF IInv, Reasons, Running, Over, Open
<1>10. Bounded'
  BY <1>1, <1>2, <1>3 DEF IInv, Bounded, Running, PerIteration
<1> QED
  BY <1>1, <1>4, <1>5, <1>6, <1>7, <1>8, <1>9, <1>10, SameHistory DEF IInv

LEMMA AcceptMomentumStep == ASSUME IInv, AcceptMomentum PROVE IInv'
<1>1. /\ pc = "predicted" /\ pc' = "coupling"
      /\ totals' = [totals EXCEPT !.momentum = @ + 1]
      /\ residuals' = [residuals EXCEPT !.momentum = iteration]
      /\ UNCHANGED <<options, iteration, state, final, saved, momentum, pressure, history, stop>>
  BY DEF AcceptMomentum
<1>2. /\ iteration \in Nat /\ iteration \in 0 .. MaxIterations /\ SolveCount' = SolveCount
      /\ totals \in [momentum : 0 .. MaxIterations,
                     pressure : 0 .. MaxIterations * (MaxCorrectors + 1)]
      /\ residuals \in [momentum : 0 .. MaxIterations, initial : Tag, pressure : Tag]
      /\ saved \in [momentum : 0 .. MaxIterations, initial : Tag, pressure : Tag]
  BY <1>1, MaxIterationsAssumption DEF IInv, TypeOK, SolveCount
<1>3. /\ totals.momentum + 1 = iteration
      /\ residuals = saved /\ FromIteration(saved, iteration - 1)
      /\ 1 <= SolveCount /\ SolveCount \in Nat
  BY <1>1, OptionFacts DEF IInv, Bounded, FromLast, Running, TypeOK
<1>4. /\ totals'.momentum = iteration /\ totals'.pressure = totals.pressure
      /\ totals' \in [momentum : 0 .. MaxIterations,
                      pressure : 0 .. MaxIterations * (MaxCorrectors + 1)]
  BY <1>1, <1>2, <1>3
<1>5. /\ residuals'.momentum = iteration
      /\ residuals'.initial = residuals.initial /\ residuals'.pressure = residuals.pressure
      /\ residuals' \in [momentum : 0 .. MaxIterations, initial : Tag, pressure : Tag]
  BY <1>1, <1>2
<1>6. TypeOK'
  BY <1>1, <1>2, <1>4, <1>5 DEF IInv, TypeOK
<1>7. Progress' /\ Solving'
  BY <1>1, <1>2, <1>3 DEF IInv, Progress, Solving, Running, Over, Open
<1>8. FromLast'
  BY <1>1, <1>2, <1>3, <1>5 DEF IInv, FromLast, FromIteration, Running
<1>9. AtEnd' /\ Reasons'
  BY <1>1, SameHistory DEF IInv, AtEnd, Reasons, Running, Over, Open
<1>10. Bounded'
  BY <1>1, <1>4 DEF IInv, Bounded, Running, PerIteration
<1> QED
  BY <1>1, <1>6, <1>7, <1>8, <1>9, <1>10, SameHistory DEF IInv

LEMMA AcceptFluxStep == ASSUME IInv, AcceptFlux PROVE IInv'
<1>1. /\ pc = "coupling" /\ pc' = "solving"
      /\ UNCHANGED <<options, iteration, state, final, residuals, saved, momentum, pressure,
                     totals, history, stop>>
  BY DEF AcceptFlux
<1>2. SolveCount' = SolveCount /\ SolveCount \in Nat /\ 1 <= SolveCount
  BY <1>1, OptionFacts DEF IInv, TypeOK, SolveCount
<1>3. TypeOK'
  BY <1>1 DEF IInv, TypeOK
<1>4. Progress' /\ Solving' /\ Bounded'
  BY <1>1, <1>2 DEF IInv, Progress, Solving, Bounded, Running, Over, Open, PerIteration
<1>5. FromLast'
  BY <1>1, <1>2 DEF IInv, FromLast, FromIteration, Running
<1>6. AtEnd' /\ Reasons'
  BY <1>1, SameHistory DEF IInv, AtEnd, Reasons, Running, Over, Open
<1> QED
  BY <1>1, <1>3, <1>4, <1>5, <1>6, SameHistory DEF IInv

\* An iteration has room for its pressure equations.
LEMMA Room ==
  ASSUME NEW i \in 1 .. MaxIterations, NEW n \in Nat,
         n <= (i - 1) * PerIteration + PerIteration
  PROVE  n <= i * PerIteration /\ n \in 0 .. MaxIterations * (MaxCorrectors + 1)
<1>1. PerIteration \in Nat /\ PerIteration = MaxCorrectors + 1 /\ MaxIterations \in Nat
  BY MaxCorrectorsAssumption, MaxIterationsAssumption DEF PerIteration
<1>2. (i - 1) * PerIteration + PerIteration = i * PerIteration
  BY <1>1
<1>3. i * PerIteration <= MaxIterations * PerIteration
  BY <1>1
<1> QED
  BY <1>1, <1>2, <1>3

LEMMA SolvePressureStep ==
  ASSUME IInv, NEW converged \in BOOLEAN, NEW below \in BOOLEAN, SolvePressure(converged, below)
  PROVE  IInv'
<1> DEFINE k == pressure.solves + 1
<1>1. /\ pc = "solving"
      /\ pressure' = [solves |-> k,
                      bad    |-> IF converged THEN pressure.bad ELSE pressure.bad + 1,
                      first  |-> IF pressure.first = 0 THEN k ELSE pressure.first,
                      below  |-> IF pressure.first = 0 THEN below ELSE pressure.below]
      /\ totals' = [totals EXCEPT !.pressure = @ + 1]
      /\ residuals' = [residuals EXCEPT !.pressure = At(iteration, k)]
      /\ pc' = IF k = SolveCount THEN "correcting" ELSE pc
      /\ UNCHANGED <<options, iteration, state, final, saved, momentum, history, stop>>
  BY DEF SolvePressure
<1>2. /\ iteration \in 1 .. MaxIterations /\ SolveCount' = SolveCount
      /\ totals \in [momentum : 0 .. MaxIterations,
                     pressure : 0 .. MaxIterations * (MaxCorrectors + 1)]
      /\ residuals \in [momentum : 0 .. MaxIterations, initial : Tag, pressure : Tag]
      /\ saved \in [momentum : 0 .. MaxIterations, initial : Tag, pressure : Tag]
      /\ pressure \in [solves : 0 .. MaxCorrectors + 1, bad : 0 .. MaxCorrectors + 1,
                       first : 0 .. 1, below : BOOLEAN]
      /\ SolveCount \in Nat /\ SolveCount <= MaxCorrectors + 1
      /\ PerIteration = MaxCorrectors + 1 /\ PerIteration \in Nat /\ MaxCorrectors \in Nat
      /\ MaxIterations \in Nat
  <2>1. iteration \in 0 .. MaxIterations /\ Len(history) + 1 = iteration /\ Len(history) \in Nat
    BY <1>1, HistoryFacts DEF IInv, TypeOK, Progress, Running
  <2>2. iteration \in 1 .. MaxIterations
    BY <2>1, MaxIterationsAssumption
  <2> QED
    BY <1>1, <2>2, OptionFacts, MaxIterationsAssumption, MaxCorrectorsAssumption
    DEF IInv, TypeOK, SolveCount
<1>3. /\ pressure.solves < SolveCount /\ pressure.bad <= pressure.solves
      /\ pressure.first = IF pressure.solves = 0 THEN 0 ELSE 1
      /\ totals.pressure <= (iteration - 1) * PerIteration + pressure.solves
      /\ totals.momentum = iteration
  BY <1>1 DEF IInv, Solving, Bounded, Running
<1>4. k \in 1 .. MaxCorrectors + 1 /\ k <= SolveCount /\ k = pressure.solves + 1
  BY <1>2, <1>3
<1> HIDE DEF k
<1>5. /\ pressure' \in [solves : 0 .. MaxCorrectors + 1, bad : 0 .. MaxCorrectors + 1,
                        first : 0 .. 1, below : BOOLEAN]
      /\ pressure'.solves = k /\ pressure'.bad <= k /\ pressure'.first = 1
  <2>1. pressure.first = 0 <=> k = 1
    BY <1>2, <1>3, <1>4
  <2>2. pressure.first # 0 => pressure.first = 1
    BY <1>2
  <2> QED
    BY <1>1, <1>2, <1>3, <1>4, <2>1, <2>2
<1>6. /\ totals'.momentum = totals.momentum /\ totals'.pressure = totals.pressure + 1
      /\ totals' \in [momentum : 0 .. MaxIterations,
                      pressure : 0 .. MaxIterations * (MaxCorrectors + 1)]
      /\ totals'.pressure <= (iteration - 1) * PerIteration + k
  <2>1. totals.pressure + 1 \in Nat /\ totals.pressure + 1 <= (iteration - 1) * PerIteration + k
        /\ (iteration - 1) * PerIteration \in Nat
    BY <1>2, <1>3, <1>4
  <2>2. totals.pressure + 1 <= (iteration - 1) * PerIteration + PerIteration
    BY <1>2, <1>4, <2>1
  <2>3. totals.pressure + 1 \in 0 .. MaxIterations * (MaxCorrectors + 1)
    BY <1>2, <2>1, <2>2, Room
  <2> QED
    BY <1>1, <1>2, <2>1, <2>3
<1>7. At(iteration, k) \in Tag
  BY <1>2, <1>4 DEF At, Tag
<1>8. /\ residuals' \in [momentum : 0 .. MaxIterations, initial : Tag, pressure : Tag]
      /\ residuals'.momentum = residuals.momentum
      /\ residuals'.pressure = At(iteration, k)
  BY <1>1, <1>2, <1>7
<1>9. TypeOK'
  BY <1>1, <1>2, <1>5, <1>6, <1>8 DEF IInv, TypeOK
<1>10. pc' \in {"solving", "correcting"} /\ (pc' = "correcting" <=> k = SolveCount)
  BY <1>1
<1>11. Progress' /\ Reasons' /\ AtEnd'
  BY <1>1, <1>10, SameHistory DEF IInv, Progress, Reasons, AtEnd, Running, Over, Open
<1>12. Solving'
  BY <1>2, <1>4, <1>5, <1>10 DEF Solving
<1>13. FromLast'
  BY <1>1, <1>2, <1>8, <1>10 DEF IInv, FromLast, FromIteration, Running
<1>14. Bounded'
  BY <1>1, <1>3, <1>5, <1>6, <1>10 DEF Bounded, Running, PerIteration
<1> QED
  BY <1>1, <1>9, <1>11, <1>12, <1>13, <1>14, SameHistory DEF IInv

LEMMA ExhaustedStep == ASSUME IInv, Exhausted PROVE IInv'
<1>1. /\ pc = "iterating" /\ pc' = "finalizing" /\ iteration = options.max
      /\ UNCHANGED <<options, iteration, state, final, residuals, saved, momentum, pressure,
                     totals, history, stop>>
  BY DEF Exhausted
<1>2. /\ SolveCount' = SolveCount /\ iteration \in Nat /\ iteration # 0
      /\ Len(history) = iteration /\ stop = "none" /\ history[iteration].accepted
      /\ \A i \in 1 .. iteration : ~Good(i)
      /\ Accepted = iteration
  <2>1. options.max \in 1 .. MaxIterations
    BY OptionFacts DEF IInv, TypeOK
  <2>2. iteration \in Nat /\ iteration # 0
    BY <1>1, <2>1
  <2> QED
    BY <1>1, <2>2, AcceptedSoFar DEF IInv, Progress, Reasons, Open, SolveCount
<1>3. TypeOK'
  BY <1>1 DEF IInv, TypeOK
<1>4. Progress' /\ Solving' /\ Bounded' /\ FromLast'
  BY <1>1, <1>2 DEF IInv, Progress, Solving, Bounded, FromLast, Running, Over, Open
<1>5. AtEnd'
  <2>1. residuals.momentum = iteration /\ FromIteration(residuals, iteration)
    BY <1>1 DEF IInv, FromLast
  <2>2. residuals'.momentum = Accepted' /\ FromIteration(residuals, Accepted)'
    BY <1>1, <1>2, <2>1, SameHistory DEF FromIteration
  <2> QED
    BY <1>1, <1>2, <2>2 DEF AtEnd
<1>6. Reasons'
  <2>1. \A i \in 1 .. Len(history') : ~Good(i)'
    BY <1>1, <1>2, SameHistory
  <2>2. ~Good(Len(history))' /\ \A i \in 1 .. Len(history') - 1 : ~Good(i)'
    BY <1>1, <1>2, <2>1
  <2> QED
    BY <1>1, <1>2, <2>2, SameHistory DEF Reasons, Running, Over, Open, Invalid
<1> QED
  BY <1>1, <1>3, <1>4, <1>5, <1>6, SameHistory DEF IInv

LEMMA FinalizeStep == ASSUME IInv, Finalize PROVE IInv'
<1>1. /\ pc = "finalizing" /\ pc' = "done"
      /\ stop' = IF stop # "none" THEN stop
                 ELSE IF ~options.u /\ ~options.p THEN "ConvergenceCriteriaNotConfigured"
                 ELSE "MaxIterationsReached"
      /\ UNCHANGED <<options, iteration, state, final, residuals, saved, momentum, pressure,
                     totals, history>>
  BY DEF Finalize
<1>2. /\ SolveCount' = SolveCount /\ stop \in Reason \cup {"none"} /\ stop' \in Reason
      /\ stop # "none" => stop' = stop
      /\ stop = "none" => /\ stop' \in {"ConvergenceCriteriaNotConfigured", "MaxIterationsReached"}
                          /\ stop' = "ConvergenceCriteriaNotConfigured" => ~options.u /\ ~options.p
  BY <1>1 DEF IInv, TypeOK, SolveCount, Reason
<1>3. TypeOK'
  BY <1>1, <1>2 DEF IInv, TypeOK
<1>4. Progress' /\ Solving' /\ Bounded' /\ FromLast'
  BY <1>1, <1>2 DEF IInv, Progress, Solving, Bounded, FromLast, Running, Over, Open
<1>5. AtEnd'
  <2>1. FromIteration(residuals, Accepted)' <=> FromIteration(residuals, Accepted)
    BY <1>1, <1>2, SameHistory DEF FromIteration
  <2>2. At(Accepted + 1, LastSolves)' = At(Accepted + 1, LastSolves)
    BY SameHistory, <1>1 DEF At
  <2> QED
    BY <1>1, <1>2, <2>1, <2>2, SameHistory DEF IInv, AtEnd, Over
<1>6. Reasons'
  BY <1>1, <1>2, SameHistory DEF IInv, Reasons, Running, Over, Open, Invalid
<1> QED
  BY <1>1, <1>3, <1>4, <1>5, <1>6, SameHistory DEF IInv

LEMMA FailsStep == ASSUME IInv, Fails PROVE IInv'
<1>1. /\ pc' = "failed"
      /\ UNCHANGED <<options, iteration, state, final, residuals, saved, momentum, pressure,
                     totals, history, stop>>
  BY DEF Fails
<1>2. TypeOK'
  BY <1>1 DEF IInv, TypeOK
<1>3. SolveCount' = SolveCount
  BY <1>1 DEF SolveCount
<1>4. Progress' /\ Solving' /\ Bounded' /\ FromLast' /\ AtEnd'
  BY <1>1, <1>3 DEF IInv, Progress, Solving, Bounded, FromLast, AtEnd, Running, Over, Open
<1>5. Reasons'
  BY <1>1, SameHistory DEF Reasons, Running, Over, Open
<1> QED
  BY <1>1, <1>2, <1>4, <1>5, SameHistory DEF IInv

LEMMA StutterStep == ASSUME IInv, UNCHANGED vars PROVE IInv'
  BY DEF IInv, vars, TypeOK, LastAccepted, HistoryChains, Progress, Solving, FromLast, AtEnd,
         Reasons, Bounded, Accepted, LastSolves, FromIteration, SolveCount, Good, Running, Over,
         Open

-----------------------------------------------------------------------------
(***************************************************************************)
(* The steps that end an iteration.                                        *)
(***************************************************************************)
\* The summary of the iteration that ends.
LEMMA SummaryFacts ==
  ASSUME IInv, Running, NEW ok \in BOOLEAN, NEW after \in {iteration - 1, iteration},
         NEW n \in 0 .. MaxCorrectors + 1, NEW bad \in 0 .. MaxCorrectors + 1,
         NEW control \in ControlType
  PROVE  LET e == Summary(ok, after, n, bad, control)
         IN  /\ e \in SummaryType
             /\ e.iteration = iteration /\ e.accepted = ok
             /\ e.before = iteration - 1 /\ e.after = after
             /\ e.solves = n /\ e.control = control
<1>1. state.flux = Accepted
  BY DEF IInv, LastAccepted
<1>2. Accepted = iteration - 1
  BY AcceptedSoFar DEF IInv, Open
<1>3. iteration \in 1 .. MaxIterations
  <2>1. iteration \in 0 .. MaxIterations /\ Len(history) + 1 = iteration /\ Len(history) \in Nat
    BY HistoryFacts DEF IInv, TypeOK, Progress
  <2> QED
    BY <2>1, MaxIterationsAssumption
<1>4. after \in 0 .. MaxIterations /\ iteration - 1 \in 0 .. MaxIterations
  BY <1>3, MaxIterationsAssumption
<1>5. Summary(ok, after, n, bad, control) =
        [iteration |-> iteration, accepted |-> ok, before |-> iteration - 1, after |-> after,
         solves |-> n, bad |-> bad, control |-> control]
  BY <1>1, <1>2 DEF Summary
<1> QED
  BY <1>3, <1>4, <1>5 DEF SummaryType, ControlType

\* The history after an iteration, and what it says of the one that ended.
LEMMA EndFacts ==
  ASSUME IInv, Running, NEW ok \in BOOLEAN,
         NEW n \in 0 .. MaxCorrectors + 1, NEW bad \in 0 .. MaxCorrectors + 1,
         NEW control \in ControlType, control.checked => options.u \/ options.p,
         UNCHANGED <<options, iteration>>,
         history' = Append(history, Summary(ok, IF ok THEN iteration ELSE iteration - 1,
                                            n, bad, control))
  PROVE  /\ history' \in Seq(SummaryType) /\ Len(history') = iteration
         /\ iteration \in 1 .. MaxIterations
         /\ history'[iteration].accepted = ok /\ history'[iteration].control = control
         /\ history'[iteration].solves = n
         /\ \A i \in 1 .. iteration - 1 : history'[i].accepted
         /\ HistoryChains'
         /\ Accepted' = IF ok THEN iteration ELSE iteration - 1
         /\ LastSolves' = n
         /\ \A i \in 1 .. iteration - 1 : ~Good(i)'
         /\ \A i \in 1 .. Len(history') : history'[i].control.checked => options'.u \/ options'.p
<1> DEFINE after == IF ok THEN iteration ELSE iteration - 1
           e == Summary(ok, after, n, bad, control)
<1>1. /\ e \in SummaryType
      /\ e.iteration = iteration /\ e.accepted = ok
      /\ e.before = iteration - 1 /\ e.after = after
      /\ e.solves = n /\ e.control = control
  BY SummaryFacts
<1>2. history \in Seq(SummaryType) /\ Len(history) \in Nat /\ Len(history) + 1 = iteration
      /\ iteration \in 0 .. MaxIterations
      /\ \A i \in 1 .. Len(history) : history[i].accepted /\ ~Good(i)
  BY HistoryFacts DEF IInv, TypeOK, Progress, Reasons, Open
<1>3. iteration \in 1 .. MaxIterations /\ Len(history) = iteration - 1
  BY <1>2, MaxIterationsAssumption
<1>4. history' = Append(history, e)
  OBVIOUS
<1> HIDE DEF e
<1>5. /\ history' \in Seq(SummaryType) /\ Len(history') = iteration
      /\ history'[iteration] = e
      /\ \A i \in 1 .. iteration - 1 : history'[i] = history[i]
  BY <1>1, <1>2, <1>3, <1>4, AppendFacts
<1>6. \A i \in 1 .. iteration : i = iteration \/ i \in 1 .. iteration - 1
  BY <1>3
<1>7. \A i \in 1 .. iteration - 1 : history'[i].accepted /\ ~Good(i)'
  BY <1>2, <1>3, <1>5 DEF Good
<1>8. HistoryChains'
  <2>1. \A i \in 1 .. iteration - 1 :
          /\ history'[i].iteration = i /\ history'[i].before = i - 1
          /\ history'[i].after = i
          /\ history'[i].accepted
    BY <1>2, <1>3, <1>5, <1>7 DEF IInv, HistoryChains
  <2>2. /\ history'[iteration].iteration = iteration
        /\ history'[iteration].before = iteration - 1
        /\ history'[iteration].after = (IF history'[iteration].accepted THEN iteration
                                        ELSE iteration - 1)
    BY <1>1, <1>5
  <2> QED
    BY <1>5, <1>6, <2>1, <2>2 DEF HistoryChains
<1>9. /\ Accepted' = IF ok THEN iteration ELSE iteration - 1
      /\ LastSolves' = n
  BY <1>1, <1>3, <1>5 DEF Accepted, LastSolves
<1>10. \A i \in 1 .. Len(history') : history'[i].control.checked => options'.u \/ options'.p
  <2>1. \A i \in 1 .. iteration - 1 : history[i].control.checked => options.u \/ options.p
    BY <1>3 DEF IInv, Reasons
  <2> QED
    BY <1>1, <1>5, <1>6, <2>1
<1> QED
  BY <1>1, <1>3, <1>5, <1>7, <1>8, <1>9, <1>10

\* What the four rejections have in common.
LEMMA RejectFacts ==
  ASSUME IInv, Running, NEW reason \in Invalid,
         NEW n \in 0 .. MaxCorrectors + 1, NEW bad \in 0 .. MaxCorrectors + 1,
         NEW control \in ControlType, control.checked => options.u \/ options.p,
         Reject(reason, n, bad, control),
         UNCHANGED <<options, iteration, state, saved, momentum, pressure>>
  PROVE  /\ pc' = "finalizing" /\ stop' = reason
         /\ Accepted' = iteration - 1 /\ LastSolves' = n
         /\ iteration \in 1 .. MaxIterations
         /\ residuals' \in [momentum : 0 .. MaxIterations, initial : Tag, pressure : Tag]
            /\ totals' \in [momentum : 0 .. MaxIterations,
                            pressure : 0 .. MaxIterations * (MaxCorrectors + 1)] => TypeOK'
         /\ LastAccepted' /\ HistoryChains' /\ Progress' /\ Solving' /\ FromLast' /\ Reasons'
         /\ Bounded'
<1>1. /\ pc' = "finalizing" /\ stop' = reason
      /\ final' = [final EXCEPT !.phi = state.flux, !.continuity = state.flux]
      /\ history' = Append(history, Summary(FALSE, state.flux, n, bad, control))
  BY DEF Reject
<1>2. Accepted = iteration - 1
  BY AcceptedSoFar DEF IInv, Open
<1>3. /\ state.velocity = iteration - 1 /\ state.pressure = iteration - 1
      /\ state.flux = iteration - 1
      /\ final.gradP = iteration - 1 /\ final.hbyA = iteration - 1
      /\ final.assembly = iteration - 1
  BY <1>2 DEF IInv, LastAccepted
<1>4. history' = Append(history, Summary(FALSE, IF FALSE THEN iteration ELSE iteration - 1,
                                         n, bad, control))
  BY <1>1, <1>3
<1>5. /\ history' \in Seq(SummaryType) /\ Len(history') = iteration
      /\ iteration \in 1 .. MaxIterations
      /\ history'[iteration].accepted = FALSE
      /\ HistoryChains'
      /\ Accepted' = iteration - 1
      /\ LastSolves' = n
      /\ \A i \in 1 .. iteration - 1 : ~Good(i)'
      /\ \A i \in 1 .. Len(history') : history'[i].control.checked => options'.u \/ options'.p
  BY <1>4, EndFacts
<1>6. /\ final \in [phi : 0 .. MaxIterations, continuity : 0 .. MaxIterations,
                   gradP : 0 .. MaxIterations, hbyA : 0 .. MaxIterations,
                   assembly : 0 .. MaxIterations]
      /\ state.flux \in 0 .. MaxIterations
      /\ saved \in [momentum : 0 .. MaxIterations, initial : Tag, pressure : Tag]
  BY DEF IInv, TypeOK
<1>7. /\ final' \in [phi : 0 .. MaxIterations, continuity : 0 .. MaxIterations,
                     gradP : 0 .. MaxIterations, hbyA : 0 .. MaxIterations,
                     assembly : 0 .. MaxIterations]
      /\ final'.phi = iteration - 1 /\ final'.continuity = iteration - 1
      /\ final'.gradP = iteration - 1 /\ final'.hbyA = iteration - 1
      /\ final'.assembly = iteration - 1
  BY <1>1, <1>3, <1>6
<1>8. LastAccepted'
  BY <1>3, <1>5, <1>7 DEF LastAccepted
<1>9. stop' \in Reason /\ stop' \in Invalid /\ stop' # "Converged"
      /\ stop' # "ConvergenceCriteriaNotConfigured"
  BY <1>1 DEF Reason, Invalid
<1>10. residuals' \in [momentum : 0 .. MaxIterations, initial : Tag, pressure : Tag]
            /\ totals' \in [momentum : 0 .. MaxIterations,
                            pressure : 0 .. MaxIterations * (MaxCorrectors + 1)] => TypeOK'
  <2> SUFFICES ASSUME residuals' \in [momentum : 0 .. MaxIterations, initial : Tag, pressure : Tag],
                      totals' \in [momentum : 0 .. MaxIterations,
                                  pressure : 0 .. MaxIterations * (MaxCorrectors + 1)]
               PROVE  TypeOK'
    OBVIOUS
  <2>1. Len(history') <= MaxIterations
    BY <1>5, MaxIterationsAssumption
  <2>2. {residuals', saved'} \subseteq [momentum : 0 .. MaxIterations, initial : Tag, pressure : Tag]
    BY <1>6
  <2> QED
    BY <1>1, <1>5, <1>7, <1>9, <2>1, <2>2 DEF IInv, TypeOK
<1>11. Progress'
  BY <1>1, <1>5 DEF IInv, Progress, Running, Over, Open
<1>12. SolveCount' = SolveCount
  BY DEF SolveCount
<1>13. Solving' /\ FromLast' /\ Bounded'
  BY <1>1, <1>12 DEF IInv, Solving, FromLast, Bounded, Running
<1>14. Reasons'
  <2>1. ~Good(Len(history))'
    BY <1>5 DEF Good
  <2> QED
    BY <1>1, <1>5, <1>9, <2>1 DEF Reasons, Running, Over, Open
<1> QED
  BY <1>1, <1>5, <1>8, <1>10, <1>11, <1>13, <1>14

\* The types of what a rejection may leave alone.
LEMMA Carried ==
  ASSUME IInv
  PROVE  /\ residuals \in [momentum : 0 .. MaxIterations, initial : Tag, pressure : Tag]
         /\ saved \in [momentum : 0 .. MaxIterations, initial : Tag, pressure : Tag]
         /\ totals \in [momentum : 0 .. MaxIterations,
                        pressure : 0 .. MaxIterations * (MaxCorrectors + 1)]
         /\ pressure \in [solves : 0 .. MaxCorrectors + 1, bad : 0 .. MaxCorrectors + 1,
                          first : 0 .. 1, below : BOOLEAN]
         /\ momentum \in BOOLEAN /\ options \in Options
         /\ MaxCorrectors \in Nat /\ MaxIterations \in Nat
         /\ 0 \in 0 .. MaxCorrectors + 1
  BY MaxIterationsAssumption, MaxCorrectorsAssumption DEF IInv, TypeOK

LEMMA RejectMomentumStep == ASSUME IInv, RejectMomentum PROVE IInv'
<1> DEFINE control == Control(momentum, 0, FALSE)
<1>1. /\ pc = "predicted" /\ Running
      /\ Reject("MomentumSolverInvalidState", 0, 0, control)
      /\ UNCHANGED <<options, iteration, state, residuals, saved, momentum, pressure, totals>>
  BY DEF RejectMomentum, Running
<1>2. control \in ControlType /\ (control.checked => options.u \/ options.p)
      /\ 0 \in 0 .. MaxCorrectors + 1 /\ "MomentumSolverInvalidState" \in Invalid
  BY ControlFacts, Carried DEF Invalid
<1> HIDE DEF control
<1>3. /\ pc' = "finalizing" /\ stop' = "MomentumSolverInvalidState"
      /\ Accepted' = iteration - 1 /\ LastSolves' = 0
      /\ TypeOK'
      /\ LastAccepted' /\ HistoryChains' /\ Progress' /\ Solving' /\ FromLast' /\ Reasons'
      /\ Bounded'
  BY <1>1, <1>2, RejectFacts, Carried
<1>4. AtEnd'
  <2>1. residuals.momentum = iteration - 1 /\ FromIteration(residuals, iteration - 1)
    BY <1>1 DEF IInv, FromLast
  <2>2. residuals'.momentum = Accepted' /\ FromIteration(residuals, Accepted)'
    BY <1>1, <1>3, <2>1 DEF FromIteration, SolveCount
  <2> QED
    BY <1>3, <2>2 DEF AtEnd
<1> QED
  BY <1>3, <1>4 DEF IInv

LEMMA RejectFluxStep == ASSUME IInv, RejectFlux PROVE IInv'
<1> DEFINE control == Control(momentum, 0, FALSE)
<1>1. /\ pc = "coupling" /\ Running
      /\ Reject("SolverInvalidState", 0, 0, control)
      /\ UNCHANGED <<options, iteration, state, residuals, saved, momentum, pressure, totals>>
  BY DEF RejectFlux, Running
<1>2. control \in ControlType /\ (control.checked => options.u \/ options.p)
      /\ 0 \in 0 .. MaxCorrectors + 1 /\ "SolverInvalidState" \in Invalid
  BY ControlFacts, Carried DEF Invalid
<1> HIDE DEF control
<1>3. /\ pc' = "finalizing" /\ stop' = "SolverInvalidState"
      /\ Accepted' = iteration - 1 /\ LastSolves' = 0
      /\ iteration \in 1 .. MaxIterations
      /\ TypeOK'
      /\ LastAccepted' /\ HistoryChains' /\ Progress' /\ Solving' /\ FromLast' /\ Reasons'
      /\ Bounded'
  BY <1>1, <1>2, RejectFacts, Carried
<1>4. AtEnd'
  <2>1. residuals.momentum = iteration /\ FromIteration(residuals, iteration - 1)
    BY <1>1 DEF IInv, FromLast
  <2>2. residuals'.momentum = Accepted' + 1
    BY <1>1, <1>3, <2>1
  <2>3. FromIteration(residuals, Accepted)'
    BY <1>1, <1>3, <2>1 DEF FromIteration, SolveCount
  <2> QED
    BY <1>3, <2>2, <2>3 DEF AtEnd
<1> QED
  BY <1>3, <1>4 DEF IInv

LEMMA BreakdownStep == ASSUME IInv, NEW below \in BOOLEAN, Breakdown(below) PROVE IInv'
<1> DEFINE k == pressure.solves + 1
           control == Control(momentum, k, below)
<1>1. /\ pc = "solving" /\ Running
      /\ totals' = [totals EXCEPT !.pressure = @ + 1]
      /\ residuals' = [residuals EXCEPT !.initial = At(iteration, k), !.pressure = At(iteration, k)]
      /\ Reject("PressureSolverInvalidState", k, pressure.bad + 1, control)
      /\ UNCHANGED <<options, iteration, state, saved, momentum, pressure>>
  BY DEF Breakdown, Running
<1>2. /\ pressure.solves < SolveCount /\ pressure.bad <= pressure.solves
      /\ SolveCount \in Nat /\ SolveCount <= PerIteration /\ PerIteration \in Nat
      /\ PerIteration = MaxCorrectors + 1
      /\ totals.pressure <= (iteration - 1) * PerIteration + pressure.solves
  BY <1>1, OptionFacts DEF IInv, TypeOK, Solving, Bounded
<1>3. /\ k \in 0 .. MaxCorrectors + 1 /\ pressure.bad + 1 \in 0 .. MaxCorrectors + 1
      /\ k <= PerIteration /\ k = pressure.solves + 1
  BY <1>2, Carried
<1>4. control \in ControlType /\ (control.checked => options.u \/ options.p)
      /\ "PressureSolverInvalidState" \in Invalid
  BY <1>3, ControlFacts, Carried DEF Invalid
<1> HIDE DEF control, k
<1>5. /\ pc' = "finalizing" /\ stop' = "PressureSolverInvalidState"
      /\ Accepted' = iteration - 1 /\ LastSolves' = k
      /\ iteration \in 1 .. MaxIterations
      /\ residuals' \in [momentum : 0 .. MaxIterations, initial : Tag, pressure : Tag]
         /\ totals' \in [momentum : 0 .. MaxIterations,
                         pressure : 0 .. MaxIterations * (MaxCorrectors + 1)] => TypeOK'
      /\ LastAccepted' /\ HistoryChains' /\ Progress' /\ Solving' /\ FromLast' /\ Reasons'
      /\ Bounded'
  BY <1>1, <1>3, <1>4, RejectFacts, Carried
<1>6. At(iteration, k) \in Tag
  BY <1>3, <1>5, Carried DEF At, Tag
<1>7. /\ residuals' \in [momentum : 0 .. MaxIterations, initial : Tag, pressure : Tag]
      /\ residuals'.momentum = residuals.momentum
      /\ residuals'.initial = At(iteration, k) /\ residuals'.pressure = At(iteration, k)
  BY <1>1, <1>6, Carried
<1>8. totals' \in [momentum : 0 .. MaxIterations, pressure : 0 .. MaxIterations * (MaxCorrectors + 1)]
  <2>1. totals.pressure \in Nat /\ pressure.solves \in Nat /\ iteration \in Nat
        /\ (iteration - 1) * PerIteration \in Nat
    BY <1>2, <1>5, Carried
  <2>2. totals.pressure + 1 <= (iteration - 1) * PerIteration + PerIteration
    BY <1>2, <1>3, <2>1
  <2>3. totals.pressure + 1 \in 0 .. MaxIterations * (MaxCorrectors + 1)
    BY <1>5, <2>1, <2>2, Room
  <2> QED
    BY <1>1, <2>3, Carried
<1>9. AtEnd'
  <2>1. residuals'.momentum = iteration
    BY <1>1, <1>7 DEF IInv, FromLast
  <2>2. Accepted' + 1 = iteration
    BY <1>5
  <2>3. At(Accepted + 1, LastSolves)' = At(iteration, k)
    BY <1>5, <2>2 DEF At
  <2> QED
    BY <1>5, <1>7, <2>1, <2>2, <2>3 DEF AtEnd
<1> QED
  BY <1>5, <1>7, <1>8, <1>9 DEF IInv

\* The control of an iteration whose pressure equations are solved.
LEMMA PressureControlFacts ==
  ASSUME IInv, pc = "correcting"
  PROVE  /\ PressureControl \in ControlType
         /\ PressureControl.checked => options.u \/ options.p
         /\ pressure.solves = SolveCount /\ pressure.solves \in 1 .. MaxCorrectors + 1
         /\ pressure.bad \in 0 .. MaxCorrectors + 1 /\ pressure.first = 1
<1>1. pressure.solves = SolveCount /\ 1 <= SolveCount /\ SolveCount \in Nat
      /\ pressure.first = IF pressure.solves = 0 THEN 0 ELSE 1
  BY OptionFacts, Carried DEF IInv, Solving
<1>2. pressure.first = 1 /\ pressure.first \in 0 .. MaxCorrectors + 1 /\ pressure.below \in BOOLEAN
  BY <1>1, Carried
<1>3. /\ PressureControl \in ControlType
      /\ PressureControl.checked => options.u \/ options.p
  BY <1>2, ControlFacts, Carried DEF PressureControl
<1> QED
  BY <1>1, <1>2, <1>3, Carried

LEMMA RejectCandidateStep == ASSUME IInv, RejectCandidate PROVE IInv'
<1> DEFINE n == pressure.solves
<1>1. /\ pc = "correcting" /\ Running
      /\ residuals' = saved
      /\ Reject("SolverInvalidState", n, pressure.bad, PressureControl)
      /\ UNCHANGED <<options, iteration, state, saved, momentum, pressure, totals>>
  BY DEF RejectCandidate, Running
<1>2. PressureControl \in ControlType /\ (PressureControl.checked => options.u \/ options.p)
      /\ n \in 0 .. MaxCorrectors + 1 /\ n # 0 /\ pressure.bad \in 0 .. MaxCorrectors + 1
      /\ "SolverInvalidState" \in Invalid
  BY <1>1, PressureControlFacts, Carried DEF Invalid
<1> HIDE DEF n
<1>3. /\ pc' = "finalizing" /\ stop' = "SolverInvalidState"
      /\ Accepted' = iteration - 1 /\ LastSolves' = n
      /\ TypeOK'
      /\ LastAccepted' /\ HistoryChains' /\ Progress' /\ Solving' /\ FromLast' /\ Reasons'
      /\ Bounded'
  BY <1>1, <1>2, RejectFacts, Carried
<1>4. AtEnd'
  <2>1. saved.momentum = iteration - 1 /\ FromIteration(saved, iteration - 1)
    BY <1>1 DEF IInv, FromLast
  <2>2. residuals'.momentum = Accepted' /\ FromIteration(residuals, Accepted)'
    BY <1>1, <1>3, <2>1 DEF FromIteration, SolveCount
  <2> QED
    BY <1>2, <1>3, <2>2 DEF AtEnd
<1> QED
  BY <1>3, <1>4 DEF IInv

LEMMA AcceptCandidateStep == ASSUME IInv, AcceptCandidate PROVE IInv'
<1> DEFINE c == PressureControl
           n == pressure.solves
<1>1. /\ pc = "correcting" /\ Running
      /\ state' = [velocity |-> iteration, pressure |-> iteration, flux |-> iteration]
      /\ final' = [phi |-> iteration, continuity |-> iteration, gradP |-> iteration,
                   hbyA |-> iteration, assembly |-> iteration]
      /\ residuals' = [residuals EXCEPT !.initial = At(iteration, pressure.first)]
      /\ history' = Append(history, Summary(TRUE, IF TRUE THEN iteration ELSE iteration - 1,
                                            n, pressure.bad, c))
      /\ UNCHANGED <<options, iteration, saved, momentum, pressure, totals>>
  BY DEF AcceptCandidate, Running
<1>2. \/ Converged(c) /\ stop' = "Converged" /\ pc' = "finalizing"
      \/ ~Converged(c) /\ stop' = stop /\ pc' = "iterating"
  BY DEF AcceptCandidate
<1>3. /\ c \in ControlType /\ (c.checked => options.u \/ options.p)
      /\ n \in 0 .. MaxCorrectors + 1 /\ n = SolveCount /\ pressure.bad \in 0 .. MaxCorrectors + 1
      /\ 1 \in 0 .. MaxCorrectors + 1 /\ pressure.first = 1
  BY <1>1, PressureControlFacts, Carried
<1>4. stop = "none" /\ iteration <= options.max /\ options.max \in Nat /\ options.min \in Nat
  <2>1. options.max \in 1 .. MaxIterations /\ options.min \in 1 .. MaxIterations
    BY OptionFacts, Carried
  <2> QED
    BY <1>1, <2>1 DEF IInv, Progress, Open
<1>5. Converged(c) <=> iteration >= options.min /\ c.checked /\ c.satisfied
  BY DEF Converged
<1> HIDE DEF c, n
<1>6. /\ history' \in Seq(SummaryType) /\ Len(history') = iteration
      /\ iteration \in 1 .. MaxIterations
      /\ history'[iteration].accepted = TRUE /\ history'[iteration].control = c
      /\ \A i \in 1 .. iteration - 1 : history'[i].accepted
      /\ HistoryChains'
      /\ Accepted' = iteration
      /\ \A i \in 1 .. iteration - 1 : ~Good(i)'
      /\ \A i \in 1 .. Len(history') : history'[i].control.checked => options'.u \/ options'.p
  BY <1>1, <1>3, EndFacts
<1>7. \A i \in 1 .. iteration : i = iteration \/ i \in 1 .. iteration - 1
  BY <1>6
<1>8. \A i : i = iteration => (Good(i)' <=> Converged(c))
  BY <1>1, <1>5, <1>6 DEF Good
<1>9. At(iteration, 1) \in Tag
  BY <1>3, <1>6, Carried DEF At, Tag
<1>10. /\ residuals' \in [momentum : 0 .. MaxIterations, initial : Tag, pressure : Tag]
       /\ residuals'.momentum = residuals.momentum
       /\ residuals'.initial = At(iteration, 1) /\ residuals'.pressure = residuals.pressure
  BY <1>1, <1>3, <1>9, Carried
<1>11. iteration \in 0 .. MaxIterations /\ iteration \in Nat
  BY <1>6, Carried
<1>12. TypeOK'
  <2>1. Len(history') <= MaxIterations
    BY <1>6, Carried
  <2>2. {residuals', saved'} \subseteq [momentum : 0 .. MaxIterations, initial : Tag, pressure : Tag]
    BY <1>1, <1>10, Carried
  <2>3. stop' \in Reason \cup {"none"}
    BY <1>2, <1>4 DEF Reason
  <2>4. /\ state' \in [velocity : 0 .. MaxIterations, pressure : 0 .. MaxIterations,
                       flux : 0 .. MaxIterations]
        /\ final' \in [phi : 0 .. MaxIterations, continuity : 0 .. MaxIterations,
                       gradP : 0 .. MaxIterations, hbyA : 0 .. MaxIterations,
                       assembly : 0 .. MaxIterations]
    BY <1>1, <1>11
  <2> QED
    BY <1>1, <1>2, <1>6, <2>1, <2>2, <2>3, <2>4 DEF IInv, TypeOK
<1>13. LastAccepted'
  BY <1>1, <1>6 DEF LastAccepted
<1>14. Progress'
  <2>1. \A i \in 1 .. Len(history') : history'[i].accepted
    BY <1>6, <1>7
  <2>2. iteration' <= options'.max /\ iteration' # 0 /\ Len(history') = iteration'
    BY <1>1, <1>4, <1>6
  <2> QED
    BY <1>2, <1>4, <2>1, <2>2 DEF Progress, Running, Over, Open
<1>15. SolveCount' = SolveCount
  BY <1>1 DEF SolveCount
<1>16. Solving'
  BY <1>1, <1>2, <1>15 DEF IInv, Solving
<1>17. residuals.momentum = iteration /\ residuals.pressure = At(iteration, SolveCount)
  BY <1>1 DEF IInv, FromLast
<1>18. residuals'.momentum = iteration /\ FromIteration(residuals, iteration)'
  BY <1>1, <1>6, <1>10, <1>15, <1>17 DEF FromIteration
<1>19. FromLast'
  BY <1>1, <1>2, <1>18 DEF FromLast, Running
<1>20. AtEnd'
  <2>1. residuals'.momentum = Accepted' /\ FromIteration(residuals, Accepted)'
    BY <1>1, <1>6, <1>18 DEF FromIteration
  <2> QED
    BY <1>2, <2>1 DEF AtEnd, Over
<1>21. Reasons'
  <2>1. CASE Converged(c)
    <3>1. Good(Len(history))' /\ \A i \in 1 .. Len(history') - 1 : ~Good(i)'
      BY <1>1, <1>5, <1>6, <2>1 DEF Good
    <3> QED
      BY <1>2, <1>6, <2>1, <3>1 DEF Reasons, Running, Over, Open, Invalid
  <2>2. CASE ~Converged(c)
    <3>1. \A i \in 1 .. Len(history') : ~Good(i)'
      BY <1>6, <1>7, <1>8, <2>2
    <3> QED
      BY <1>2, <1>6, <2>2, <3>1 DEF Reasons, Running, Over, Open
  <2> QED
    BY <2>1, <2>2
<1>22. Bounded'
  <2>1. totals.pressure <= (iteration - 1) * PerIteration + pressure.solves
        /\ totals.momentum = iteration
    BY <1>1 DEF IInv, Bounded
  <2>2. SolveCount <= PerIteration /\ PerIteration \in Nat /\ SolveCount \in Nat
        /\ pressure.solves = SolveCount
    BY <1>1, OptionFacts, PressureControlFacts, Carried
  <2>3. totals.pressure \in Nat /\ (iteration - 1) * PerIteration \in Nat
    BY <1>6, <2>2, Carried
  <2>4. totals.pressure <= (iteration - 1) * PerIteration + PerIteration
    BY <2>1, <2>2, <2>3
  <2>5. totals.pressure <= iteration * PerIteration
    BY <1>6, <2>3, <2>4, Room
  <2> QED
    BY <1>1, <1>2, <2>1, <2>5 DEF Bounded, Running, PerIteration
<1> QED
  BY <1>6, <1>12, <1>13, <1>14, <1>16, <1>19, <1>20, <1>21, <1>22 DEF IInv

-----------------------------------------------------------------------------
LEMMA Inductive == IInv /\ [Next]_vars => IInv'
<1> SUFFICES ASSUME IInv, [Next]_vars PROVE IInv'
  OBVIOUS
<1>1. CASE Setup
  BY <1>1, SetupStep
<1>2. CASE \E below \in BOOLEAN : Predict(below)
  BY <1>2, PredictStep
<1>3. CASE RejectMomentum
  BY <1>3, RejectMomentumStep
<1>4. CASE AcceptMomentum
  BY <1>4, AcceptMomentumStep
<1>5. CASE RejectFlux
  BY <1>5, RejectFluxStep
<1>6. CASE AcceptFlux
  BY <1>6, AcceptFluxStep
<1>7. CASE \E below \in BOOLEAN : Breakdown(below)
  BY <1>7, BreakdownStep
<1>8. CASE \E converged, below \in BOOLEAN : SolvePressure(converged, below)
  BY <1>8, SolvePressureStep
<1>9. CASE RejectCandidate
  BY <1>9, RejectCandidateStep
<1>10. CASE AcceptCandidate
  BY <1>10, AcceptCandidateStep
<1>11. CASE Exhausted
  BY <1>11, ExhaustedStep
<1>12. CASE Finalize
  BY <1>12, FinalizeStep
<1>13. CASE Fails
  BY <1>13, FailsStep
<1>14. CASE Returned \/ UNCHANGED vars
  BY <1>14, StutterStep DEF Returned
<1> QED
  BY <1>1, <1>2, <1>3, <1>4, <1>5, <1>6, <1>7, <1>8, <1>9, <1>10, <1>11, <1>12, <1>13, <1>14
  DEF Next

\* IInv holds in every state of the loop.
THEOREM Invariance == Spec => []IInv
<1> USE Initial, Inductive
<1> QED
  BY PTL DEF Spec

\* The variables have their types: no count passes its bound and the summaries are those of
\* iterations that were run.
THEOREM TypeCorrect == Spec => []TypeOK
<1>1. IInv => TypeOK
  BY DEF IInv
<1> QED
  BY <1>1, Invariance, PTL

\* Whatever stops the loop, fields, flux, continuity and diagnostics are those of the last
\* accepted iteration.
THEOREM ReportIsLastAccepted == Spec => []LastAccepted
<1>1. IInv => LastAccepted
  BY DEF IInv
<1> QED
  BY <1>1, Invariance, PTL

\* The history has each iteration once and in order, and only its last may be a rejection.
THEOREM HistoryInOrder == Spec => []HistoryChains
<1>1. IInv => HistoryChains
  BY DEF IInv
<1> QED
  BY <1>1, Invariance, PTL

\* The stop reason is what the history shows, and the loop converges at the first chance.
THEOREM StopReason == Spec => []StopsForAReason
<1>1. IInv => StopsForAReason
  <2> SUFFICES ASSUME IInv, pc = "done" PROVE StopsForAReason
    BY DEF StopsForAReason
  <2>1. Len(history) \in Nat /\ Len(history) = iteration /\ iteration # 0
    BY HistoryFacts DEF IInv, Progress, Over
  <2> QED
    BY <2>1 DEF IInv, Reasons, StopsForAReason, Over, Invalid
<1> QED
  BY <1>1, Invariance, PTL

\* The residuals of a report are those of the last accepted iteration, but for those that a
\* breakdown or a flux that is not finite leaves.
THEOREM ResidualsAreLastAccepted == Spec => []ResidualsReported
<1>1. IInv => ResidualsReported
  BY DEF IInv, AtEnd, ResidualsReported, Over
<1> QED
  BY <1>1, Invariance, PTL
-----------------------------------------------------------------------------
(***************************************************************************)
(* The sum over a history.  The induction theorems of the library take an  *)
(* operator, so induction is over a set of numbers here, by WFMin.         *)
(***************************************************************************)
Below == {p \in Nat \X Nat : p[1] < p[2]}

LEMMA SetInduction ==
  ASSUME NEW S, 0 \in S, \A n \in Nat : n \in S => n + 1 \in S
  PROVE  Nat \subseteq S
<1> SUFFICES ASSUME NEW k \in Nat, k \notin S PROVE FALSE
  OBVIOUS
<1> DEFINE T == Nat \ S
<1>1. IsWellFoundedOn(Below, Nat)
  BY NatLessThanWellFounded DEF OpToRel, Below
<1>2. T \subseteq Nat /\ T # {}
  OBVIOUS
<1> HIDE DEF T
<1>3. PICK x \in T : \A y \in T : ~(<<y, x>> \in Below)
  BY <1>1, <1>2, WFMin
<1>4. x \in Nat /\ x \notin S
  BY <1>3 DEF T
<1>5. x # 0 /\ x - 1 \in Nat /\ x - 1 < x /\ (x - 1) + 1 = x
  BY <1>4
<1>6. x - 1 \notin T
  BY <1>3, <1>4, <1>5 DEF Below
<1> QED
  BY <1>4, <1>5, <1>6 DEF T

\* g has the sums of the first summaries of h, n and fewer.
Sums(h, n, g) == /\ g \in [0 .. n -> Nat] /\ g[0] = 0
                 /\ \A i \in 1 .. n : g[i] = g[i - 1] + h[i].solves
Recurs(h, f) == f = [i \in 0 .. Len(h) |-> IF i = 0 THEN 0 ELSE f[i - 1] + h[i].solves]

\* One summary more.
LEMMA SumsExtend ==
  ASSUME NEW h, NEW n \in Nat, NEW g, Sums(h, n, g), h[n + 1].solves \in Nat
  PROVE  \E f : Sums(h, n + 1, f) /\ f[n + 1] = g[n] + h[n + 1].solves
<1> DEFINE f == [i \in 0 .. n + 1 |-> IF i = n + 1 THEN g[n] + h[n + 1].solves ELSE g[i]]
<1>1. g \in [0 .. n -> Nat] /\ g[0] = 0 /\ \A i \in 1 .. n : g[i] = g[i - 1] + h[i].solves
  BY DEF Sums
<1>2. f \in [0 .. n + 1 -> Nat] /\ f[0] = 0
  BY <1>1
<1>3. ASSUME NEW i \in 1 .. n + 1
      PROVE  f[i] = f[i - 1] + h[i].solves
  <2>1. CASE i = n + 1
    <3>1. i - 1 = n /\ n # n + 1 /\ n \in 0 .. n + 1 /\ n + 1 \in 0 .. n + 1
      BY <2>1
    <3>2. f[n] = g[n] /\ f[n + 1] = g[n] + h[n + 1].solves
      BY <3>1
    <3> QED
      BY <2>1, <3>1, <3>2
  <2>2. CASE i # n + 1
    <3>1. i \in 1 .. n /\ i - 1 \in 0 .. n /\ i - 1 # n + 1
      BY <2>2
    <3>2. f[i] = g[i] /\ f[i - 1] = g[i - 1]
      BY <2>2, <3>1
    <3> QED
      BY <1>1, <3>1, <3>2
  <2> QED
    BY <2>1, <2>2
<1>4. f[n + 1] = g[n] + h[n + 1].solves
  OBVIOUS
<1> QED
  BY <1>2, <1>3, <1>4 DEF Sums

LEMMA SolvesAreNumbers == \A e \in SummaryType : e.solves \in Nat
<1> SUFFICES ASSUME NEW e \in SummaryType PROVE e.solves \in Nat
  OBVIOUS
<1>1. e.solves \in 0 .. MaxCorrectors + 1
  BY DEF SummaryType
<1> QED
  BY <1>1, MaxCorrectorsAssumption

LEMMA SumsExist ==
  ASSUME NEW h \in Seq(SummaryType)
  PROVE  \E g : Sums(h, Len(h), g)
<1> DEFINE S == {n \in Nat : n <= Len(h) => \E g : Sums(h, n, g)}
<1>1. Len(h) \in Nat /\ \A i \in 1 .. Len(h) : h[i].solves \in Nat
  <2>1. \A i \in 1 .. Len(h) : h[i] \in SummaryType
    OBVIOUS
  <2> QED
    BY <2>1, SolvesAreNumbers
<1>2. 0 \in S
  <2>1. Sums(h, 0, [i \in 0 .. 0 |-> 0])
    BY DEF Sums
  <2> QED
    BY <2>1
<1>3. ASSUME NEW n \in Nat, n \in S
      PROVE  n + 1 \in S
  <2>1. SUFFICES ASSUME n + 1 <= Len(h) PROVE \E g : Sums(h, n + 1, g)
    OBVIOUS
  <2>2. PICK g : Sums(h, n, g)
    BY <1>1, <1>3, <2>1
  <2>3. h[n + 1].solves \in Nat
    BY <1>1, <2>1
  <2> QED
    BY <2>2, <2>3, SumsExtend
<1> HIDE DEF S
<1>4. Nat \subseteq S
  BY <1>2, <1>3, SetInduction
<1> QED
  BY <1>1, <1>4 DEF S

\* The recursion has one solution, which is what SolvesIn takes.
LEMMA SumsUnique ==
  ASSUME NEW h \in Seq(SummaryType), NEW g, Sums(h, Len(h), g)
  PROVE  SolvesIn(h) = g[Len(h)]
<1>1. Len(h) \in Nat
  OBVIOUS
<1>2. g \in [0 .. Len(h) -> Nat] /\ g[0] = 0 /\ \A i \in 1 .. Len(h) : g[i] = g[i - 1] + h[i].solves
  BY DEF Sums
<1>3. Recurs(h, g)
  <2> DEFINE f == [i \in 0 .. Len(h) |-> IF i = 0 THEN 0 ELSE g[i - 1] + h[i].solves]
  <2>1. ASSUME NEW i \in 0 .. Len(h)
        PROVE  g[i] = f[i]
    BY <1>1, <1>2
  <2>2. g = [i \in 0 .. Len(h) |-> g[i]]
    BY <1>2
  <2>3. g = f
    BY <2>1, <2>2
  <2> QED
    BY <2>3 DEF Recurs
<1>4. PICK f : f = CHOOSE e : Recurs(h, e)
  OBVIOUS
<1>5. Recurs(h, f)
  BY <1>3, <1>4
<1> DEFINE S == {n \in Nat : n <= Len(h) => f[n] = g[n]}
<1>6. /\ \A i \in 0 .. Len(h) : f[i] = IF i = 0 THEN 0 ELSE f[i - 1] + h[i].solves
  BY <1>5 DEF Recurs
<1>7. 0 \in S
  BY <1>1, <1>2, <1>6
<1>8. ASSUME NEW n \in Nat, n \in S
      PROVE  n + 1 \in S
  <2>1. SUFFICES ASSUME n + 1 <= Len(h) PROVE f[n + 1] = g[n + 1]
    OBVIOUS
  <2>2. f[n] = g[n]
    BY <1>1, <1>8, <2>1
  <2>3. n + 1 \in 0 .. Len(h) /\ n + 1 \in 1 .. Len(h) /\ n + 1 # 0 /\ (n + 1) - 1 = n
    BY <1>1, <2>1
  <2>4. f[n + 1] = f[n] + h[n + 1].solves
    BY <1>6, <2>3
  <2>5. g[n + 1] = g[n] + h[n + 1].solves
    BY <1>2, <2>3
  <2> QED
    BY <2>2, <2>4, <2>5
<1> HIDE DEF S
<1>9. Nat \subseteq S
  BY <1>7, <1>8, SetInduction
<1>10. f[Len(h)] = g[Len(h)]
  BY <1>1, <1>9 DEF S
<1>11. SolvesIn(h) = (CHOOSE e : Recurs(h, e))[Len(h)]
  BY Zenon DEF SolvesIn, Recurs
<1> QED
  BY <1>4, <1>10, <1>11

\* What SolvesIn yields for no summary and for one more.
LEMMA SolvesInFacts ==
  ASSUME NEW h \in Seq(SummaryType)
  PROVE  /\ SolvesIn(h) \in Nat
         /\ h = <<>> => SolvesIn(h) = 0
         /\ \A e \in SummaryType : SolvesIn(Append(h, e)) = SolvesIn(h) + e.solves
<1>1. PICK g : Sums(h, Len(h), g)
  BY SumsExist
<1>2. SolvesIn(h) = g[Len(h)] /\ Len(h) \in Nat
  BY <1>1, SumsUnique
<1>3. g[Len(h)] \in Nat /\ g[0] = 0
  BY <1>1, <1>2 DEF Sums
<1>4. ASSUME NEW e \in SummaryType
      PROVE  SolvesIn(Append(h, e)) = SolvesIn(h) + e.solves
  <2>1. PICK k \in Seq(SummaryType) : k = Append(h, e)
    BY AppendFacts
  <2>2. Len(k) = Len(h) + 1 /\ k[Len(h) + 1] = e /\ \A i \in 1 .. Len(h) : k[i] = h[i]
    BY <2>1, AppendFacts
  <2>3. Sums(k, Len(h), g)
    BY <1>1, <2>2 DEF Sums
  <2>4. e.solves \in Nat
    BY SolvesAreNumbers
  <2>5. PICK f : Sums(k, Len(h) + 1, f) /\ f[Len(h) + 1] = g[Len(h)] + e.solves
    BY <1>2, <2>2, <2>3, <2>4, SumsExtend
  <2>6. SolvesIn(k) = f[Len(k)]
    BY <2>2, <2>5, SumsUnique
  <2> QED
    BY <1>2, <2>1, <2>2, <2>5, <2>6
<1>5. h = <<>> => SolvesIn(h) = 0
  BY <1>2, <1>3
<1> QED
  BY <1>2, <1>3, <1>4, <1>5

-----------------------------------------------------------------------------
(***************************************************************************)
(* The totals are the sums over the history and what the iteration that is *)
(* running has added.                                                      *)
(***************************************************************************)
Summed ==
  /\ pc \in {"setup", "iterating", "predicted", "coupling", "finalizing", "done"} =>
       totals.pressure = SolvesIn(history)
  /\ pc \in {"solving", "correcting"} => totals.pressure = SolvesIn(history) + pressure.solves
  /\ Over => totals.momentum = Len(history) - (IF stop = "MomentumSolverInvalidState" THEN 1 ELSE 0)

\* An iteration ends: what it has added is in its summary.
LEMMA SummedAtEnd ==
  ASSUME IInv, IInv', NEW accepted, NEW after, NEW solves \in Nat, NEW bad, NEW control,
         history' = Append(history, Summary(accepted, after, solves, bad, control)),
         totals'.pressure = SolvesIn(history) + solves
  PROVE  totals'.pressure = SolvesIn(history')
<1> DEFINE e == Summary(accepted, after, solves, bad, control)
<1>1. history \in Seq(SummaryType) /\ history' \in Seq(SummaryType)
  BY DEF IInv, TypeOK
<1>2. Len(history) \in Nat /\ history' = Append(history, e)
  BY <1>1
<1>3. e.solves = solves
  BY DEF Summary
<1> HIDE DEF e
<1>4. Len(history') = Len(history) + 1 /\ history'[Len(history) + 1] = e
  BY <1>1, <1>2
<1>5. e \in SummaryType
  BY <1>1, <1>2, <1>4
<1> QED
  BY <1>1, <1>2, <1>3, <1>5, SolvesInFacts

LEMMA SummedStep == ASSUME IInv, IInv', Summed, [Next]_vars PROVE Summed'
<1>1. /\ history \in Seq(SummaryType) /\ SolvesIn(history) \in Nat
      /\ pressure.solves \in Nat /\ totals.pressure \in Nat
      /\ totals.momentum \in Nat /\ Len(history) \in Nat
  BY SolvesInFacts DEF IInv, TypeOK
<1>2. CASE Setup
  BY <1>1, <1>2 DEF Setup, Summed, Over
<1>3. CASE \E below \in BOOLEAN : Predict(below)
  BY <1>1, <1>3 DEF Predict, Summed, Over
<1>4. CASE AcceptMomentum
  BY <1>1, <1>4 DEF AcceptMomentum, Summed, Over, IInv, TypeOK
<1>5. CASE AcceptFlux
  BY <1>1, <1>5 DEF AcceptFlux, Summed, Over, IInv, Solving
<1>6. CASE \E converged, below \in BOOLEAN : SolvePressure(converged, below)
  BY <1>1, <1>6 DEF SolvePressure, Summed, Over, IInv, TypeOK
<1>7. CASE Exhausted
  BY <1>1, <1>7 DEF Exhausted, Summed, Over, IInv, Progress, Open, Bounded
<1>8. CASE Finalize \/ Fails \/ Returned \/ UNCHANGED vars
  BY <1>1, <1>8 DEF Finalize, Fails, Returned, vars, Summed, Over
<1>9. CASE RejectMomentum
  <2>1. totals'.pressure = SolvesIn(history') /\ totals' = totals
    <3>1. /\ history' = Append(history, Summary(FALSE, state.flux, 0, 0, Control(momentum, 0, FALSE)))
          /\ totals' = totals /\ totals.pressure = SolvesIn(history) + 0
      BY <1>1, <1>9 DEF RejectMomentum, Reject, Summed
    <3> QED
      BY <3>1, SummedAtEnd
  <2>2. pc' = "finalizing" /\ stop' = "MomentumSolverInvalidState" /\ totals.momentum + 1 = Len(history')
    BY <1>9 DEF RejectMomentum, Reject, IInv, Bounded, Progress, Over
  <2> QED
    BY <1>1, <2>1, <2>2 DEF Summed, Over
<1>10. CASE RejectFlux
  <2>1. totals'.pressure = SolvesIn(history') /\ totals' = totals
    <3>1. /\ history' = Append(history, Summary(FALSE, state.flux, 0, 0, Control(momentum, 0, FALSE)))
          /\ totals' = totals /\ totals.pressure = SolvesIn(history) + 0
      BY <1>1, <1>10 DEF RejectFlux, Reject, Summed
    <3> QED
      BY <3>1, SummedAtEnd
  <2>2. pc' = "finalizing" /\ stop' = "SolverInvalidState" /\ totals.momentum = Len(history')
    BY <1>10 DEF RejectFlux, Reject, IInv, Bounded, Progress, Over
  <2> QED
    BY <1>1, <2>1, <2>2 DEF Summed, Over
<1>11. CASE \E below \in BOOLEAN : Breakdown(below)
  <2>1. totals'.pressure = SolvesIn(history') /\ totals'.momentum = totals.momentum
    <3> DEFINE k == pressure.solves + 1
    <3>1. PICK below \in BOOLEAN :
             history' = Append(history, Summary(FALSE, state.flux, k, pressure.bad + 1,
                                                Control(momentum, k, below)))
      BY <1>11 DEF Breakdown, Reject
    <3>2. totals'.pressure = totals.pressure + 1 /\ totals'.momentum = totals.momentum
      BY <1>11 DEF Breakdown, IInv, TypeOK
    <3>3. k \in Nat /\ totals'.pressure = SolvesIn(history) + k
      BY <1>1, <1>11, <3>2 DEF Breakdown, Summed
    <3> HIDE DEF k
    <3> QED
      BY <3>1, <3>2, <3>3, SummedAtEnd
  <2>2. pc' = "finalizing" /\ stop' = "PressureSolverInvalidState" /\ totals.momentum = Len(history')
    BY <1>11 DEF Breakdown, Reject, IInv, Bounded, Progress, Over
  <2> QED
    BY <1>1, <2>1, <2>2 DEF Summed, Over
<1>12. CASE RejectCandidate
  <2>1. totals'.pressure = SolvesIn(history') /\ totals' = totals
    <3>1. /\ history' = Append(history, Summary(FALSE, state.flux, pressure.solves, pressure.bad,
                                                PressureControl))
          /\ totals' = totals /\ totals.pressure = SolvesIn(history) + pressure.solves
      BY <1>12 DEF RejectCandidate, Reject, Summed
    <3> QED
      BY <1>1, <3>1, SummedAtEnd
  <2>2. pc' = "finalizing" /\ stop' = "SolverInvalidState" /\ totals.momentum = Len(history')
    BY <1>12 DEF RejectCandidate, Reject, IInv, Bounded, Progress, Over
  <2> QED
    BY <1>1, <2>1, <2>2 DEF Summed, Over
<1>13. CASE AcceptCandidate
  <2>1. totals'.pressure = SolvesIn(history') /\ totals' = totals
    <3>1. /\ history' = Append(history, Summary(TRUE, iteration, pressure.solves, pressure.bad,
                                                PressureControl))
          /\ totals' = totals /\ totals.pressure = SolvesIn(history) + pressure.solves
      BY <1>13 DEF AcceptCandidate, Summed
    <3> QED
      BY <1>1, <3>1, SummedAtEnd
  <2>2. \/ pc' = "iterating"
        \/ pc' = "finalizing" /\ stop' = "Converged" /\ totals.momentum = Len(history')
    BY <1>13 DEF AcceptCandidate, IInv, Bounded, Progress, Over
  <2> QED
    BY <1>1, <2>1, <2>2 DEF Summed, Over
<1> QED
  BY <1>2, <1>3, <1>4, <1>5, <1>6, <1>7, <1>8, <1>9, <1>10, <1>11, <1>12, <1>13 DEF Next

\* The totals of a report are the sums over its history, but for the predictor of an iteration
\* stopped by MomentumSolverInvalidState, which the totals leave out.
THEOREM TotalsAreSums == Spec => []TotalsMatchHistory
<1>1. Init => Summed
  <2>1. <<>> \in Seq(SummaryType)
    OBVIOUS
  <2>2. SolvesIn(<<>>) = 0
    BY <2>1, SolvesInFacts
  <2> QED
    BY <2>2 DEF Init, Summed, Over
<1>2. IInv /\ IInv' /\ Summed /\ [Next]_vars => Summed'
  BY SummedStep
<1>3. Summed => TotalsMatchHistory
  BY DEF Summed, TotalsMatchHistory, Over
<1> QED
  BY <1>1, <1>2, <1>3, Invariance, PTL DEF Spec
=============================================================================
