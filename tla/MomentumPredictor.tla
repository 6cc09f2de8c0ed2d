-------------------------- MODULE MomentumPredictor --------------------------
(***************************************************************************)
(* What the SIMPLE loop is promised when it asks for the momentum          *)
(* predictor: the components X, Y, Z of one vector equation are solved and *)
(* the answer is the one a serial solve gives, which stops at the first    *)
(* component that fails (solve_momentum_components_serial in flow.rs).     *)
(* How the solves are scheduled is not part of the promise.                *)
(***************************************************************************)
EXTENDS Naturals

CONSTANT N      \* the number of components of the equation, 3 in the code

Component == 0 .. N - 1

\* How the linear solve of one component ends.
Verdict == {"report", "error", "panic"}

\* What a caller gets: nothing yet, every report, or the failure of one component.
NoReply == [status |-> "none", component |-> 0, cause |-> "none"]
Reports == [status |-> "ok", component |-> 0, cause |-> "none"]
Failure(c, cause) == [status |-> "failed", component |-> c, cause |-> cause]

Reply == [status : {"none", "ok", "failed"}, component : Component,
          cause : {"none", "error", "panic", "lost"}]

\* The components are visited in index order and the first failure is the answer.
FirstFailing(v, c) == v[c] # "report" /\ \A d \in Component : d < c => v[d] = "report"

SerialReply(v) ==
  IF \A c \in Component : v[c] = "report"
  THEN Reports
  ELSE LET c == CHOOSE x \in Component : FirstFailing(v, x)
       IN  Failure(c, v[c])
-----------------------------------------------------------------------------
VARIABLES phase,     \* "starting", "ready", "busy" or "closed"
          request,   \* how each component of the equation being solved will end
          reply      \* what the last call returned

vars == <<phase, request, reply>>

Init == /\ phase = "starting"
        /\ request = [c \in Component |-> "report"]
        /\ reply = NoReply

Start == /\ phase = "starting"
         /\ phase' \in {"ready", "closed"}
         /\ UNCHANGED <<request, reply>>

\* The loop asks again only while every earlier answer was a full set of reports.
Call(v) == /\ phase = "ready"
           /\ reply.status # "failed"
           /\ phase' = "busy"
           /\ request' = v
           /\ UNCHANGED reply

Return == /\ phase = "busy"
          /\ phase' = "ready"
          /\ reply' = SerialReply(request)
          /\ UNCHANGED request

Close == /\ phase = "ready"
         /\ phase' = "closed"
         /\ UNCHANGED <<request, reply>>

Next == \/ Start
        \/ \E v \in [Component -> Verdict] : Call(v)
        \/ Return
        \/ Close

Safety == Init /\ [][Next]_vars

\* Every call is answered, and a started predictor is closed in the end.
Spec == Safety /\ WF_vars(Return)
=============================================================================
