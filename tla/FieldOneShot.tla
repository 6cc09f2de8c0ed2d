---------------------------- MODULE FieldOneShot ----------------------------
(***************************************************************************)
(* What runtime.rs and the solver promise about a set of initial fields:   *)
(* building a runtime moves every payload it can use at once or moves      *)
(* none, a solve takes its two payloads together or leaves both, and a     *)
(* payload that left its owner never comes back.                           *)
(***************************************************************************)
EXTENDS Naturals

CONSTANT N                \* the number of fields

VARIABLES read,           \* whether there is a set of fields
          uniform,        \* the fields without a payload: what a build makes of them is made anew
          owner           \* who holds the values of each field

Fields == 1 .. N

Init == /\ read = FALSE
        /\ uniform = Fields
        /\ owner = [i \in Fields |-> "none"]

\* The only time that payloads come from nowhere.
Read == /\ ~read
        /\ read' = TRUE
        /\ uniform' \in SUBSET Fields
        /\ owner' \in [Fields -> {"source", "none"}]

\* A build that succeeds and leaves nothing at the source.
Build == /\ read
         /\ \E kept \in SUBSET Fields :
              /\ \A i \in kept \ uniform : owner[i] = "source"
              /\ owner' = [i \in Fields |-> IF i \in kept THEN "runtime" ELSE "none"]
         /\ UNCHANGED <<read, uniform>>

\* A build without values: the runtime it replaces is gone.
BuildSummary == /\ read
                /\ owner' = [i \in Fields |-> IF owner[i] = "runtime" THEN "none" ELSE owner[i]]
                /\ UNCHANGED <<read, uniform>>

\* A solve takes the velocity and the pressure of the runtime.
Take == /\ read
        /\ \E u, p \in Fields :
             /\ u # p /\ owner[u] = "runtime" /\ owner[p] = "runtime"
             /\ owner' = [owner EXCEPT ![u] = "none", ![p] = "none"]
        /\ UNCHANGED <<read, uniform>>

Next == Read \/ Build \/ BuildSummary \/ Take

Spec == Init /\ [][Next]_<<read, uniform, owner>>
=============================================================================
