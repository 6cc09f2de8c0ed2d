--------------------------- MODULE MCScalarSolve ---------------------------
(***************************************************************************)
(* ScalarSolve with every kernel, norms up to 3 of four components (so     *)
(* that an L1 norm is up to twice the L2 norm), absolute and relative      *)
(* limits that dominate each other, a ratio above one, a target of zero,   *)
(* and two solves with different matrices on one PCG workspace.            *)
(***************************************************************************)
EXTENDS ScalarSolve

MCControls == {[tolerance |-> 2, num |-> 0, den |-> 1, max |-> 2, min |-> 0],
               [tolerance |-> 1, num |-> 1, den |-> 2, max |-> 1, min |-> 2],
               [tolerance |-> 0, num |-> 3, den |-> 2, max |-> 1, min |-> 0],
               [tolerance |-> 0, num |-> 0, den |-> 1, max |-> 1, min |-> 0]}
=============================================================================
