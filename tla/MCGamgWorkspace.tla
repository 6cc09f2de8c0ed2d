-------------------------- MODULE MCGamgWorkspace --------------------------
(***************************************************************************)
(* GamgWorkspace with four levels, which have a first, a middle and a      *)
(* last level to descend through, two versions of the coefficients and two *)
(* solves after each other, or three with a failure between.               *)
(***************************************************************************)
EXTENDS GamgWorkspace

MCOptions == [flexible : BOOLEAN, cacheAgglomeration : BOOLEAN, interpolate : {TRUE},
              scale : {TRUE}, nPreSweeps : {0, 1}, preMultiplier : {1}, maxPreSweeps : {2}]

MCControls == {[min |-> 0, max |-> 2, tolerance |-> 1, reduction |-> 0, strict |-> TRUE],
               [min |-> 2, max |-> 0, tolerance |-> 0, reduction |-> 2, strict |-> TRUE],
               [min |-> 0, max |-> 0, tolerance |-> 0, reduction |-> 2, strict |-> FALSE]}
=============================================================================
