---------------------------- MODULE MCSafeOutput ----------------------------
(* The instance of SafeOutput that TLC explores. *)
EXTENDS SafeOutput, TLC

Symmetry == Permutations(Processes)
=============================================================================
