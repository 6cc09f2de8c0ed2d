------------------------------ MODULE FoamFile ------------------------------
(***************************************************************************)
(* A file of a mesh as its reader sees it (poly_mesh.rs and regions.rs).   *)
(* A list must have as many entries as it says and a parenthesis after the *)
(* last.  Of patches and zones the number is not compared, and the end of  *)
(* the file ends them as a parenthesis does, if it is between two entries. *)
(*                                                                         *)
(* The writers (foam.rs, regions.rs) drop a buffered writer when they have *)
(* written to it: an error while its rest is written goes unseen.          *)
(***************************************************************************)
EXTENDS Integers, Sequences

CONSTANTS
  Words,     \* names of zones and patches
  NameRank,  \* the place of a name in alphabetical order
  MaxFaults  \* bounds the writes that go wrong

ASSUME FaultAssumption == MaxFaults \in Nat
ASSUME NameAssumption ==
  /\ NameRank \in [Words -> Nat \ {0}]
  /\ \A m, n \in Words : NameRank[m] = NameRank[n] => m = n

VARIABLE faults     \* the writes that went wrong

ZoneLike == {"boundary", "faceZones", "cellZones"}

\* A file that is absent or cannot be read, and one that reads as data.
Unreadable == [readable |-> FALSE, data |-> <<>>]
Reads(data) == [readable |-> TRUE, data |-> data]

\* What is left of a file when the end of it is not written.
Torn(f, data) == {Unreadable} \cup
  IF f \in ZoneLike THEN {Reads(SubSeq(data, 1, n)) : n \in 0 .. Len(data)} ELSE {}

Fault == faults < MaxFaults /\ faults' = faults + 1
=============================================================================
