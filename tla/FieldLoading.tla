---------------------------- MODULE FieldLoading ----------------------------
(***************************************************************************)
(* A set of initial fields comes from the files of a directory             *)
(* (read_initial_fields), of which one is followed token by token through  *)
(* FieldFile, or from a caller that makes it by other means.  In both      *)
(* cases it then goes the way of FieldOwnership.                           *)
(***************************************************************************)
EXTENDS FieldOwnership, FieldGrammar

CONSTANT Texts            \* the files, as sequences of tokens

ASSUME LoadingAssumption == /\ MaxNesting \in Nat
                            /\ MaxRetained \in Nat
                            /\ Texts \subseteq Seq(Tokens)

LoadingInit == /\ Init
               /\ NoFile \/ \E file \in Texts, keep \in BOOLEAN : Begin(file, keep)

ReadToken == Read /\ UNCHANGED vars

\* What a value that was read can be for the solver: a uniform one need not be a number of the
\* shape its field has, a list need not have as many values as its mesh has cells.
Fits(value, internal) ==
  CASE value.kind = "uniform"    -> internal \in {"uniform", "none"}
    [] value.kind = "nonuniform" -> internal \in {"list", "short"}
    [] OTHER                     -> internal = "none"

\* read_initial_fields sorts the fields.
Sorted == {f \in [Fields -> Field] : \A i, j \in Fields : j < i => Rank(f[j]) <= Rank(f[i])}

\* The file was one of the directory, its field is one of the set, and every file was read by
\* the one policy.
ReceiveRead ==
  /\ mode = "done"
  /\ fields' \in {f \in Sorted : \E i \in Fields : Fits(found["internal"], f[i].internal)}
  /\ source' = IF full THEN {i \in Fields : List(i)'} ELSE {}
  /\ Receive
  /\ Close

ReceiveMade == NoFile /\ Receive /\ UNCHANGED reader

\* An error of one file is one of the whole directory: the caller has no set of fields, and can
\* still make one.
Dismiss == mode = "refused" /\ Close /\ UNCHANGED vars

LoadingNext == \/ ReadToken
               \/ ReceiveRead \/ ReceiveMade \/ Dismiss
               \/ Work /\ UNCHANGED reader

LoadingSpec == LoadingInit /\ [][LoadingNext]_<<vars, reader>>
=============================================================================
