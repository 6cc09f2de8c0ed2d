---------------------------- MODULE MCSimpleLoop ----------------------------
(***************************************************************************)
(* SimpleLoop with three iterations, so that a rejection can follow two    *)
(* accepted iterations, and one corrector, so that a breakdown can follow  *)
(* a solve that worked.                                                    *)
(***************************************************************************)
EXTENDS SimpleLoop
=============================================================================
