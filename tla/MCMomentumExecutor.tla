------------------------- MODULE MCMomentumExecutor -------------------------
(***************************************************************************)
(* MomentumExecutor with the three components of the code and two          *)
(* iterations of the loop, so that a solve meets whatever an earlier one   *)
(* could have left behind.                                                 *)
(***************************************************************************)
EXTENDS MomentumExecutor
=============================================================================
