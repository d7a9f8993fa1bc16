----------------------------- MODULE MCDispatch -----------------------------
(* The instances of Dispatch for TLC: the specification with its inductive   *)
(* invariant, so that the runs check what DispatchProofs proves; the         *)
(* connections are the model values of the cfg.                              *)
EXTENDS DispatchInvariant

CONSTANTS c1, c2
=============================================================================
