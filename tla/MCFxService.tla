----------------------------- MODULE MCFxService -----------------------------
(***************************************************************************)
(* Small instances of FxService for TLC.                                   *)
(***************************************************************************)
EXTENDS FxService, TLC

Symmetry == Permutations(Calls)
=============================================================================
