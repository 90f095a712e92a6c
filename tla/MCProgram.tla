----------------------------- MODULE MCProgram -----------------------------
(***************************************************************************)
(* Small instances of Program for TLC.                                     *)
(***************************************************************************)
EXTENDS Program, TLC

Symmetry == Permutations(Users) \cup Permutations(Mints) \cup Permutations(Keys)
=============================================================================
