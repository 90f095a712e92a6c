------------------------------- MODULE MCVaults -------------------------------
(***************************************************************************)
(* Small instances of Vaults for TLC.                                      *)
(***************************************************************************)
EXTENDS Vaults, TLC

CONSTANT AmountCount    \* clients ask for 1 to AmountCount tokens

MCAmounts == 1..AmountCount
MCShareAmounts == {a * SHARE_MULTIPLIER : a \in MCAmounts}

Symmetry == Permutations(Users) \cup Permutations(Mints)
=============================================================================
