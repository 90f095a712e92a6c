------------------------------ MODULE MCLending ------------------------------
(***************************************************************************)
(* Small instances of Lending for TLC.                                     *)
(***************************************************************************)
EXTENDS LendingLedger, TLC

CONSTANTS
    FirstAmount,    \* the smallest amount a client asks for
    AmountCount,    \* how many multiples of it
    OddShares       \* a share amount that is not a multiple of the others

MCAmounts == {FirstAmount * k : k \in 1..AmountCount}
MCShareAmounts == {a * SHARE_MULTIPLIER : a \in MCAmounts} \cup {OddShares}

Symmetry == Permutations(Users) \cup Permutations(Mints)
=============================================================================
