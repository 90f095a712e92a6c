--------------------------- MODULE MCTransactions ---------------------------
(***************************************************************************)
(* Small instances of Transactions for TLC.                                *)
(***************************************************************************)
EXTENDS Transactions, TLC

Symmetry ==
    Permutations(Slots) \cup Permutations(Users) \cup Permutations(Mints)
        \cup Permutations(Keys)
=============================================================================
