------------------------------- MODULE Totals -------------------------------
(***************************************************************************)
(* What it means for a number to be the total of a family of numbers.      *)
(* The program keeps totals (total_shares, global_debt_shares) beside the  *)
(* accounts they are totals of; the invariants of the other modules say    *)
(* that they agree.                                                        *)
(*                                                                         *)
(* A total is stated by its additive measure, a function that gives every  *)
(* subset of the domain its own sum: this form needs no recursion, so the  *)
(* proofs can update it, and TLC evaluates it on small domains.            *)
(***************************************************************************)
EXTENDS Integers

\* S gives every part of the domain of f the sum of f over it, up to total.
Measures(S, f, total) ==
    /\ S[{}] = 0
    /\ S[DOMAIN f] = total
    /\ \A T \in SUBSET DOMAIN f : \A x \in T : S[T] = S[T \ {x}] + f[x]

\* total is the sum of f over its domain.
IsTotal(f, total) ==
    \E S \in [SUBSET DOMAIN f -> 0..total] : Measures(S, f, total)
=============================================================================
