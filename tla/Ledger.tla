-------------------------------- MODULE Ledger --------------------------------
(***************************************************************************)
(* What the lending core promises about its books, without shares and      *)
(* global totals: what each vault is worth, and who owes how many tokens.  *)
(* Every handler enters whole tokens, a debt changes by exactly the tokens *)
(* of a loan, of a repayment or of a liquidation, and a vault by exactly   *)
(* those of a deposit, a redemption, a loan or a repayment, whatever       *)
(* happened before and on whatever market.                                 *)
(*                                                                         *)
(* LendingLedger shows that Lending implements it.                         *)
(***************************************************************************)
EXTENDS Integers

CONSTANTS
    Users, Mints,
    Amounts     \* the amounts of tokens that can be entered at once

VARIABLES
    value,      \* what each vault is worth
    owed        \* what each user owes of each mint

ledger == <<value, owed>>

Opening ==
    /\ value = [m \in Mints |-> 0]
    /\ owed = [p \in Users \X Mints |-> 0]

\* A negative amount takes away.
Gains(m, amount) == value' = [value EXCEPT ![m] = @ + amount]

Owes(u, m, amount) ==
    owed' = [owed EXCEPT ![<<u, m>>] = @ + amount]

Supply(m, amount) ==
    /\ Gains(m, amount)
    /\ UNCHANGED owed

Redeem(m, amount) ==
    /\ amount <= value[m]
    /\ Gains(m, -amount)
    /\ UNCHANGED owed

Lend(u, m, amount) ==
    /\ amount <= value[m]
    /\ Gains(m, -amount)
    /\ Owes(u, m, amount)

Return(u, m, amount) ==
    /\ amount <= owed[<<u, m>>]
    /\ Gains(m, amount)
    /\ Owes(u, m, -amount)

\* A liquidation: the debt falls, and the vault is worth what it was.
Settle(u, m, amount) ==
    /\ amount <= owed[<<u, m>>]
    /\ Owes(u, m, -amount)
    /\ UNCHANGED value

Entry ==
    \E u \in Users, m \in Mints, amount \in Amounts :
        \/ Supply(m, amount)
        \/ Redeem(m, amount)
        \/ Lend(u, m, amount)
        \/ Return(u, m, amount)
        \/ Settle(u, m, amount)
=============================================================================
