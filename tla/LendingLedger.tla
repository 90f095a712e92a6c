---------------------------- MODULE LendingLedger ----------------------------
(***************************************************************************)
(* Lending implements Ledger: a vault is worth its total_value, and the    *)
(* debt in tokens is Owed.                                                 *)
(***************************************************************************)
EXTENDS Lending

Book == INSTANCE Ledger
            WITH Amounts <- 0..MaxDeposits,
                 value <- vaultValue, owed <- Owed

\* The handlers enter whole tokens, and a debt and a vault's total_value change
\* by exactly the tokens of the loan, the repayment, the liquidation, the
\* deposit or the redemption: the debt shares of one pool for all markets, the
\* shares of the vaults and their roundings (borrow.rs, repay.rs, liquidate.rs,
\* share_math.rs) never show in what a vault is worth or in who owes what.
KeepsTheLedger ==
    Book!Opening /\ [][Book!Entry]_(Book!ledger)
=============================================================================
