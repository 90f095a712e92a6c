------------------------------- MODULE Lending -------------------------------
(***************************************************************************)
(* The lending core of the on-chain program: deposit, withdraw, borrow,    *)
(* repay, liquidate, and what the administration (module Governance) does  *)
(* to the same accounts: the pause switch and the fees                     *)
(* (programs/liilend/src/instructions/*.rs).                               *)
(*                                                                         *)
(* One action is one transaction: a handler that returns an error aborts   *)
(* it with all its writes, so its condition is a guard of the action.      *)
(*                                                                         *)
(* The state is that of the program's own accounts, the books.  Each       *)
(* handler also moves tokens, and may call another program; nothing that   *)
(* it writes here depends on them except that they can fail, and then the  *)
(* step is not taken.  Module Vaults conjoins to each action the tokens    *)
(* that the handler moves.                                                 *)
(***************************************************************************)
EXTENDS ShareMath, Totals

CONSTANTS
    Users,          \* wallets: depositors and borrowers
    Mints,          \* the configured assets, one vault each
    Amounts,        \* amounts a client may ask for
    ShareAmounts,   \* share amounts a client may redeem
    MaxDeposits     \* bound: all deposits ever made, in token units

ASSUME AmountsAssumption == Amounts \subseteq Nat /\ ShareAmounts \subseteq Nat
ASSUME BoundsAssumption == MaxDeposits \in Nat

VARIABLES
    paused,             \* ProtocolState.paused
    vaultShares,        \* VaultAccount.total_shares, per mint
    vaultValue,         \* VaultAccount.total_value, per mint
    opened,             \* the UserCollateralAccounts that exist
    collateral,         \* UserCollateralAccount.shares, per user and mint
    userShares,         \* UserAccount.collateral_shares, per user
    debt,               \* BorrowPosition.debt_shares, per user and mint
    globalDebtShares,   \* ProtocolState.global_debt_shares
    totalBorrows,       \* ProtocolState.total_borrows_usd
    totalDeposits,      \* ProtocolState.total_deposits_usd
    fees,               \* TreasuryAccount.fee_accumulator
    liquidationPaid,    \* history: what liquidators took from each vault
    stranded,           \* history: shares seized but not burnt, per mint
    seizedFrom          \* history: shares seized from each user

accounts == <<opened, collateral, userShares>>
debtPool == <<debt, globalDebtShares, totalBorrows>>
history  == <<liquidationPaid, stranded, seizedFrom>>
vars == <<paused, vaultShares, vaultValue, accounts, debtPool, totalDeposits,
          fees, history>>

Positions == Users \X Mints

TypeOK ==
    /\ paused \in BOOLEAN
    /\ vaultShares \in [Mints -> Nat]
    /\ vaultValue \in [Mints -> Nat]
    /\ opened \in SUBSET Positions
    /\ collateral \in [Positions -> Nat]
    /\ userShares \in [Users -> Nat]
    /\ debt \in [Positions -> Nat]
    /\ globalDebtShares \in Nat
    /\ totalBorrows \in Nat
    /\ totalDeposits \in Nat
    /\ fees \in Nat
    /\ liquidationPaid \in [Mints -> Nat]
    /\ stranded \in [Mints -> Nat]
    /\ seizedFrom \in [Users -> Nat]

Init ==
    /\ paused = FALSE
    /\ vaultShares = [m \in Mints |-> 0]
    /\ vaultValue = [m \in Mints |-> 0]
    /\ opened = {}
    /\ collateral = [p \in Positions |-> 0]
    /\ userShares = [u \in Users |-> 0]
    /\ debt = [p \in Positions |-> 0]
    /\ globalDebtShares = 0
    /\ totalBorrows = 0
    /\ totalDeposits = 0
    /\ fees = 0
    /\ liquidationPaid = [m \in Mints |-> 0]
    /\ stranded = [m \in Mints |-> 0]
    /\ seizedFrom = [u \in Users |-> 0]

-----------------------------------------------------------------------------
(* Pieces of the handlers.  Each names the writes that several handlers make *)
(* together.                                                                 *)

\* What a position owes, in token units, as repay and liquidate compute it.
DebtAmount(u, m) ==
    debt_shares_to_amount(debt[<<u, m>>], globalDebtShares, AsU64(totalBorrows))

\* What shares of a vault redeem for.
Redeemed(m, shares) == shares_to_amount(shares, vaultShares[m], vaultValue[m])

\* What a liquidation repays of a debt.
Repaid(u, b, maxRepay) == Least(maxRepay, DebtAmount(u, b))

\* What a user's shares of one vault redeem for.
CollateralAmount(u, m) == Redeemed(m, collateral[<<u, m>>])

Credit(m, amount) ==
    vaultValue' = [vaultValue EXCEPT ![m] = SaturatingAddU64(@, amount)]

\* Mistake to catch: total_value is not written.
DebitNothing(m, amount) == UNCHANGED vaultValue

Debit(m, amount) ==
    vaultValue' = [vaultValue EXCEPT ![m] = SaturatingSub(@, amount)]

\* Mistake to catch: the per-user aggregate is left behind.
MintSharesOfVault(u, m, shares) ==
    /\ vaultShares' = [vaultShares EXCEPT ![m] = @ + shares]
    /\ opened' = opened \cup {<<u, m>>}
    /\ collateral' = [collateral EXCEPT ![<<u, m>>] = @ + shares]
    /\ UNCHANGED userShares

\* Both accounts of the depositor are created if needed.
MintShares(u, m, shares) ==
    /\ vaultShares' = [vaultShares EXCEPT ![m] = @ + shares]
    /\ opened' = opened \cup {<<u, m>>}
    /\ collateral' = [collateral EXCEPT ![<<u, m>>] = @ + shares]
    /\ userShares' = [userShares EXCEPT ![u] = @ + shares]

\* Mistake to catch: the vault keeps the shares it has redeemed.
RedeemSharesOfUser(u, m, shares) ==
    /\ collateral[<<u, m>>] >= shares
    /\ collateral' = [collateral EXCEPT ![<<u, m>>] = @ - shares]
    /\ userShares' = [userShares EXCEPT ![u] = SaturatingSub(@, shares)]
    /\ UNCHANGED <<vaultShares, opened>>

RedeemShares(u, m, shares) ==
    /\ collateral[<<u, m>>] >= shares
    /\ collateral' = [collateral EXCEPT ![<<u, m>>] = @ - shares]
    /\ vaultShares' = [vaultShares EXCEPT ![m] = SaturatingSub(@, shares)]
    /\ userShares' = [userShares EXCEPT ![u] = SaturatingSub(@, shares)]
    /\ UNCHANGED opened

AddDebt(u, m, shares, amount) ==
    /\ debt' = [debt EXCEPT ![<<u, m>>] = @ + shares]
    /\ globalDebtShares' = globalDebtShares + shares
    /\ totalBorrows' = totalBorrows + amount

\* Mistakes to catch: the pool keeps the shares, or the amount, of a debt that
\* was paid.
ClearDebtKeepingShares(u, m, shares, amount) ==
    /\ debt' = [debt EXCEPT ![<<u, m>>] = SaturatingSub(@, shares)]
    /\ totalBorrows' = SaturatingSub(totalBorrows, amount)
    /\ UNCHANGED globalDebtShares

ClearDebtKeepingAmount(u, m, shares, amount) ==
    /\ debt' = [debt EXCEPT ![<<u, m>>] = SaturatingSub(@, shares)]
    /\ globalDebtShares' = SaturatingSub(globalDebtShares, shares)
    /\ UNCHANGED totalBorrows

ClearDebt(u, m, shares, amount) ==
    /\ debt' = [debt EXCEPT ![<<u, m>>] = SaturatingSub(@, shares)]
    /\ globalDebtShares' = SaturatingSub(globalDebtShares, shares)
    /\ totalBorrows' = SaturatingSub(totalBorrows, amount)

\* The loan-to-value test of handle_borrow: the new amount alone against all
\* the user's shares, taken as a value and cut to 64 bits.
WithinMaxLtv(u, amount) ==
    LET value == AsU64(userShares[u])
    IN  /\ value > 0
        /\ calculate_ltv(amount, value) <= adjust_ltv_with_buffer(10000, 1000)

\* The test of handle_liquidate, on one collateral and one borrowed mint.
Liquidatable(u, c, b) ==
    calculate_health_factor(CollateralAmount(u, c), DebtAmount(u, b), 7500)
        < 1000000

\* Mistake to catch: a fee that rounds up.
LiquidationFeeUp(repay) == AsU64((repay * 500 + 9999) \div 10000)

\* What a liquidation adds to the treasury's accumulator.
LiquidationFee(repay) == AsU64((repay * 500) \div 10000)

\* Mistake to catch: more is seized than the account has.
SeizeReward(u, c, b, reward) ==
    LET burn == IF c = b THEN 0 ELSE reward
    IN  /\ <<u, c>> \in opened
        /\ collateral' = [collateral EXCEPT ![<<u, c>>] = @ - reward]
        /\ vaultShares' = [vaultShares EXCEPT ![c] = SaturatingSub(@, burn)]
        /\ seizedFrom' = [seizedFrom EXCEPT ![u] = @ + reward]
        /\ stranded' = [stranded EXCEPT ![c] = @ + (reward - burn)]
        /\ UNCHANGED <<opened, userShares>>

\* The collateral seized is a token amount, compared with a share count.  If
\* the two mints are the same, both vault arguments are one account: the
\* framework writes borrow_vault back after collateral_vault, and its unchanged
\* copy undoes the burn of total_shares.
SeizeShares(u, c, b, reward) ==
    LET seize == Least(reward, AsU64(collateral[<<u, c>>]))
        burn  == IF c = b THEN 0 ELSE seize
    IN  /\ <<u, c>> \in opened
        /\ collateral' = [collateral EXCEPT ![<<u, c>>] = @ - seize]
        /\ vaultShares' = [vaultShares EXCEPT ![c] = SaturatingSub(@, burn)]
        /\ seizedFrom' = [seizedFrom EXCEPT ![u] = @ + seize]
        /\ stranded' = [stranded EXCEPT ![c] = @ + (seize - burn)]
        /\ UNCHANGED <<opened, userShares>>

-----------------------------------------------------------------------------
(* What the handlers do to the books. *)

\* handle_deposit.
Deposit(u, m, amount) ==
    LET shares == amount_to_shares(amount, vaultShares[m], vaultValue[m])
    IN  /\ ~paused
        /\ amount > 0
        /\ shares > 0
        /\ totalDeposits + amount <= MaxDeposits
        /\ MintShares(u, m, shares)
        /\ Credit(m, amount)
        /\ totalDeposits' = totalDeposits + amount
        /\ UNCHANGED <<paused, debtPool, fees, history>>

\* handle_withdraw.  Nothing here reads the user's debt, and total_deposits_usd
\* stays.
Withdraw(u, m, shares) ==
    /\ ~paused
    /\ shares > 0
    /\ RedeemShares(u, m, shares)
    /\ Debit(m, Redeemed(m, shares))
    /\ UNCHANGED <<paused, debtPool, totalDeposits, fees, history>>

\* handle_borrow.
Borrow(u, m, amount) ==
    LET shares == amount_to_debt_shares(amount, globalDebtShares,
                                        AsU64(totalBorrows))
    IN  /\ ~paused
        /\ amount > 0
        /\ vaultValue[m] >= amount
        /\ WithinMaxLtv(u, amount)
        /\ AddDebt(u, m, shares, amount)
        /\ Debit(m, amount)
        /\ UNCHANGED <<paused, vaultShares, accounts, totalDeposits, fees,
                       history>>

\* handle_repay: at most what the position owes.
Repay(u, m, amount) ==
    LET owed   == DebtAmount(u, m)
        shares == (amount * debt[<<u, m>>]) \div owed
    IN  /\ ~paused
        /\ amount > 0
        /\ amount <= owed
        /\ ClearDebt(u, m, shares, amount)
        /\ Credit(m, amount)
        /\ UNCHANGED <<paused, vaultShares, accounts, totalDeposits, fees,
                       history>>

\* handle_liquidate, by any signer: the borrow vault pays it, the position's
\* debt shrinks and collateral shares are burnt; no vault's total_value moves.
Liquidate(u, c, b, maxRepay) ==
    LET repay  == Repaid(u, b, maxRepay)
        shares == (repay * globalDebtShares) \div totalBorrows
    IN  /\ ~paused
        /\ maxRepay > 0
        /\ DebtAmount(u, b) > 0
        /\ Liquidatable(u, c, b)
        /\ liquidationPaid' = [liquidationPaid EXCEPT ![b] = @ + repay]
        /\ SeizeShares(u, c, b, calculate_liquidation_amount(repay, 500))
        /\ ClearDebt(u, b, shares, repay)
        /\ fees' = SaturatingAddU64(fees, LiquidationFee(repay))
        /\ UNCHANGED <<paused, vaultValue, totalDeposits>>

\* handle_set_paused, by the protocol authority (module Governance).
SetPaused(value) ==
    /\ paused' = value
    /\ UNCHANGED <<vaultShares, vaultValue, accounts, debtPool, totalDeposits,
                   fees, history>>

\* handle_collect_fees, by the fee authority: the accumulator starts again.
CollectFees ==
    /\ fees' = 0
    /\ UNCHANGED <<paused, vaultShares, vaultValue, accounts, debtPool,
                   totalDeposits, history>>

Next ==
    \/ \E u \in Users, m \in Mints :
          \/ \E amount \in Amounts : Deposit(u, m, amount)
          \/ \E shares \in ShareAmounts : Withdraw(u, m, shares)
          \/ \E amount \in Amounts : Borrow(u, m, amount)
          \/ \E amount \in Amounts : Repay(u, m, amount)
    \/ \E u \in Users, c, b \in Mints, maxRepay \in Amounts :
          Liquidate(u, c, b, maxRepay)
    \/ \E value \in BOOLEAN : SetPaused(value)
    \/ CollectFees

Spec == Init /\ [][Next]_vars

-----------------------------------------------------------------------------
(* Invariants. *)

\* The accounts of one vault, and those of one user.
InVault(shares, m) == [u \in Users |-> shares[<<u, m>>]]
OfUser(shares, u)  == [m \in Mints |-> shares[<<u, m>>]]

\* What the positions owe, each rounded down on its own, adds up to what the
\* protocol says is lent: no rounding of borrow, repay or liquidate leaves dust
\* that nobody owes, or a debt that no repayment can clear.
OwedIsBorrowed ==
    IsTotal([p \in Positions |-> DebtAmount(p[1], p[2])], totalBorrows)

\* global_debt_shares is the total of the positions' debt_shares, over all
\* users and all mints, after any sequence of handlers.
DebtPoolExact == IsTotal(debt, globalDebtShares)

\* Each vault's total_shares is the total of its depositors' shares and of
\* those a liquidation seized without burning them.
SharesAccounted ==
    \A m \in Mints :
        /\ stranded[m] <= vaultShares[m]
        /\ IsTotal(InVault(collateral, m), vaultShares[m] - stranded[m])

\* The per-user aggregate that borrow relies on is the total of the user's
\* collateral accounts and of what was seized from them.
AggregateAccounted ==
    \A u \in Users :
        /\ seizedFrom[u] <= userShares[u]
        /\ IsTotal(OfUser(collateral, u), userShares[u] - seizedFrom[u])

\* What the vaults claim to hold and what is lent out were deposited once:
\* no sequence of handlers makes value from nothing.
ValueWasDeposited ==
    \E total \in 0..totalDeposits :
        /\ IsTotal(vaultValue, total)
        /\ total + totalBorrows <= totalDeposits

-----------------------------------------------------------------------------
(* The inductive invariant behind all of these (module LendingTheorems). *)

\* The debt of each position in token units.
Owed == [p \in Positions |-> debt[p] \div SHARE_MULTIPLIER]

\* Nothing accrues interest, so a token of debt is SHARE_MULTIPLIER shares from
\* the first loan on: no conversion of debt ever rounds.
DebtIndex ==
    /\ globalDebtShares = SHARE_MULTIPLIER * totalBorrows
    /\ \A p \in Positions : debt[p] = SHARE_MULTIPLIER * Owed[p]
    /\ IsTotal(Owed, totalBorrows)

\* Everything at once, with the bound on deposits that keeps sums in 64 bits.
BooksAgree ==
    /\ TypeOK
    /\ totalDeposits <= MaxDeposits
    /\ DebtIndex
    /\ SharesAccounted
    /\ AggregateAccounted
    /\ ValueWasDeposited

-----------------------------------------------------------------------------
(* Action properties. *)

\* No handler changes what is owed on a position it does not touch, although
\* all the positions, of every mint, are shares of one global pool.
OthersOweTheSame ==
    [][\A u \in Users, m \in Mints :
          debt'[<<u, m>>] = debt[<<u, m>>]
            => DebtAmount(u, m)' = DebtAmount(u, m)]_vars

\* Only a borrow lowers the value of a vault share: deposits, withdrawals,
\* repayments and liquidations round in favour of those who stay.
OnlyBorrowLowersShares ==
    [][\A m \in Mints :
          (totalBorrows' <= totalBorrows /\ vaultShares[m] > 0)
            => vaultValue'[m] * vaultShares[m]
                 >= vaultValue[m] * vaultShares'[m]]_vars

=============================================================================
