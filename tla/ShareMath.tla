------------------------------ MODULE ShareMath ------------------------------
(***************************************************************************)
(* The integer arithmetic of the program: utils/share_math.rs and          *)
(* utils/math.rs.  Amounts are u64, shares u128; "as u64" keeps the low 64 *)
(* bits and division rounds down.                                          *)
(*                                                                         *)
(* The code's SHARE_MULTIPLIER is 10^9 and its U64 is 2^64; both are       *)
(* constants here, because TLC's integers have 32 bits.  u128 products are *)
(* unbounded: where the code would overflow one, overflow-checks = true    *)
(* (Cargo.toml) aborts the transaction, so the model has every behaviour   *)
(* of the code and some more.                                              *)
(***************************************************************************)
EXTENDS Integers

CONSTANTS
    SHARE_MULTIPLIER,   \* shares minted per unit when a pool is empty
    U64                 \* the number of values of a u64

ASSUME MultiplierAssumption == SHARE_MULTIPLIER \in Nat \ {0}
ASSUME U64Assumption == U64 \in Nat \ {0}

BASIS_POINTS_DIVISOR == 10000

AsU64(x) == x % U64

SaturatingSub(x, y) == IF y <= x THEN x - y ELSE 0

SaturatingAddU64(x, y) == IF x + y < U64 THEN x + y ELSE U64 - 1

Least(x, y) == IF x <= y THEN x ELSE y

-----------------------------------------------------------------------------
(* Vault shares. *)

\* Mistake to catch: a redemption that rounds up.
shares_to_amount_up(shares, totalShares, totalValue) ==
    IF totalShares = 0 THEN 0
    ELSE AsU64((shares * totalValue + totalShares - 1) \div totalShares)

shares_to_amount(shares, totalShares, totalValue) ==
    IF totalShares = 0 THEN 0 ELSE AsU64((shares * totalValue) \div totalShares)

amount_to_shares(amount, totalShares, totalValue) ==
    IF totalValue = 0 \/ totalShares = 0
    THEN amount * SHARE_MULTIPLIER
    ELSE (amount * totalShares) \div totalValue

(* Debt shares: the same two conversions against the one global debt pool. *)

debt_shares_to_amount(debtShares, totalDebtShares, totalDebtValue) ==
    IF totalDebtShares = 0 THEN 0
    ELSE AsU64((debtShares * totalDebtValue) \div totalDebtShares)

\* Mistake to catch: dividing before multiplying.
amount_to_debt_shares_early(amount, totalDebtShares, totalDebtValue) ==
    IF totalDebtValue = 0 \/ totalDebtShares = 0
    THEN amount * SHARE_MULTIPLIER
    ELSE (amount \div totalDebtValue) * totalDebtShares

amount_to_debt_shares(amount, totalDebtShares, totalDebtValue) ==
    IF totalDebtValue = 0 \/ totalDebtShares = 0
    THEN amount * SHARE_MULTIPLIER
    ELSE (amount * totalDebtShares) \div totalDebtValue

-----------------------------------------------------------------------------
(* Risk arithmetic, in basis points. *)

\* The code returns an error, which aborts the transaction, when
\* collateralValue = 0: callers state that as a guard.
calculate_ltv(borrowValue, collateralValue) ==
    AsU64((borrowValue * BASIS_POINTS_DIVISOR) \div collateralValue)

\* A whole number, not scaled: 1 means the weighted collateral covers the debt
\* once.  The code's u64::MAX for no debt is never asked for: its only caller
\* has already refused a position without debt.
calculate_health_factor(collateralValue, borrowValue, thresholdBps) ==
    AsU64((collateralValue * thresholdBps)
             \div (borrowValue * BASIS_POINTS_DIVISOR))

calculate_liquidation_amount(debtValue, penaltyBps) ==
    AsU64((debtValue * (BASIS_POINTS_DIVISOR + penaltyBps))
             \div BASIS_POINTS_DIVISOR)

adjust_ltv_with_buffer(maxLtvBps, bufferBps) ==
    SaturatingSub(maxLtvBps, bufferBps)
=============================================================================
