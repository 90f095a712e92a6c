-------------------------- MODULE LendingTheorems -----------------------------
(***************************************************************************)
(* Proofs about Lending, for every set of users and mints, every amounts   *)
(* and every value of the bounds: types, what the handlers do to the debt  *)
(* pool, and that the books of the program agree in every reachable state. *)
(* BooksAgree is inductive, and every safety invariant of Lending follows  *)
(* from it.  The invariants assume only that all the deposits ever made    *)
(* fit in 64 bits (MaxDeposits < U64); type correctness assumes nothing.   *)
(***************************************************************************)
EXTENDS Lending, ArithmeticTheorems

-----------------------------------------------------------------------------
(* Type correctness. *)

\* What a position owes and what a deposit redeems for are natural numbers;
\* only a pool with loans makes a debt positive.
LEMMA AmountTypes ==
    ASSUME TypeOK, NEW u \in Users, NEW m \in Mints
    PROVE  /\ DebtAmount(u, m) \in Nat
           /\ CollateralAmount(u, m) \in Nat
           /\ debt[<<u, m>>] \in Nat
           /\ collateral[<<u, m>>] \in Nat
           /\ DebtAmount(u, m) > 0 => totalBorrows > 0
<1>1. /\ debt[<<u, m>>] \in Nat /\ collateral[<<u, m>>] \in Nat
      /\ vaultShares[m] \in Nat /\ vaultValue[m] \in Nat
      /\ globalDebtShares \in Nat /\ totalBorrows \in Nat
      /\ AsU64(totalBorrows) \in Nat
  BY CastBounds DEF TypeOK, Positions
<1>2. DebtAmount(u, m) \in Nat /\ CollateralAmount(u, m) \in Nat
  BY <1>1, ConversionTypes DEF DebtAmount, CollateralAmount, Redeemed
<1>3. ASSUME totalBorrows = 0
      PROVE  DebtAmount(u, m) = 0
  <2>1. AsU64(0) = 0
    BY U64Assumption DEF AsU64
  <2>2. CASE globalDebtShares = 0
    BY <2>2 DEF DebtAmount, debt_shares_to_amount
  <2>3. CASE globalDebtShares # 0
    <3>1. debt[<<u, m>>] * 0 = 0
      BY <1>1
    <3>2. 0 \div globalDebtShares = 0
      BY <1>1, <2>3
    <3> QED
      BY <1>3, <2>1, <3>1, <3>2 DEF DebtAmount, debt_shares_to_amount
  <2> QED
    BY <2>2, <2>3
<1> QED
  BY <1>1, <1>2, <1>3

LEMMA DepositTypes ==
    ASSUME TypeOK, NEW u \in Users, NEW m \in Mints, NEW amount \in Nat,
           Deposit(u, m, amount)
    PROVE  TypeOK'
<1> DEFINE shares == amount_to_shares(amount, vaultShares[m], vaultValue[m])
<1>1. shares \in Nat
  BY ConversionTypes DEF TypeOK
<1>2. SaturatingAddU64(vaultValue[m], amount) \in Nat
  BY ArithmeticTypes DEF TypeOK
<1> HIDE DEF shares
<1>3. /\ vaultValue' = [vaultValue EXCEPT ![m] = SaturatingAddU64(@, amount)]
      /\ totalDeposits' = totalDeposits + amount
      /\ vaultShares' = [vaultShares EXCEPT ![m] = @ + shares]
      /\ opened' = opened \cup {<<u, m>>}
      /\ collateral' = [collateral EXCEPT ![<<u, m>>] = @ + shares]
      /\ userShares' = [userShares EXCEPT ![u] = @ + shares]
  BY DEF Deposit, Credit, MintShares, shares
<1>4. UNCHANGED <<paused, debtPool, fees, history>>
  BY DEF Deposit
<1> QED
  BY <1>1, <1>2, <1>3, <1>4 DEF TypeOK, Positions, debtPool, history

LEMMA WithdrawTypes ==
    ASSUME TypeOK, NEW u \in Users, NEW m \in Mints, NEW shares \in Nat,
           Withdraw(u, m, shares)
    PROVE  TypeOK'
<1> DEFINE amount == Redeemed(m, shares)
<1>1. amount \in Nat
  BY ConversionTypes DEF TypeOK, Redeemed
<1>2. /\ SaturatingSub(vaultShares[m], shares) \in Nat
      /\ SaturatingSub(vaultValue[m], amount) \in Nat
      /\ SaturatingSub(userShares[u], shares) \in Nat
  BY <1>1, ArithmeticTypes DEF TypeOK
<1> HIDE DEF amount
<1>3. /\ collateral[<<u, m>>] >= shares
      /\ collateral' = [collateral EXCEPT ![<<u, m>>] = @ - shares]
      /\ vaultShares' = [vaultShares EXCEPT ![m] = SaturatingSub(@, shares)]
      /\ userShares' = [userShares EXCEPT ![u] = SaturatingSub(@, shares)]
      /\ UNCHANGED opened
      /\ vaultValue' = [vaultValue EXCEPT ![m] = SaturatingSub(@, amount)]
  BY DEF Withdraw, RedeemShares, Debit, amount
<1>4. UNCHANGED <<paused, debtPool, totalDeposits, fees, history>>
  BY DEF Withdraw
<1> QED
  BY <1>1, <1>2, <1>3, <1>4 DEF TypeOK, Positions, debtPool, history

LEMMA BorrowTypes ==
    ASSUME TypeOK, NEW u \in Users, NEW m \in Mints, NEW amount \in Nat,
           Borrow(u, m, amount)
    PROVE  TypeOK'
<1> DEFINE shares == amount_to_debt_shares(amount, globalDebtShares,
                                           AsU64(totalBorrows))
<1>1. shares \in Nat
  BY ConversionTypes, CastBounds DEF TypeOK
<1>2. SaturatingSub(vaultValue[m], amount) \in Nat
  BY ArithmeticTypes DEF TypeOK
<1> HIDE DEF shares
<1>3. /\ debt' = [debt EXCEPT ![<<u, m>>] = @ + shares]
      /\ globalDebtShares' = globalDebtShares + shares
      /\ totalBorrows' = totalBorrows + amount
      /\ vaultValue' = [vaultValue EXCEPT ![m] = SaturatingSub(@, amount)]
  BY DEF Borrow, AddDebt, Debit, shares
<1>4. UNCHANGED <<paused, vaultShares, accounts, totalDeposits, fees, history>>
  BY DEF Borrow
<1> QED
  BY <1>1, <1>2, <1>3, <1>4 DEF TypeOK, Positions, accounts, history

LEMMA RepayTypes ==
    ASSUME TypeOK, NEW u \in Users, NEW m \in Mints, NEW amount \in Nat,
           Repay(u, m, amount)
    PROVE  TypeOK'
<1> DEFINE shares == (amount * debt[<<u, m>>]) \div DebtAmount(u, m)
<1>1. DebtAmount(u, m) \in Nat \ {0} /\ debt[<<u, m>>] \in Nat
  BY AmountTypes DEF Repay
<1>2. shares \in Nat
  BY <1>1, QuotientBound
<1>3. /\ SaturatingSub(debt[<<u, m>>], shares) \in Nat
      /\ SaturatingSub(globalDebtShares, shares) \in Nat
      /\ SaturatingSub(totalBorrows, amount) \in Nat
      /\ SaturatingAddU64(vaultValue[m], amount) \in Nat
  BY <1>1, <1>2, ArithmeticTypes DEF TypeOK
<1> HIDE DEF shares
<1>4. /\ debt' = [debt EXCEPT ![<<u, m>>] = SaturatingSub(@, shares)]
      /\ globalDebtShares' = SaturatingSub(globalDebtShares, shares)
      /\ totalBorrows' = SaturatingSub(totalBorrows, amount)
      /\ vaultValue' = [vaultValue EXCEPT ![m] = SaturatingAddU64(@, amount)]
  BY DEF Repay, ClearDebt, Credit, shares
<1>5. UNCHANGED <<paused, vaultShares, accounts, totalDeposits, fees, history>>
  BY DEF Repay
<1> QED
  BY <1>1, <1>2, <1>3, <1>4, <1>5 DEF TypeOK, Positions, accounts, history

LEMMA LiquidateTypes ==
    ASSUME TypeOK, NEW u \in Users, NEW c \in Mints, NEW b \in Mints,
           NEW maxRepay \in Nat, Liquidate(u, c, b, maxRepay)
    PROVE  TypeOK'
<1> DEFINE repay  == Repaid(u, b, maxRepay)
           shares == (repay * globalDebtShares) \div totalBorrows
           seize  == Least(calculate_liquidation_amount(repay, 500),
                           AsU64(collateral[<<u, c>>]))
           burn   == IF c = b THEN 0 ELSE seize
           fee    == LiquidationFee(repay)
<1>1. /\ DebtAmount(u, b) \in Nat /\ collateral[<<u, c>>] \in Nat
      /\ debt[<<u, b>>] \in Nat /\ totalBorrows > 0
  BY AmountTypes DEF Liquidate
<1>2. repay \in Nat
  BY <1>1, ArithmeticTypes DEF Repaid
<1>3. shares \in Nat
  BY <1>1, <1>2, QuotientBound DEF TypeOK
<1>4. seize \in Nat /\ seize <= collateral[<<u, c>>]
  <2>1. /\ AsU64(collateral[<<u, c>>]) \in Nat
        /\ AsU64(collateral[<<u, c>>]) <= collateral[<<u, c>>]
    BY <1>1, CastBounds
  <2>2. calculate_liquidation_amount(repay, 500) \in Nat
    BY <1>2, RewardType
  <2>3. /\ seize \in Nat
        /\ seize <= AsU64(collateral[<<u, c>>])
    BY <2>1, <2>2, ArithmeticTypes
  <2> QED
    BY <1>1, <2>1, <2>3
<1>5. burn \in Nat /\ seize - burn \in Nat
  BY <1>4
<1>6. fee \in Nat
  <2>1. (repay * 500) \div 10000 \in Nat
    BY <1>2
  <2> QED
    BY <2>1, CastBounds DEF LiquidationFee
<1>7. /\ liquidationPaid' = [liquidationPaid EXCEPT ![b] = @ + repay]
      /\ collateral' = [collateral EXCEPT ![<<u, c>>] = @ - seize]
      /\ vaultShares' = [vaultShares EXCEPT ![c] = SaturatingSub(@, burn)]
      /\ seizedFrom' = [seizedFrom EXCEPT ![u] = @ + seize]
      /\ stranded' = [stranded EXCEPT ![c] = @ + (seize - burn)]
      /\ debt' = [debt EXCEPT ![<<u, b>>] = SaturatingSub(@, shares)]
      /\ globalDebtShares' = SaturatingSub(globalDebtShares, shares)
      /\ totalBorrows' = SaturatingSub(totalBorrows, repay)
      /\ fees' = SaturatingAddU64(fees, fee)
  BY DEF Liquidate, SeizeShares, ClearDebt
<1>8. UNCHANGED <<paused, vaultValue, totalDeposits, opened, userShares>>
  BY DEF Liquidate, SeizeShares
<1> HIDE DEF repay, shares, seize, burn, fee
<1>9. /\ SaturatingSub(debt[<<u, b>>], shares) \in Nat
      /\ SaturatingSub(globalDebtShares, shares) \in Nat
      /\ SaturatingSub(totalBorrows, repay) \in Nat
      /\ SaturatingSub(vaultShares[c], burn) \in Nat
      /\ SaturatingAddU64(fees, fee) \in Nat
  BY <1>1, <1>2, <1>3, <1>5, <1>6, ArithmeticTypes DEF TypeOK
<1> QED
  BY <1>1, <1>2, <1>3, <1>4, <1>5, <1>6, <1>7, <1>8, <1>9
  DEF TypeOK, Positions

LEMMA NextTypes == TypeOK /\ [Next]_vars => TypeOK'
<1> SUFFICES ASSUME TypeOK, [Next]_vars PROVE TypeOK'
  OBVIOUS
<1> USE AmountsAssumption
<1>1. ASSUME NEW u \in Users, NEW m \in Mints, NEW amount \in Amounts,
             Deposit(u, m, amount)
      PROVE  TypeOK'
  BY <1>1, DepositTypes
<1>2. ASSUME NEW u \in Users, NEW m \in Mints, NEW shares \in ShareAmounts,
             Withdraw(u, m, shares)
      PROVE  TypeOK'
  BY <1>2, WithdrawTypes
<1>3. ASSUME NEW u \in Users, NEW m \in Mints, NEW amount \in Amounts,
             Borrow(u, m, amount)
      PROVE  TypeOK'
  BY <1>3, BorrowTypes
<1>4. ASSUME NEW u \in Users, NEW m \in Mints, NEW amount \in Amounts,
             Repay(u, m, amount)
      PROVE  TypeOK'
  BY <1>4, RepayTypes
<1>5. ASSUME NEW u \in Users, NEW c \in Mints, NEW b \in Mints,
             NEW maxRepay \in Amounts, Liquidate(u, c, b, maxRepay)
      PROVE  TypeOK'
  BY <1>5, LiquidateTypes
<1>6. ASSUME NEW value \in BOOLEAN, SetPaused(value)
      PROVE  TypeOK'
  BY <1>6 DEF SetPaused, TypeOK, accounts, debtPool, history
<1>7. CASE CollectFees
  BY <1>7 DEF CollectFees, TypeOK, accounts, debtPool, history
<1>8. CASE UNCHANGED vars
  BY <1>8 DEF vars, TypeOK, accounts, debtPool, history
<1> QED
  BY <1>1, <1>2, <1>3, <1>4, <1>5, <1>6, <1>7, <1>8 DEF Next

LEMMA InitTypes == Init => TypeOK
<1> SUFFICES ASSUME Init PROVE TypeOK
  OBVIOUS
<1>1. paused \in BOOLEAN
  BY DEF Init
<1> QED
  BY <1>1 DEF Init, TypeOK

\* Every number of the books stays a natural number: no handler subtracts what
\* is not there from an account or from a total.
THEOREM TypeCorrect == Spec => []TypeOK
BY InitTypes, NextTypes, PTL DEF Spec

-----------------------------------------------------------------------------
(* The debt pool. *)

LEMMA OwedType ==
    ASSUME TypeOK
    PROVE  Owed \in [Positions -> Nat]
<1>1. ASSUME NEW p \in Positions
      PROVE  debt[p] \div SHARE_MULTIPLIER \in Nat
  BY MultiplierAssumption, QuotientBound DEF TypeOK
<1> QED
  BY <1>1 DEF Owed

\* What the handlers compute is exact: a position's debt amount is its token
\* debt, below 2^64, and a token is SHARE_MULTIPLIER shares.
LEMMA DebtFacts ==
    ASSUME MaxDeposits < U64, BooksAgree, NEW u \in Users, NEW m \in Mints
    PROVE  /\ Owed[<<u, m>>] \in Nat
           /\ debt[<<u, m>>] = SHARE_MULTIPLIER * Owed[<<u, m>>]
           /\ Owed[<<u, m>>] <= totalBorrows
           /\ totalBorrows <= totalDeposits
           /\ AsU64(totalBorrows) = totalBorrows
           /\ DebtAmount(u, m) = Owed[<<u, m>>]
<1> DEFINE owed == Owed[<<u, m>>]
<1>1. TypeOK /\ DebtIndex /\ totalDeposits <= MaxDeposits
  BY DEF BooksAgree
<1>2. <<u, m>> \in Positions
  BY DEF Positions
<1>3. owed \in Nat /\ debt[<<u, m>>] = SHARE_MULTIPLIER * owed
  BY <1>1, <1>2, OwedType DEF DebtIndex
<1>4. owed <= totalBorrows
  BY <1>1, <1>2, OwedType, PartOfTotal DEF DebtIndex, TypeOK
<1>5. totalBorrows <= totalDeposits
  <2>1. PICK total \in 0..totalDeposits :
               total + totalBorrows <= totalDeposits
    BY DEF BooksAgree, ValueWasDeposited
  <2> QED
    BY <1>1, <2>1 DEF TypeOK
<1>6. AsU64(totalBorrows) = totalBorrows /\ AsU64(owed) = owed
  BY <1>1, <1>3, <1>4, <1>5, CastBounds, BoundsAssumption, U64Assumption
  DEF TypeOK
<1> HIDE DEF owed
<1>7. DebtAmount(u, m) = owed
  <2>1. CASE totalBorrows = 0
    <3>1. globalDebtShares = 0
      BY <1>1, <2>1, MultiplierAssumption DEF DebtIndex
    <3>2. owed = 0
      BY <1>3, <1>4, <2>1
    <3> QED
      BY <3>1, <3>2 DEF DebtAmount, debt_shares_to_amount
  <2>2. CASE totalBorrows # 0
    <3>1. globalDebtShares = SHARE_MULTIPLIER * totalBorrows
      BY <1>1 DEF DebtIndex
    <3>2. globalDebtShares \in Nat \ {0}
      BY <1>1, <2>2, <3>1, MultiplierAssumption DEF TypeOK
    <3>3. (SHARE_MULTIPLIER * owed) * totalBorrows = owed * globalDebtShares
      BY <1>1, <1>3, <3>1, MultiplierAssumption DEF TypeOK
    <3>4. (owed * globalDebtShares) \div globalDebtShares = owed
      BY <1>3, <3>2, DivideProduct
    <3> QED
      BY <1>3, <1>6, <3>2, <3>3, <3>4 DEF DebtAmount, debt_shares_to_amount
  <2> QED
    BY <2>1, <2>2
<1> QED
  BY <1>3, <1>4, <1>5, <1>6, <1>7 DEF owed

\* A loan of any amount adds SHARE_MULTIPLIER shares per token.
LEMMA LoanShares ==
    ASSUME MaxDeposits < U64, BooksAgree, NEW u \in Users, NEW m \in Mints,
           NEW amount \in Nat
    PROVE  amount_to_debt_shares(amount, globalDebtShares, AsU64(totalBorrows))
             = SHARE_MULTIPLIER * amount
<1>1. TypeOK /\ globalDebtShares = SHARE_MULTIPLIER * totalBorrows
  BY DEF BooksAgree, DebtIndex
<1>2. AsU64(totalBorrows) = totalBorrows
  BY DebtFacts
<1>3. CASE totalBorrows = 0
  BY <1>2, <1>3, MultiplierAssumption DEF amount_to_debt_shares
<1>4. CASE totalBorrows # 0
  <2>1. totalBorrows \in Nat \ {0} /\ globalDebtShares # 0
    BY <1>1, <1>4, MultiplierAssumption DEF TypeOK
  <2>2. amount * globalDebtShares = (SHARE_MULTIPLIER * amount) * totalBorrows
    BY <1>1, <2>1, MultiplierAssumption
  <2>3. SHARE_MULTIPLIER * amount \in Nat
    BY MultiplierAssumption
  <2>4. ((SHARE_MULTIPLIER * amount) * totalBorrows) \div totalBorrows
          = SHARE_MULTIPLIER * amount
    BY <2>1, <2>3, DivideProduct
  <2> QED
    BY <1>2, <2>1, <2>2, <2>4 DEF amount_to_debt_shares
<1> QED
  BY <1>3, <1>4

LEMMA PoolGrows ==
    ASSUME TypeOK, DebtIndex, NEW u \in Users, NEW m \in Mints,
           NEW amount \in Nat,
           AddDebt(u, m, SHARE_MULTIPLIER * amount, amount)
    PROVE  DebtIndex'
<1> DEFINE x == <<u, m>>
<1>1. x \in Positions
  BY DEF Positions
<1>2. Owed \in [Positions -> Nat]
  BY OwedType
<1>3. ASSUME NEW p \in Positions
      PROVE  /\ debt'[p] = SHARE_MULTIPLIER * Owed'[p]
             /\ Owed'[p] = IF p = x THEN Owed[p] + amount ELSE Owed[p]
  <2> DEFINE o == IF p = x THEN Owed[p] + amount ELSE Owed[p]
  <2>1. o \in Nat
    BY <1>2
  <2>2. debt'[p] = SHARE_MULTIPLIER * o
    <3>1. debt[p] = SHARE_MULTIPLIER * Owed[p] /\ Owed[p] \in Nat
      BY <1>2 DEF DebtIndex
    <3>2. debt'[p] = IF p = x THEN debt[p] + SHARE_MULTIPLIER * amount
                     ELSE debt[p]
      BY DEF AddDebt, TypeOK
    <3> QED
      BY <3>1, <3>2, MultiplierAssumption
  <2> HIDE DEF o
  <2>3. (o * SHARE_MULTIPLIER) \div SHARE_MULTIPLIER = o
    BY <2>1, DivideProduct, MultiplierAssumption
  <2>4. Owed'[p] = o
    BY <2>1, <2>2, <2>3, MultiplierAssumption DEF Owed
  <2> QED
    BY <2>2, <2>4 DEF o
<1>4. Owed' \in [Positions -> Nat]
  <2>1. Owed' = [p \in Positions |-> Owed'[p]]
    BY DEF Owed
  <2>2. \A p \in Positions : Owed'[p] \in Nat
    BY <1>2, <1>3
  <2> QED
    BY <2>1, <2>2
<1>5. IsTotal(Owed, totalBorrows) /\ totalBorrows \in Nat
  BY DEF DebtIndex, TypeOK
<1>6. IsTotal(Owed', totalBorrows + amount)
  <2>1. Owed'[x] = Owed[x] + amount
    BY <1>1, <1>3
  <2>2. \A y \in Positions : y # x => Owed'[y] = Owed[y]
    BY <1>3
  <2> HIDE DEF x
  <2> QED
    BY <1>1, <1>2, <1>4, <1>5, <2>1, <2>2, TotalGrows
<1>7. /\ totalBorrows' = totalBorrows + amount
      /\ globalDebtShares' = SHARE_MULTIPLIER * totalBorrows'
  BY MultiplierAssumption DEF AddDebt, DebtIndex, TypeOK
<1> QED
  BY <1>3, <1>6, <1>7 DEF DebtIndex

LEMMA PoolShrinks ==
    ASSUME TypeOK, DebtIndex, NEW u \in Users, NEW m \in Mints,
           NEW amount \in Nat, amount <= Owed[<<u, m>>],
           ClearDebt(u, m, SHARE_MULTIPLIER * amount, amount)
    PROVE  DebtIndex' /\ amount <= totalBorrows
                      /\ totalBorrows' = totalBorrows - amount
<1> DEFINE x == <<u, m>>
<1>1. x \in Positions
  BY DEF Positions
<1>2. Owed \in [Positions -> Nat]
  BY OwedType
<1>3. ASSUME NEW p \in Positions
      PROVE  /\ debt'[p] = SHARE_MULTIPLIER * Owed'[p]
             /\ Owed'[p] = IF p = x THEN Owed[p] - amount ELSE Owed[p]
             /\ Owed'[p] \in Nat
  <2> DEFINE o == IF p = x THEN Owed[p] - amount ELSE Owed[p]
  <2>1. o \in Nat
    BY <1>2
  <2>2. debt'[p] = SHARE_MULTIPLIER * o
    <3>1. debt[p] = SHARE_MULTIPLIER * Owed[p] /\ Owed[p] \in Nat
      BY <1>2 DEF DebtIndex
    <3>2. debt'[p] = IF p = x
                     THEN SaturatingSub(debt[p], SHARE_MULTIPLIER * amount)
                     ELSE debt[p]
      BY DEF ClearDebt, TypeOK
    <3>3. p = x => SHARE_MULTIPLIER * amount <= SHARE_MULTIPLIER * Owed[p]
      BY <3>1, MultiplierAssumption
    <3>4. p = x => SHARE_MULTIPLIER * Owed[p] - SHARE_MULTIPLIER * amount
                     = SHARE_MULTIPLIER * (Owed[p] - amount)
      BY <3>1, MultiplierAssumption
    <3> QED
      BY <3>1, <3>2, <3>3, <3>4 DEF SaturatingSub
  <2> HIDE DEF o
  <2>3. (o * SHARE_MULTIPLIER) \div SHARE_MULTIPLIER = o
    BY <2>1, DivideProduct, MultiplierAssumption
  <2>4. Owed'[p] = o
    BY <2>1, <2>2, <2>3, MultiplierAssumption DEF Owed
  <2> QED
    BY <2>1, <2>2, <2>4 DEF o
<1>4. Owed' \in [Positions -> Nat]
  <2>1. Owed' = [p \in Positions |-> Owed'[p]]
    BY DEF Owed
  <2>2. \A p \in Positions : Owed'[p] \in Nat
    BY <1>3
  <2> QED
    BY <2>1, <2>2
<1>5. IsTotal(Owed, totalBorrows) /\ totalBorrows \in Nat
  BY DEF DebtIndex, TypeOK
<1>6. amount <= totalBorrows /\ IsTotal(Owed', totalBorrows - amount)
  <2>1. Owed'[x] = Owed[x] - amount
    BY <1>1, <1>3
  <2>2. \A y \in Positions : y # x => Owed'[y] = Owed[y]
    BY <1>3
  <2>3. amount <= Owed[x]
    OBVIOUS
  <2> HIDE DEF x
  <2> QED
    BY <1>1, <1>2, <1>4, <1>5, <2>1, <2>2, <2>3, TotalShrinks
<1>7. totalBorrows' = totalBorrows - amount
  BY <1>5, <1>6 DEF ClearDebt, SaturatingSub
<1>8. globalDebtShares' = SHARE_MULTIPLIER * totalBorrows'
  <2>1. globalDebtShares = SHARE_MULTIPLIER * totalBorrows
    BY DEF DebtIndex
  <2>2. SHARE_MULTIPLIER * amount <= SHARE_MULTIPLIER * totalBorrows
    BY <1>5, <1>6, MultiplierAssumption
  <2>3. SHARE_MULTIPLIER * totalBorrows - SHARE_MULTIPLIER * amount
          = SHARE_MULTIPLIER * (totalBorrows - amount)
    BY <1>5, MultiplierAssumption
  <2> QED
    BY <1>5, <1>7, <2>1, <2>2, <2>3, MultiplierAssumption
    DEF ClearDebt, SaturatingSub
<1> QED
  BY <1>3, <1>6, <1>7, <1>8 DEF DebtIndex

-----------------------------------------------------------------------------
(* Totals over the users of a vault and over the vaults of a user.          *)

\* Adding d to one collateral account adds d to its vault and to its user.
LEMMA SharesGrow ==
    ASSUME NEW c \in [Positions -> Nat], NEW u \in Users, NEW m \in Mints,
           NEW d \in Nat, NEW g \in [Positions -> Nat],
           g[<<u, m>>] = c[<<u, m>>] + d,
           \A p \in Positions : p # <<u, m>> => g[p] = c[p]
    PROVE  /\ \A n \in Mints, t \in Nat :
                 IsTotal(InVault(c, n), t)
                   => IsTotal(InVault(g, n),
                              IF n = m THEN t + d ELSE t)
           /\ \A v \in Users, t \in Nat :
                 IsTotal(OfUser(c, v), t)
                   => IsTotal(OfUser(g, v),
                              IF v = u THEN t + d ELSE t)
<1>1. ASSUME NEW v \in Users, NEW n \in Mints
      PROVE  /\ c[<<v, n>>] \in Nat /\ g[<<v, n>>] \in Nat
             /\ g[<<v, n>>] = IF v = u /\ n = m THEN c[<<v, n>>] + d
                              ELSE c[<<v, n>>]
  BY DEF Positions
<1>2. ASSUME NEW n \in Mints, NEW t \in Nat,
             IsTotal(InVault(c, n), t)
      PROVE  IsTotal(InVault(g, n),
                     IF n = m THEN t + d ELSE t)
  <2> DEFINE before == InVault(c, n)
             after  == InVault(g, n)
  <2>1. before \in [Users -> Nat] /\ after \in [Users -> Nat]
    BY <1>1 DEF InVault
  <2>2. CASE n = m
    <3>1. /\ after[u] = before[u] + d
          /\ \A v \in Users : v # u => after[v] = before[v]
      BY <1>1, <2>2 DEF InVault
    <3>2. IsTotal(before, t)
      BY <1>2
    <3> HIDE DEF before, after
    <3>3. IsTotal(after, t + d)
      BY <2>1, <3>1, <3>2, TotalGrows
    <3> QED
      BY <2>2, <3>3 DEF after
  <2>3. CASE n # m
    <3>1. after = before
      BY <1>1, <2>3 DEF InVault
    <3> QED
      BY <1>2, <2>3, <3>1
  <2> QED
    BY <2>2, <2>3
<1>3. ASSUME NEW v \in Users, NEW t \in Nat,
             IsTotal(OfUser(c, v), t)
      PROVE  IsTotal(OfUser(g, v),
                     IF v = u THEN t + d ELSE t)
  <2> DEFINE before == OfUser(c, v)
             after  == OfUser(g, v)
  <2>1. before \in [Mints -> Nat] /\ after \in [Mints -> Nat]
    BY <1>1 DEF OfUser
  <2>2. CASE v = u
    <3>1. /\ after[m] = before[m] + d
          /\ \A n \in Mints : n # m => after[n] = before[n]
      BY <1>1, <2>2 DEF OfUser
    <3>2. IsTotal(before, t)
      BY <1>3
    <3> HIDE DEF before, after
    <3>3. IsTotal(after, t + d)
      BY <2>1, <3>1, <3>2, TotalGrows
    <3> QED
      BY <2>2, <3>3 DEF after
  <2>3. CASE v # u
    <3>1. after = before
      BY <1>1, <2>3 DEF OfUser
    <3> QED
      BY <1>3, <2>3, <3>1
  <2> QED
    BY <2>2, <2>3
<1> QED
  BY <1>2, <1>3

\* Taking d from one collateral account takes d from its vault and its user.
LEMMA SharesShrink ==
    ASSUME NEW c \in [Positions -> Nat], NEW u \in Users, NEW m \in Mints,
           NEW d \in Nat, d <= c[<<u, m>>],
           NEW g \in [Positions -> Nat], g[<<u, m>>] = c[<<u, m>>] - d,
           \A p \in Positions : p # <<u, m>> => g[p] = c[p]
    PROVE  /\ \A n \in Mints, t \in Nat :
                 IsTotal(InVault(c, n), t)
                   => /\ n = m => d <= t
                      /\ IsTotal(InVault(g, n),
                                 IF n = m THEN t - d ELSE t)
           /\ \A v \in Users, t \in Nat :
                 IsTotal(OfUser(c, v), t)
                   => /\ v = u => d <= t
                      /\ IsTotal(OfUser(g, v),
                                 IF v = u THEN t - d ELSE t)
<1>1. ASSUME NEW v \in Users, NEW n \in Mints
      PROVE  /\ c[<<v, n>>] \in Nat /\ g[<<v, n>>] \in Nat
             /\ g[<<v, n>>] = IF v = u /\ n = m THEN c[<<v, n>>] - d
                              ELSE c[<<v, n>>]
  BY DEF Positions
<1>2. ASSUME NEW n \in Mints, NEW t \in Nat,
             IsTotal(InVault(c, n), t)
      PROVE  /\ n = m => d <= t
             /\ IsTotal(InVault(g, n),
                        IF n = m THEN t - d ELSE t)
  <2> DEFINE before == InVault(c, n)
             after  == InVault(g, n)
  <2>1. before \in [Users -> Nat] /\ after \in [Users -> Nat]
    BY <1>1 DEF InVault
  <2>2. CASE n = m
    <3>1. /\ after[u] = before[u] - d
          /\ d <= before[u]
          /\ \A v \in Users : v # u => after[v] = before[v]
      BY <1>1, <2>2 DEF InVault
    <3>2. IsTotal(before, t)
      BY <1>2
    <3> HIDE DEF before, after
    <3>3. d <= t /\ IsTotal(after, t - d)
      BY <2>1, <3>1, <3>2, TotalShrinks
    <3> QED
      BY <2>2, <3>3 DEF after
  <2>3. CASE n # m
    <3>1. after = before
      BY <1>1, <2>3 DEF InVault
    <3> QED
      BY <1>2, <2>3, <3>1
  <2> QED
    BY <2>2, <2>3
<1>3. ASSUME NEW v \in Users, NEW t \in Nat,
             IsTotal(OfUser(c, v), t)
      PROVE  /\ v = u => d <= t
             /\ IsTotal(OfUser(g, v),
                        IF v = u THEN t - d ELSE t)
  <2> DEFINE before == OfUser(c, v)
             after  == OfUser(g, v)
  <2>1. before \in [Mints -> Nat] /\ after \in [Mints -> Nat]
    BY <1>1 DEF OfUser
  <2>2. CASE v = u
    <3>1. /\ after[m] = before[m] - d
          /\ d <= before[m]
          /\ \A n \in Mints : n # m => after[n] = before[n]
      BY <1>1, <2>2 DEF OfUser
    <3>2. IsTotal(before, t)
      BY <1>3
    <3> HIDE DEF before, after
    <3>3. d <= t /\ IsTotal(after, t - d)
      BY <2>1, <3>1, <3>2, TotalShrinks
    <3> QED
      BY <2>2, <3>3 DEF after
  <2>3. CASE v # u
    <3>1. after = before
      BY <1>1, <2>3 DEF OfUser
    <3> QED
      BY <1>3, <2>3, <3>1
  <2> QED
    BY <2>2, <2>3
<1> QED
  BY <1>2, <1>3

-----------------------------------------------------------------------------
(* The share accounts. *)

SharesAgree == SharesAccounted /\ AggregateAccounted

\* A deposit adds its shares to the account, the vault and the user alike.
LEMMA MintKeepsTotals ==
    ASSUME TypeOK, SharesAgree, NEW u \in Users, NEW m \in Mints,
           NEW shares \in Nat, MintShares(u, m, shares),
           UNCHANGED <<stranded, seizedFrom>>
    PROVE  SharesAgree'
<1>1. collateral \in [Positions -> Nat]
  BY DEF TypeOK
<1>2. /\ vaultShares' = [vaultShares EXCEPT ![m] = @ + shares]
      /\ userShares' = [userShares EXCEPT ![u] = @ + shares]
  BY DEF MintShares
<1>5. /\ collateral' \in [Positions -> Nat]
      /\ collateral'[<<u, m>>] = collateral[<<u, m>>] + shares
      /\ \A p \in Positions : p # <<u, m>> => collateral'[p] = collateral[p]
  BY <1>1 DEF MintShares, Positions
<1>3. SharesAccounted'
  <2> SUFFICES ASSUME NEW n \in Mints
               PROVE  /\ stranded[n] <= vaultShares'[n]
                      /\ IsTotal(InVault(collateral', n),
                                 vaultShares'[n] - stranded[n])
    BY DEF SharesAccounted
  <2> DEFINE t == vaultShares[n] - stranded[n]
  <2>1. /\ stranded[n] <= vaultShares[n]
        /\ IsTotal(InVault(collateral, n), t)
    BY DEF SharesAgree, SharesAccounted
  <2>2. t \in Nat /\ vaultShares[n] \in Nat /\ stranded[n] \in Nat
    BY <2>1 DEF TypeOK
  <2>3. vaultShares'[n] - stranded[n] = IF n = m THEN t + shares ELSE t
    BY <1>2, <2>2 DEF TypeOK
  <2>4. stranded[n] <= vaultShares'[n]
    BY <1>2, <2>1, <2>2 DEF TypeOK
  <2> HIDE DEF t
  <2>5. IsTotal(InVault(collateral', n),
                IF n = m THEN t + shares ELSE t)
    BY <1>1, <1>5, <2>1, <2>2, SharesGrow
  <2> QED
    BY <2>3, <2>4, <2>5
<1>4. AggregateAccounted'
  <2> SUFFICES ASSUME NEW v \in Users
               PROVE  /\ seizedFrom[v] <= userShares'[v]
                      /\ IsTotal(OfUser(collateral', v),
                                 userShares'[v] - seizedFrom[v])
    BY DEF AggregateAccounted
  <2> DEFINE t == userShares[v] - seizedFrom[v]
  <2>1. /\ seizedFrom[v] <= userShares[v]
        /\ IsTotal(OfUser(collateral, v), t)
    BY DEF SharesAgree, AggregateAccounted
  <2>2. t \in Nat /\ userShares[v] \in Nat /\ seizedFrom[v] \in Nat
    BY <2>1 DEF TypeOK
  <2>3. userShares'[v] - seizedFrom[v] = IF v = u THEN t + shares ELSE t
    BY <1>2, <2>2 DEF TypeOK
  <2>4. seizedFrom[v] <= userShares'[v]
    BY <1>2, <2>1, <2>2 DEF TypeOK
  <2> HIDE DEF t
  <2>5. IsTotal(OfUser(collateral', v),
                IF v = u THEN t + shares ELSE t)
    BY <1>1, <1>5, <2>1, <2>2, SharesGrow
  <2> QED
    BY <2>3, <2>4, <2>5
<1> QED
  BY <1>3, <1>4 DEF SharesAgree

\* An account never holds more than its vault or its user, so no subtraction
\* of the handlers saturates.
LEMMA AccountBounds ==
    ASSUME TypeOK, SharesAgree, NEW u \in Users, NEW m \in Mints
    PROVE  /\ collateral[<<u, m>>] \in Nat
           /\ stranded[m] + collateral[<<u, m>>] <= vaultShares[m]
           /\ seizedFrom[u] + collateral[<<u, m>>] <= userShares[u]
<1> DEFINE column == InVault(collateral, m)
           row    == OfUser(collateral, u)
           t      == vaultShares[m] - stranded[m]
           s      == userShares[u] - seizedFrom[u]
<1>1. column \in [Users -> Nat] /\ row \in [Mints -> Nat]
  BY DEF TypeOK, Positions, InVault, OfUser
<1>2. /\ stranded[m] <= vaultShares[m] /\ IsTotal(column, t)
      /\ seizedFrom[u] <= userShares[u] /\ IsTotal(row, s)
  BY DEF SharesAgree, SharesAccounted, AggregateAccounted
<1>3. /\ vaultShares[m] \in Nat /\ stranded[m] \in Nat
      /\ userShares[u] \in Nat /\ seizedFrom[u] \in Nat
  BY DEF TypeOK
<1>4. t \in Nat /\ s \in Nat
  BY <1>2, <1>3
<1>5. column[u] = collateral[<<u, m>>] /\ row[m] = collateral[<<u, m>>]
  BY DEF InVault, OfUser
<1>6. column[u] \in Nat
  BY <1>1
<1> HIDE DEF column, row, t, s
<1>7. column[u] <= t /\ row[m] <= s
  BY <1>1, <1>2, <1>4, PartOfTotal
<1> QED
  BY <1>3, <1>4, <1>5, <1>6, <1>7 DEF t, s

\* Shares leave an account: of the shares lost, the vault burns some and the
\* user's aggregate forgets some.
LoseShares(u, m, lost, burn, forgotten) ==
    /\ collateral' = [collateral EXCEPT ![<<u, m>>] = @ - lost]
    /\ vaultShares' = [vaultShares EXCEPT ![m] = SaturatingSub(@, burn)]
    /\ stranded' = [stranded EXCEPT ![m] = @ + (lost - burn)]
    /\ userShares' = [userShares EXCEPT ![u] = SaturatingSub(@, forgotten)]
    /\ seizedFrom' = [seizedFrom EXCEPT ![u] = @ + (lost - forgotten)]

LEMMA LossKeepsTotals ==
    ASSUME TypeOK, SharesAgree, NEW u \in Users, NEW m \in Mints,
           NEW lost \in Nat, NEW burn \in Nat, NEW forgotten \in Nat,
           lost <= collateral[<<u, m>>], burn <= lost, forgotten <= lost,
           LoseShares(u, m, lost, burn, forgotten)
    PROVE  SharesAgree'
<1>1. collateral \in [Positions -> Nat]
  BY DEF TypeOK
<1>2. /\ collateral[<<u, m>>] \in Nat
      /\ stranded[m] + collateral[<<u, m>>] <= vaultShares[m]
      /\ seizedFrom[u] + collateral[<<u, m>>] <= userShares[u]
  BY AccountBounds
<1>5. /\ collateral' \in [Positions -> Nat]
      /\ collateral'[<<u, m>>] = collateral[<<u, m>>] - lost
      /\ \A p \in Positions : p # <<u, m>> => collateral'[p] = collateral[p]
  BY <1>1, <1>2 DEF LoseShares, Positions
<1>3. SharesAccounted'
  <2> SUFFICES ASSUME NEW n \in Mints
               PROVE  /\ stranded'[n] <= vaultShares'[n]
                      /\ IsTotal(InVault(collateral', n),
                                 vaultShares'[n] - stranded'[n])
    BY DEF SharesAccounted
  <2> DEFINE t == vaultShares[n] - stranded[n]
  <2>1. /\ stranded[n] <= vaultShares[n]
        /\ IsTotal(InVault(collateral, n), t)
    BY DEF SharesAgree, SharesAccounted
  <2>2. t \in Nat /\ vaultShares[n] \in Nat /\ stranded[n] \in Nat
    BY <2>1 DEF TypeOK
  <2>3. /\ n = m => /\ vaultShares'[n] = vaultShares[n] - burn
                    /\ stranded'[n] = stranded[n] + (lost - burn)
        /\ n # m => /\ vaultShares'[n] = vaultShares[n]
                    /\ stranded'[n] = stranded[n]
    BY <1>2, <2>2 DEF TypeOK, SaturatingSub, LoseShares
  <2>4. vaultShares'[n] - stranded'[n] = IF n = m THEN t - lost ELSE t
    BY <2>2, <2>3
  <2>5. stranded'[n] <= vaultShares'[n]
    BY <1>2, <2>1, <2>2, <2>3
  <2> HIDE DEF t
  <2>6. IsTotal(InVault(collateral', n),
                IF n = m THEN t - lost ELSE t)
    BY <1>1, <1>5, <2>1, <2>2, SharesShrink
  <2> QED
    BY <2>4, <2>5, <2>6
<1>4. AggregateAccounted'
  <2> SUFFICES ASSUME NEW v \in Users
               PROVE  /\ seizedFrom'[v] <= userShares'[v]
                      /\ IsTotal(OfUser(collateral', v),
                                 userShares'[v] - seizedFrom'[v])
    BY DEF AggregateAccounted
  <2> DEFINE t == userShares[v] - seizedFrom[v]
  <2>1. /\ seizedFrom[v] <= userShares[v]
        /\ IsTotal(OfUser(collateral, v), t)
    BY DEF SharesAgree, AggregateAccounted
  <2>2. t \in Nat /\ userShares[v] \in Nat /\ seizedFrom[v] \in Nat
    BY <2>1 DEF TypeOK
  <2>3. /\ v = u => /\ userShares'[v] = userShares[v] - forgotten
                    /\ seizedFrom'[v] = seizedFrom[v] + (lost - forgotten)
        /\ v # u => /\ userShares'[v] = userShares[v]
                    /\ seizedFrom'[v] = seizedFrom[v]
    BY <1>2, <2>2 DEF TypeOK, SaturatingSub, LoseShares
  <2>4. userShares'[v] - seizedFrom'[v] = IF v = u THEN t - lost ELSE t
    BY <2>2, <2>3
  <2>5. seizedFrom'[v] <= userShares'[v]
    BY <1>2, <2>1, <2>2, <2>3
  <2> HIDE DEF t
  <2>6. IsTotal(OfUser(collateral', v),
                IF v = u THEN t - lost ELSE t)
    BY <1>1, <1>5, <2>1, <2>2, SharesShrink
  <2> QED
    BY <2>4, <2>5, <2>6
<1> QED
  BY <1>3, <1>4 DEF SharesAgree

LEMMA RedeemKeepsTotals ==
    ASSUME TypeOK, SharesAgree, NEW u \in Users, NEW m \in Mints,
           NEW shares \in Nat, RedeemShares(u, m, shares),
           UNCHANGED <<stranded, seizedFrom>>
    PROVE  SharesAgree'
<1>1. shares <= collateral[<<u, m>>]
  BY AccountBounds DEF RedeemShares
<1>2. LoseShares(u, m, shares, shares, shares)
  BY DEF RedeemShares, LoseShares, TypeOK
<1> QED
  BY <1>1, <1>2, LossKeepsTotals

LEMMA SeizureKeepsTotals ==
    ASSUME TypeOK, SharesAgree, NEW u \in Users, NEW c \in Mints,
           NEW b \in Mints, NEW reward \in Nat, SeizeShares(u, c, b, reward)
    PROVE  SharesAgree'
<1> DEFINE seize == Least(reward, AsU64(collateral[<<u, c>>]))
           burn  == IF c = b THEN 0 ELSE seize
<1>1. collateral[<<u, c>>] \in Nat
  BY AccountBounds
<1>2. seize \in Nat /\ seize <= collateral[<<u, c>>]
  <2> DEFINE held == AsU64(collateral[<<u, c>>])
  <2>1. held \in Nat /\ held <= collateral[<<u, c>>]
    BY <1>1, CastBounds
  <2> HIDE DEF held
  <2>2. Least(reward, held) \in Nat /\ Least(reward, held) <= held
    BY <2>1, ArithmeticTypes
  <2> QED
    BY <1>1, <2>1, <2>2 DEF held
<1>3. LoseShares(u, c, seize, burn, 0)
  <2>1. /\ collateral' = [collateral EXCEPT ![<<u, c>>] = @ - seize]
        /\ vaultShares' = [vaultShares EXCEPT ![c] = SaturatingSub(@, burn)]
        /\ seizedFrom' = [seizedFrom EXCEPT ![u] = @ + seize]
        /\ stranded' = [stranded EXCEPT ![c] = @ + (seize - burn)]
        /\ userShares' = userShares
    BY DEF SeizeShares
  <2> HIDE DEF seize, burn
  <2> QED
    BY <1>2, <2>1 DEF LoseShares, TypeOK, SaturatingSub
<1> HIDE DEF seize
<1>4. burn \in Nat /\ burn <= seize
  BY <1>2
<1> HIDE DEF burn
<1> QED
  BY <1>2, <1>3, <1>4, LossKeepsTotals

-----------------------------------------------------------------------------
(* The value of the vaults. *)

\* A credit does not saturate while all deposits fit in 64 bits.
LEMMA CreditExact ==
    ASSUME TypeOK, TypeOK', NEW m \in Mints, NEW amount \in Nat,
           Credit(m, amount), NEW total \in Nat, IsTotal(vaultValue, total),
           total + amount < U64
    PROVE  /\ \A n \in Mints :
                 vaultValue'[n] = IF n = m THEN vaultValue[n] + amount
                                  ELSE vaultValue[n]
           /\ IsTotal(vaultValue', total + amount)
<1>1. /\ vaultValue \in [Mints -> Nat]
      /\ vaultValue' \in [Mints -> Nat]
  BY DEF TypeOK
<1>2. vaultValue[m] + amount < U64
  <2>1. vaultValue[m] \in Nat /\ vaultValue[m] <= total
    BY <1>1, PartOfTotal
  <2> QED
    BY <2>1, U64Assumption
<1>3. \A n \in Mints :
         vaultValue'[n] = IF n = m THEN vaultValue[n] + amount
                          ELSE vaultValue[n]
  BY <1>1, <1>2 DEF Credit, SaturatingAddU64
<1>4. /\ vaultValue'[m] = vaultValue[m] + amount
      /\ \A n \in Mints : n # m => vaultValue'[n] = vaultValue[n]
  BY <1>3
<1> QED
  BY <1>1, <1>3, <1>4, TotalGrows

\* A debit of what the vault has does not saturate.
LEMMA DebitExact ==
    ASSUME TypeOK, TypeOK', NEW m \in Mints, NEW amount \in Nat,
           amount <= vaultValue[m], Debit(m, amount),
           NEW total \in Nat, IsTotal(vaultValue, total)
    PROVE  /\ \A n \in Mints :
                 vaultValue'[n] = IF n = m THEN vaultValue[n] - amount
                                  ELSE vaultValue[n]
           /\ amount <= total
           /\ IsTotal(vaultValue', total - amount)
<1>1. /\ vaultValue \in [Mints -> Nat]
      /\ vaultValue' \in [Mints -> Nat]
  BY DEF TypeOK
<1>2. \A n \in Mints :
         vaultValue'[n] = IF n = m THEN vaultValue[n] - amount
                          ELSE vaultValue[n]
  BY <1>1 DEF Debit, SaturatingSub
<1>3. /\ vaultValue'[m] = vaultValue[m] - amount
      /\ \A n \in Mints : n # m => vaultValue'[n] = vaultValue[n]
  BY <1>2
<1> QED
  BY <1>1, <1>2, <1>3, TotalShrinks

\* The value that all vaults claim is a total, within what was deposited.
LEMMA ClaimedValue ==
    ASSUME BooksAgree
    PROVE  \E total \in Nat : /\ IsTotal(vaultValue, total)
                              /\ total + totalBorrows <= totalDeposits
                              /\ totalDeposits <= MaxDeposits
<1>1. PICK total \in 0..totalDeposits :
             IsTotal(vaultValue, total) /\ total + totalBorrows <= totalDeposits
  BY DEF BooksAgree, ValueWasDeposited
<1> QED
  BY <1>1 DEF BooksAgree, TypeOK

\* A total within what was deposited is one of those that the invariant names.
LEMMA ClaimWithinDeposits ==
    ASSUME NEW value, NEW borrows \in Nat, NEW deposits \in Nat,
           NEW total \in Nat, IsTotal(value, total),
           total + borrows <= deposits
    PROVE  \E n \in 0..deposits :
              IsTotal(value, n) /\ n + borrows <= deposits
<1>1. total \in 0..deposits
  OBVIOUS
<1> QED
  BY <1>1, Zenon

LEMMA UntouchedPool ==
    ASSUME DebtIndex, UNCHANGED debtPool
    PROVE  DebtIndex'
<1>1. UNCHANGED <<debt, globalDebtShares, totalBorrows>>
  BY DEF debtPool
<1>2. Owed' = Owed
  BY <1>1 DEF Owed
<1> QED
  BY <1>1, <1>2 DEF DebtIndex

LEMMA UntouchedShares ==
    ASSUME SharesAgree, UNCHANGED <<vaultShares, accounts, history>>
    PROVE  SharesAgree'
<1>1. UNCHANGED <<vaultShares, collateral, userShares, stranded, seizedFrom>>
  BY DEF accounts, history
<1> QED
  BY <1>1 DEF SharesAgree, SharesAccounted, AggregateAccounted

-----------------------------------------------------------------------------
(* Each handler keeps the books. *)

LEMMA DepositKeepsBooks ==
    ASSUME MaxDeposits < U64, BooksAgree, NEW u \in Users, NEW m \in Mints,
           NEW amount \in Nat, Deposit(u, m, amount)
    PROVE  /\ BooksAgree'
           /\ \A n \in Mints :
                 vaultValue'[n] = IF n = m THEN vaultValue[n] + amount
                                  ELSE vaultValue[n]
<1> DEFINE shares == amount_to_shares(amount, vaultShares[m], vaultValue[m])
<1>1. /\ TypeOK /\ DebtIndex /\ SharesAgree
      /\ TypeOK'
  BY DepositTypes DEF BooksAgree, SharesAgree
<1>2. totalDeposits' = totalDeposits + amount /\ totalDeposits' <= MaxDeposits
  BY DEF Deposit
<1>3. DebtIndex' /\ totalBorrows' = totalBorrows
  BY <1>1, UntouchedPool DEF Deposit, debtPool
<1>4. SharesAgree'
  <2>1. shares \in Nat
    BY <1>1, ConversionTypes DEF TypeOK
  <2>2. MintShares(u, m, shares) /\ UNCHANGED <<stranded, seizedFrom>>
    BY DEF Deposit, history
  <2> HIDE DEF shares
  <2> QED
    BY <1>1, <2>1, <2>2, MintKeepsTotals
<1>5. PICK total \in Nat : /\ IsTotal(vaultValue, total)
                           /\ total + totalBorrows <= totalDeposits
  BY ClaimedValue
<1>6. /\ \A n \in Mints :
            vaultValue'[n] = IF n = m THEN vaultValue[n] + amount
                             ELSE vaultValue[n]
      /\ IsTotal(vaultValue', total + amount)
  <2>1. total + amount < U64
    BY <1>1, <1>2, <1>5, BoundsAssumption, U64Assumption DEF TypeOK
  <2>2. Credit(m, amount)
    BY DEF Deposit
  <2> QED
    BY <1>1, <1>5, <2>1, <2>2, CreditExact
<1>8. ValueWasDeposited'
  <2>1. /\ total + amount \in Nat
        /\ (total + amount) + totalBorrows' <= totalDeposits'
        /\ totalBorrows' \in Nat /\ totalDeposits' \in Nat
    BY <1>1, <1>2, <1>3, <1>5 DEF TypeOK
  <2>2. \E n \in 0..totalDeposits' :
           IsTotal(vaultValue', n) /\ n + totalBorrows' <= totalDeposits'
    BY <1>6, <2>1, ClaimWithinDeposits
  <2> QED
    BY <2>2 DEF ValueWasDeposited
<1> QED
  BY <1>1, <1>2, <1>3, <1>4, <1>6, <1>8 DEF BooksAgree, SharesAgree

LEMMA WithdrawKeepsBooks ==
    ASSUME MaxDeposits < U64, BooksAgree, NEW u \in Users, NEW m \in Mints,
           NEW shares \in Nat, Withdraw(u, m, shares)
    PROVE  /\ BooksAgree'
           /\ Redeemed(m, shares) \in Nat
           /\ \A n \in Mints :
                 vaultValue'[n] =
                   IF n = m THEN vaultValue[n] - Redeemed(m, shares)
                   ELSE vaultValue[n]
<1> DEFINE amount == Redeemed(m, shares)
<1>1. /\ TypeOK /\ DebtIndex /\ SharesAgree
      /\ TypeOK'
  BY WithdrawTypes DEF BooksAgree, SharesAgree
<1>2. totalDeposits' = totalDeposits /\ totalDeposits' <= MaxDeposits
  BY DEF Withdraw, BooksAgree
<1>3. DebtIndex' /\ totalBorrows' = totalBorrows
  BY <1>1, UntouchedPool DEF Withdraw, debtPool
<1>4. SharesAgree'
  <2>1. RedeemShares(u, m, shares) /\ UNCHANGED <<stranded, seizedFrom>>
    BY DEF Withdraw, history
  <2> QED
    BY <1>1, <2>1, RedeemKeepsTotals
<1>5. amount \in Nat /\ amount <= vaultValue[m]
  <2>1. /\ shares <= collateral[<<u, m>>]
        /\ collateral[<<u, m>>] \in Nat
        /\ stranded[m] + collateral[<<u, m>>] <= vaultShares[m]
    BY <1>1, AccountBounds DEF Withdraw, RedeemShares
  <2>2. shares <= vaultShares[m]
    BY <1>1, <2>1 DEF TypeOK
  <2>3. vaultShares[m] \in Nat /\ vaultValue[m] \in Nat
    BY <1>1 DEF TypeOK
  <2> QED
    BY <2>2, <2>3, ConversionTypes, RedemptionBound DEF Redeemed
<1>6. Debit(m, amount)
  BY DEF Withdraw
<1> HIDE DEF amount
<1>7. PICK total \in Nat : /\ IsTotal(vaultValue, total)
                           /\ total + totalBorrows <= totalDeposits
  BY ClaimedValue
<1>8. /\ \A n \in Mints :
            vaultValue'[n] = IF n = m THEN vaultValue[n] - amount
                             ELSE vaultValue[n]
      /\ amount <= total
      /\ IsTotal(vaultValue', total - amount)
  BY <1>1, <1>5, <1>6, <1>7, DebitExact
<1>10. ValueWasDeposited'
  <2>1. /\ total - amount \in Nat
        /\ (total - amount) + totalBorrows' <= totalDeposits'
        /\ totalBorrows' \in Nat /\ totalDeposits' \in Nat
    BY <1>1, <1>2, <1>3, <1>5, <1>7, <1>8 DEF TypeOK
  <2>2. \E n \in 0..totalDeposits' :
           IsTotal(vaultValue', n) /\ n + totalBorrows' <= totalDeposits'
    BY <1>8, <2>1, ClaimWithinDeposits
  <2> QED
    BY <2>2 DEF ValueWasDeposited
<1> QED
  BY <1>1, <1>2, <1>3, <1>4, <1>5, <1>8, <1>10 DEF BooksAgree, SharesAgree, amount

LEMMA BorrowKeepsBooks ==
    ASSUME MaxDeposits < U64, BooksAgree, NEW u \in Users, NEW m \in Mints,
           NEW amount \in Nat, Borrow(u, m, amount)
    PROVE  /\ BooksAgree'
           /\ \A n \in Mints :
                 vaultValue'[n] = IF n = m THEN vaultValue[n] - amount
                                  ELSE vaultValue[n]
<1>1. /\ TypeOK /\ DebtIndex /\ SharesAgree
      /\ TypeOK'
  BY BorrowTypes DEF BooksAgree, SharesAgree
<1>2. totalDeposits' = totalDeposits /\ totalDeposits' <= MaxDeposits
  BY DEF Borrow, BooksAgree
<1>3. AddDebt(u, m, SHARE_MULTIPLIER * amount, amount)
  BY LoanShares DEF Borrow
<1>4. DebtIndex' /\ totalBorrows' = totalBorrows + amount
  BY <1>1, <1>3, PoolGrows DEF AddDebt
<1>5. SharesAgree'
  BY <1>1, UntouchedShares DEF Borrow
<1>6. PICK total \in Nat : /\ IsTotal(vaultValue, total)
                           /\ total + totalBorrows <= totalDeposits
  BY ClaimedValue
<1>7. /\ \A n \in Mints :
            vaultValue'[n] = IF n = m THEN vaultValue[n] - amount
                             ELSE vaultValue[n]
      /\ amount <= total
      /\ IsTotal(vaultValue', total - amount)
  <2>1. amount <= vaultValue[m] /\ Debit(m, amount)
    BY <1>1 DEF Borrow, TypeOK
  <2> QED
    BY <1>1, <1>6, <2>1, DebitExact
<1>9. ValueWasDeposited'
  <2>1. /\ total - amount \in Nat
        /\ (total - amount) + totalBorrows' <= totalDeposits'
        /\ totalBorrows' \in Nat /\ totalDeposits' \in Nat
    BY <1>1, <1>2, <1>4, <1>6, <1>7 DEF TypeOK
  <2>2. \E n \in 0..totalDeposits' :
           IsTotal(vaultValue', n) /\ n + totalBorrows' <= totalDeposits'
    BY <1>7, <2>1, ClaimWithinDeposits
  <2> QED
    BY <2>2 DEF ValueWasDeposited
<1> QED
  BY <1>1, <1>2, <1>4, <1>5, <1>7, <1>9 DEF BooksAgree, SharesAgree

LEMMA RepayKeepsBooks ==
    ASSUME MaxDeposits < U64, BooksAgree, NEW u \in Users, NEW m \in Mints,
           NEW amount \in Nat, Repay(u, m, amount)
    PROVE  /\ BooksAgree'
           /\ \A n \in Mints :
                 vaultValue'[n] = IF n = m THEN vaultValue[n] + amount
                                  ELSE vaultValue[n]
<1> DEFINE owed == Owed[<<u, m>>]
<1>1. /\ TypeOK /\ DebtIndex /\ SharesAgree
      /\ TypeOK'
  BY RepayTypes DEF BooksAgree, SharesAgree
<1>2. totalDeposits' = totalDeposits /\ totalDeposits' <= MaxDeposits
  BY DEF Repay, BooksAgree
<1>3. /\ owed \in Nat /\ debt[<<u, m>>] = SHARE_MULTIPLIER * owed
      /\ owed <= totalBorrows /\ DebtAmount(u, m) = owed
  BY DebtFacts
<1>4. 0 < amount /\ amount <= owed
  BY <1>3 DEF Repay
<1>5. ClearDebt(u, m, SHARE_MULTIPLIER * amount, amount)
  <2>1. (amount * debt[<<u, m>>]) \div owed = SHARE_MULTIPLIER * amount
    <3>1. amount * debt[<<u, m>>] = (SHARE_MULTIPLIER * amount) * owed
      BY <1>3, MultiplierAssumption
    <3>2. SHARE_MULTIPLIER * amount \in Nat /\ owed \in Nat \ {0}
      BY <1>3, <1>4, MultiplierAssumption
    <3> HIDE DEF owed
    <3> QED
      BY <3>1, <3>2, DivideProduct
  <2> QED
    BY <1>3, <2>1 DEF Repay
<1>6. /\ DebtIndex' /\ amount <= totalBorrows
      /\ totalBorrows' = totalBorrows - amount
  BY <1>1, <1>4, <1>5, PoolShrinks
<1>7. SharesAgree'
  BY <1>1, UntouchedShares DEF Repay
<1>8. PICK total \in Nat : /\ IsTotal(vaultValue, total)
                           /\ total + totalBorrows <= totalDeposits
                           /\ totalDeposits <= MaxDeposits
  BY ClaimedValue
<1>9. /\ \A n \in Mints :
            vaultValue'[n] = IF n = m THEN vaultValue[n] + amount
                             ELSE vaultValue[n]
      /\ IsTotal(vaultValue', total + amount)
  <2>1. total + amount < U64
    BY <1>1, <1>6, <1>8, BoundsAssumption, U64Assumption DEF TypeOK
  <2>2. Credit(m, amount)
    BY DEF Repay
  <2> QED
    BY <1>1, <1>8, <2>1, <2>2, CreditExact
<1>11. ValueWasDeposited'
  <2>1. /\ total + amount \in Nat
        /\ (total + amount) + totalBorrows' <= totalDeposits'
        /\ totalBorrows' \in Nat /\ totalDeposits' \in Nat
    BY <1>1, <1>2, <1>6, <1>8 DEF TypeOK
  <2>2. \E n \in 0..totalDeposits' :
           IsTotal(vaultValue', n) /\ n + totalBorrows' <= totalDeposits'
    BY <1>9, <2>1, ClaimWithinDeposits
  <2> QED
    BY <2>2 DEF ValueWasDeposited
<1> QED
  BY <1>1, <1>2, <1>6, <1>7, <1>9, <1>11 DEF BooksAgree, SharesAgree

LEMMA LiquidateKeepsBooks ==
    ASSUME MaxDeposits < U64, BooksAgree, NEW u \in Users, NEW c \in Mints,
           NEW b \in Mints, NEW maxRepay \in Nat, Liquidate(u, c, b, maxRepay)
    PROVE  BooksAgree' /\ Repaid(u, b, maxRepay) \in Nat
<1> DEFINE owed  == Owed[<<u, b>>]
           repay == Repaid(u, b, maxRepay)
<1>1. /\ TypeOK /\ DebtIndex /\ SharesAgree
      /\ TypeOK'
  BY LiquidateTypes DEF BooksAgree, SharesAgree
<1>2. totalDeposits' = totalDeposits /\ totalDeposits' <= MaxDeposits
  BY DEF Liquidate, BooksAgree
<1>3. owed \in Nat /\ owed <= totalBorrows /\ DebtAmount(u, b) = owed
  BY DebtFacts
<1>4. repay \in Nat /\ repay <= owed
  BY <1>3, ArithmeticTypes DEF Repaid
<1>5. ClearDebt(u, b, SHARE_MULTIPLIER * repay, repay)
  <2>1. (repay * globalDebtShares) \div totalBorrows
           = SHARE_MULTIPLIER * repay
    <3> HIDE DEF owed, repay
    <3>1. globalDebtShares = SHARE_MULTIPLIER * totalBorrows
      BY <1>1 DEF DebtIndex
    <3>2. owed > 0
      BY <1>3 DEF Liquidate
    <3>3. totalBorrows \in Nat \ {0}
      BY <1>1, <1>3, <3>2 DEF TypeOK
    <3>4. repay * globalDebtShares = (SHARE_MULTIPLIER * repay) * totalBorrows
      BY <1>4, <3>1, <3>3, MultiplierAssumption
    <3>5. SHARE_MULTIPLIER * repay \in Nat
      BY <1>4, MultiplierAssumption
    <3> QED
      BY <3>3, <3>4, <3>5, DivideProduct
  <2>2. ClearDebt(u, b, (repay * globalDebtShares) \div totalBorrows, repay)
    BY DEF Liquidate
  <2> HIDE DEF repay
  <2> QED
    BY <2>1, <2>2
<1>6. SeizeShares(u, c, b, calculate_liquidation_amount(repay, 500))
  BY DEF Liquidate
<1>7. UNCHANGED vaultValue
  BY DEF Liquidate
<1> HIDE DEF owed, repay
<1>9. /\ DebtIndex' /\ repay <= totalBorrows
      /\ totalBorrows' = totalBorrows - repay
  BY <1>1, <1>4, <1>5, PoolShrinks DEF owed
<1>10. SharesAgree'
  BY <1>1, <1>4, <1>6, RewardType, SeizureKeepsTotals
<1>12. ValueWasDeposited'
  <2>1. PICK total \in Nat : /\ IsTotal(vaultValue, total)
                             /\ total + totalBorrows <= totalDeposits
    BY ClaimedValue
  <2>2. /\ total + totalBorrows' <= totalDeposits'
        /\ totalBorrows' \in Nat /\ totalDeposits' \in Nat
    BY <1>1, <1>2, <1>4, <1>9, <2>1 DEF TypeOK
  <2>3. IsTotal(vaultValue', total)
    BY <1>7, <2>1
  <2>4. \E n \in 0..totalDeposits' :
           IsTotal(vaultValue', n) /\ n + totalBorrows' <= totalDeposits'
    BY <2>2, <2>3, ClaimWithinDeposits
  <2> QED
    BY <2>4 DEF ValueWasDeposited
<1> QED
  BY <1>1, <1>2, <1>4, <1>9, <1>10, <1>12 DEF BooksAgree, SharesAgree, repay

-----------------------------------------------------------------------------
(* The inductive invariant. *)

LEMMA BooksAgreeAtFirst ==
    ASSUME Init
    PROVE  BooksAgree
<1>1. TypeOK
  BY InitTypes
<1>2. totalDeposits <= MaxDeposits
  BY BoundsAssumption DEF Init
<1>3. DebtIndex
  <2>1. 0 \div SHARE_MULTIPLIER = 0 /\ SHARE_MULTIPLIER * 0 = 0
    BY MultiplierAssumption
  <2>2. Owed = [p \in Positions |-> 0]
    BY <2>1 DEF Init, Owed
  <2>3. IsTotal(Owed, 0)
    BY <2>2, TotalOfZeros
  <2> QED
    BY <2>1, <2>2, <2>3 DEF Init, DebtIndex
<1>4. SharesAccounted
  <2> SUFFICES ASSUME NEW m \in Mints
               PROVE  /\ stranded[m] <= vaultShares[m]
                      /\ IsTotal(InVault(collateral, m),
                                 vaultShares[m] - stranded[m])
    BY DEF SharesAccounted
  <2>1. InVault(collateral, m) = [u \in Users |-> 0]
    BY DEF Init, InVault, Positions
  <2>2. IsTotal(InVault(collateral, m), 0)
    BY <2>1, TotalOfZeros
  <2>3. stranded[m] = 0 /\ vaultShares[m] = 0
    BY DEF Init
  <2> QED
    BY <2>2, <2>3
<1>5. AggregateAccounted
  <2> SUFFICES ASSUME NEW u \in Users
               PROVE  /\ seizedFrom[u] <= userShares[u]
                      /\ IsTotal(OfUser(collateral, u),
                                 userShares[u] - seizedFrom[u])
    BY DEF AggregateAccounted
  <2>1. OfUser(collateral, u) = [m \in Mints |-> 0]
    BY DEF Init, OfUser, Positions
  <2>2. IsTotal(OfUser(collateral, u), 0)
    BY <2>1, TotalOfZeros
  <2>3. seizedFrom[u] = 0 /\ userShares[u] = 0
    BY DEF Init
  <2> QED
    BY <2>2, <2>3
<1>6. ValueWasDeposited
  <2>1. IsTotal(vaultValue, 0)
    BY TotalOfZeros DEF Init
  <2>2. 0 \in 0..totalDeposits /\ 0 + totalBorrows <= totalDeposits
    BY DEF Init
  <2> QED
    BY <2>1, <2>2 DEF ValueWasDeposited
<1> QED
  BY <1>1, <1>2, <1>3, <1>4, <1>5, <1>6 DEF BooksAgree

LEMMA IdleKeepsBooks ==
    ASSUME BooksAgree,
           UNCHANGED <<vaultShares, vaultValue, accounts, debtPool,
                       totalDeposits, history>>,
           paused' \in BOOLEAN, fees' \in Nat
    PROVE  BooksAgree'
<1>1. UNCHANGED <<vaultShares, vaultValue, opened, collateral, userShares,
                  debt, globalDebtShares, totalBorrows, totalDeposits,
                  liquidationPaid, stranded, seizedFrom>>
  BY DEF accounts, debtPool, history
<1>2. TypeOK'
  BY <1>1 DEF BooksAgree, TypeOK
<1>3. DebtIndex'
  BY UntouchedPool DEF BooksAgree
<1>4. SharesAgree'
  BY UntouchedShares DEF BooksAgree, SharesAgree
<1>5. ValueWasDeposited' /\ totalDeposits' <= MaxDeposits
  BY <1>1 DEF BooksAgree, ValueWasDeposited
<1> QED
  BY <1>2, <1>3, <1>4, <1>5 DEF BooksAgree, SharesAgree

LEMMA NextKeepsBooks ==
    ASSUME MaxDeposits < U64, BooksAgree, [Next]_vars
    PROVE  BooksAgree'
<1> USE AmountsAssumption
<1>1. ASSUME NEW u \in Users, NEW m \in Mints, NEW amount \in Amounts,
             Deposit(u, m, amount)
      PROVE  BooksAgree'
  BY <1>1, DepositKeepsBooks
<1>2. ASSUME NEW u \in Users, NEW m \in Mints, NEW shares \in ShareAmounts,
             Withdraw(u, m, shares)
      PROVE  BooksAgree'
  BY <1>2, WithdrawKeepsBooks
<1>3. ASSUME NEW u \in Users, NEW m \in Mints, NEW amount \in Amounts,
             Borrow(u, m, amount)
      PROVE  BooksAgree'
  BY <1>3, BorrowKeepsBooks
<1>4. ASSUME NEW u \in Users, NEW m \in Mints, NEW amount \in Amounts,
             Repay(u, m, amount)
      PROVE  BooksAgree'
  BY <1>4, RepayKeepsBooks
<1>5. ASSUME NEW u \in Users, NEW c \in Mints, NEW b \in Mints,
             NEW maxRepay \in Amounts, Liquidate(u, c, b, maxRepay)
      PROVE  BooksAgree'
  BY <1>5, LiquidateKeepsBooks
<1>6. ASSUME NEW value \in BOOLEAN, SetPaused(value)
      PROVE  BooksAgree'
  <2>1. fees' \in Nat
    BY <1>6 DEF SetPaused, BooksAgree, TypeOK
  <2> QED
    BY <1>6, <2>1, IdleKeepsBooks DEF SetPaused
<1>7. CASE CollectFees
  <2>1. paused' \in BOOLEAN /\ fees' \in Nat
    BY <1>7 DEF CollectFees, BooksAgree, TypeOK
  <2> QED
    BY <1>7, <2>1, IdleKeepsBooks DEF CollectFees
<1>8. CASE UNCHANGED vars
  <2>1. paused' \in BOOLEAN /\ fees' \in Nat
    BY <1>8 DEF vars, BooksAgree, TypeOK
  <2> QED
    BY <1>8, <2>1, IdleKeepsBooks DEF vars
<1> QED
  BY <1>1, <1>2, <1>3, <1>4, <1>5, <1>6, <1>7, <1>8 DEF Next

\* While all the deposits that clients ask for fit in 64 bits, the books of the
\* program agree with each other, whatever the handlers do and in any order.
THEOREM BooksAlwaysAgree ==
    ASSUME MaxDeposits < U64
    PROVE  Spec => []BooksAgree
<1>1. Init => BooksAgree
  BY BooksAgreeAtFirst
<1>2. BooksAgree /\ [Next]_vars => BooksAgree'
  BY NextKeepsBooks
<1> QED
  BY <1>1, <1>2, PTL DEF Spec

\* A token of debt is always SHARE_MULTIPLIER debt shares, in every position and
\* in the pool: nothing that borrow, repay or liquidate computes is rounded.
THEOREM DebtAlwaysIndexed ==
    ASSUME MaxDeposits < U64
    PROVE  Spec => []DebtIndex
<1>1. BooksAgree => DebtIndex
  BY DEF BooksAgree
<1> QED
  BY <1>1, BooksAlwaysAgree, PTL

\* A vault's total_shares is always the total of its depositors' shares and of
\* those seized but not burnt.
THEOREM SharesAlwaysAccounted ==
    ASSUME MaxDeposits < U64
    PROVE  Spec => []SharesAccounted
<1>1. BooksAgree => SharesAccounted
  BY DEF BooksAgree
<1> QED
  BY <1>1, BooksAlwaysAgree, PTL

\* The aggregate that borrow relies on is always the user's collateral shares
\* plus what liquidations seized without lowering it.
THEOREM AggregateAlwaysAccounted ==
    ASSUME MaxDeposits < U64
    PROVE  Spec => []AggregateAccounted
<1>1. BooksAgree => AggregateAccounted
  BY DEF BooksAgree
<1> QED
  BY <1>1, BooksAlwaysAgree, PTL

\* No sequence of handlers claims or lends more than was ever deposited.
THEOREM ValueAlwaysDeposited ==
    ASSUME MaxDeposits < U64
    PROVE  Spec => []ValueWasDeposited
<1>1. BooksAgree => ValueWasDeposited
  BY DEF BooksAgree
<1> QED
  BY <1>1, BooksAlwaysAgree, PTL

\* global_debt_shares is always the total of all debt_shares.
THEOREM DebtPoolAlwaysExact ==
    ASSUME MaxDeposits < U64
    PROVE  Spec => []DebtPoolExact
<1>1. BooksAgree => DebtPoolExact
  <2> SUFFICES ASSUME BooksAgree
               PROVE  IsTotal(debt, globalDebtShares)
    BY DEF DebtPoolExact
  <2>1. TypeOK /\ DebtIndex
    BY DEF BooksAgree
  <2>2. /\ Owed \in [Positions -> Nat] /\ debt \in [Positions -> Nat]
        /\ totalBorrows \in Nat /\ SHARE_MULTIPLIER \in Nat
    BY <2>1, OwedType, MultiplierAssumption DEF TypeOK
  <2>3. /\ IsTotal(Owed, totalBorrows)
        /\ \A p \in Positions : debt[p] = SHARE_MULTIPLIER * Owed[p]
        /\ globalDebtShares = SHARE_MULTIPLIER * totalBorrows
    BY <2>1 DEF DebtIndex
  <2>4. IsTotal(debt, SHARE_MULTIPLIER * totalBorrows)
    BY <2>2, <2>3, TotalScales
  <2> QED
    BY <2>3, <2>4
<1> QED
  BY <1>1, BooksAlwaysAgree, PTL

-----------------------------------------------------------------------------
(* What a position owes. *)

DebtIsOwed ==
    \A u \in Users, m \in Mints : DebtAmount(u, m) = Owed[<<u, m>>]

LEMMA DebtAlwaysOwed ==
    ASSUME MaxDeposits < U64
    PROVE  Spec => []DebtIsOwed
<1>1. BooksAgree => DebtIsOwed
  BY DebtFacts DEF DebtIsOwed
<1> QED
  BY <1>1, BooksAlwaysAgree, PTL

\* What repay and liquidate compute for the positions adds up to what the
\* protocol says is lent: rounding leaves no dust and no debt nobody can clear.
THEOREM OwedAlwaysBorrowed ==
    ASSUME MaxDeposits < U64
    PROVE  Spec => []OwedIsBorrowed
<1>1. BooksAgree /\ DebtIsOwed => OwedIsBorrowed
  <2> SUFFICES ASSUME BooksAgree, DebtIsOwed
               PROVE  OwedIsBorrowed
    OBVIOUS
  <2> DEFINE amounts == [p \in Positions |-> DebtAmount(p[1], p[2])]
  <2>1. ASSUME NEW p \in Positions
        PROVE  DebtAmount(p[1], p[2]) = Owed[p]
    <3>1. p[1] \in Users /\ p[2] \in Mints /\ p = <<p[1], p[2]>>
      BY DEF Positions
    <3> QED
      BY <3>1 DEF DebtIsOwed
  <2>2. Owed = [p \in Positions |-> Owed[p]]
    BY DEF Owed
  <2>3. amounts = Owed
    BY <2>1, <2>2
  <2>4. IsTotal(Owed, totalBorrows)
    BY DEF BooksAgree, DebtIndex
  <2> QED
    BY <2>3, <2>4 DEF OwedIsBorrowed
<1> QED
  BY <1>1, BooksAlwaysAgree, DebtAlwaysOwed, PTL

\* A handler changes what is owed on no position but the one it names.
THEOREM OthersAlwaysOweTheSame ==
    ASSUME MaxDeposits < U64
    PROVE  Spec => OthersOweTheSame
<1> DEFINE Untouched ==
      \A u \in Users, m \in Mints :
         debt'[<<u, m>>] = debt[<<u, m>>]
           => DebtAmount(u, m)' = DebtAmount(u, m)
<1>1. DebtIsOwed /\ DebtIsOwed' => Untouched
  <2> SUFFICES ASSUME DebtIsOwed, DebtIsOwed',
                      NEW u \in Users, NEW m \in Mints,
                      debt'[<<u, m>>] = debt[<<u, m>>]
               PROVE  DebtAmount(u, m)' = DebtAmount(u, m)
    OBVIOUS
  <2>1. /\ DebtAmount(u, m) = Owed[<<u, m>>]
        /\ DebtAmount(u, m)' = Owed'[<<u, m>>]
    BY DEF DebtIsOwed
  <2>2. Owed'[<<u, m>>] = Owed[<<u, m>>]
    BY DEF Owed, Positions
  <2> QED
    BY <2>1, <2>2
<1>2. Spec => [][Untouched]_vars
  <2> HIDE DEF Untouched
  <2> QED
    BY <1>1, DebtAlwaysOwed, PTL
<1> QED
  BY <1>2 DEF OthersOweTheSame
=============================================================================
