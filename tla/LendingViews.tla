---------------------------- MODULE LendingViews ------------------------------
(***************************************************************************)
(* How Lending looks to those who see only a part of it, for every set of  *)
(* users and mints, every amounts and multiplier: to the depositor who     *)
(* holds shares of a vault, to the reader of the ledger that Lending        *)
(* implements, to the owner of the tokens, and to the page that adds up    *)
(* what it has read.  As for the invariants, all the deposits ever asked   *)
(* for must fit in 64 bits.                                                *)
(***************************************************************************)
EXTENDS LendingTheorems, LendingLedger, Vaults, Dashboard

-----------------------------------------------------------------------------
(* The value of a vault share: of all the handlers only a borrow lowers    *)
(* it.  Every other one rounds in favour of the depositors who stay.       *)

\* The step does not lower the value of a share of vault m.
HoldsWorth(m) ==
    vaultShares[m] > 0
      => vaultValue'[m] * vaultShares[m] >= vaultValue[m] * vaultShares'[m]

\* A vault that gains value and no shares, or loses shares and no value.
LEMMA GainHoldsWorth ==
    ASSUME TypeOK, TypeOK', NEW m \in Mints,
           vaultValue[m] <= vaultValue'[m], vaultShares'[m] <= vaultShares[m]
    PROVE  HoldsWorth(m)
<1> DEFINE v == vaultValue[m]
           w == vaultValue'[m]
           s == vaultShares[m]
           r == vaultShares'[m]
<1>1. v \in Nat /\ w \in Nat /\ s \in Nat /\ r \in Nat
  BY DEF TypeOK
<1>2. v <= w /\ r <= s
  OBVIOUS
<1> HIDE DEF v, w, s, r
<1>3. w * s >= v * s /\ v * s >= v * r
  BY <1>1, <1>2
<1>4. w * s >= v * r
  BY <1>1, <1>3
<1> QED
  BY <1>4 DEF HoldsWorth, v, w, s, r

LEMMA DepositHoldsWorth ==
    ASSUME MaxDeposits < U64, BooksAgree, NEW u \in Users, NEW m \in Mints,
           NEW amount \in Nat, Deposit(u, m, amount), NEW n \in Mints
    PROVE  HoldsWorth(n)
<1> DEFINE shares == amount_to_shares(amount, vaultShares[m], vaultValue[m])
<1>1. TypeOK /\ TypeOK'
  BY DepositTypes DEF BooksAgree
<1>3. \A k \in Mints :
         vaultValue'[k] = IF k = m THEN vaultValue[k] + amount
                          ELSE vaultValue[k]
  BY DepositKeepsBooks
<1>4. /\ shares \in Nat
      /\ vaultShares' = [vaultShares EXCEPT ![m] = @ + shares]
  BY <1>1, ConversionTypes DEF Deposit, MintShares, TypeOK
<1>5. /\ vaultShares[m] > 0
           => (vaultValue[m] + amount) * vaultShares[m]
                >= vaultValue[m] * (vaultShares[m] + shares)
  <2>1. vaultShares[m] \in Nat /\ vaultValue[m] \in Nat
    BY <1>1 DEF TypeOK
  <2> QED
    BY <2>1, MintRoundsDown
<1> HIDE DEF shares
<1>6. CASE n = m
  <2>1. /\ vaultValue'[m] = vaultValue[m] + amount
        /\ vaultShares'[m] = vaultShares[m] + shares
    BY <1>1, <1>3, <1>4 DEF TypeOK
  <2> QED
    BY <1>5, <1>6, <2>1 DEF HoldsWorth
<1>7. CASE n # m
  <2>1. vaultValue'[n] = vaultValue[n] /\ vaultShares'[n] = vaultShares[n]
    BY <1>1, <1>3, <1>4, <1>7 DEF TypeOK
  <2>2. vaultValue[n] \in Nat /\ vaultShares[n] \in Nat
    BY <1>1 DEF TypeOK
  <2> QED
    BY <1>1, <2>1, <2>2, GainHoldsWorth
<1> QED
  BY <1>6, <1>7

LEMMA WithdrawHoldsWorth ==
    ASSUME BooksAgree, NEW u \in Users, NEW m \in Mints,
           NEW shares \in Nat, Withdraw(u, m, shares), NEW n \in Mints
    PROVE  HoldsWorth(n)
<1> DEFINE amount == Redeemed(m, shares)
<1>1. TypeOK /\ TypeOK' /\ SharesAgree
  BY WithdrawTypes DEF BooksAgree, SharesAgree
<1>2. vaultShares[m] \in Nat /\ vaultValue[m] \in Nat
  BY <1>1 DEF TypeOK
<1>3. shares <= vaultShares[m]
  <2>1. /\ shares <= collateral[<<u, m>>]
        /\ collateral[<<u, m>>] \in Nat
        /\ stranded[m] + collateral[<<u, m>>] <= vaultShares[m]
    BY <1>1, AccountBounds DEF Withdraw, RedeemShares
  <2> QED
    BY <1>1, <2>1 DEF TypeOK
<1>4. amount \in Nat /\ amount <= vaultValue[m]
  BY <1>2, <1>3, ConversionTypes, RedemptionBound DEF Redeemed
<1>5. vaultShares[m] > 0
        => (vaultValue[m] - amount) * vaultShares[m]
             >= vaultValue[m] * (vaultShares[m] - shares)
  <2> SUFFICES ASSUME vaultShares[m] > 0
               PROVE  (vaultValue[m] - amount) * vaultShares[m]
                        >= vaultValue[m] * (vaultShares[m] - shares)
    OBVIOUS
  <2>1. vaultShares[m] \in Nat \ {0}
    BY <1>2
  <2> QED
    BY <1>2, <1>3, <2>1, RedemptionRoundsDown DEF Redeemed
<1>6. /\ vaultValue' = [vaultValue EXCEPT ![m] = SaturatingSub(@, amount)]
      /\ vaultShares' = [vaultShares EXCEPT ![m] = SaturatingSub(@, shares)]
  BY DEF Withdraw, Debit, RedeemShares
<1> HIDE DEF amount
<1>7. CASE n = m
  <2>1. /\ vaultValue'[m] = vaultValue[m] - amount
        /\ vaultShares'[m] = vaultShares[m] - shares
    BY <1>1, <1>3, <1>4, <1>6 DEF TypeOK, SaturatingSub
  <2> QED
    BY <1>5, <1>7, <2>1 DEF HoldsWorth
<1>8. CASE n # m
  <2>1. vaultValue'[n] = vaultValue[n] /\ vaultShares'[n] = vaultShares[n]
    BY <1>1, <1>6, <1>8 DEF TypeOK
  <2>2. vaultValue[n] \in Nat /\ vaultShares[n] \in Nat
    BY <1>1 DEF TypeOK
  <2> QED
    BY <1>1, <2>1, <2>2, GainHoldsWorth
<1> QED
  BY <1>7, <1>8

LEMMA RepayHoldsWorth ==
    ASSUME MaxDeposits < U64, BooksAgree, NEW u \in Users, NEW m \in Mints,
           NEW amount \in Nat, Repay(u, m, amount), NEW n \in Mints
    PROVE  HoldsWorth(n)
<1>1. TypeOK /\ TypeOK'
  BY RepayTypes DEF BooksAgree
<1>4. \A k \in Mints :
         vaultValue'[k] = IF k = m THEN vaultValue[k] + amount
                          ELSE vaultValue[k]
  BY RepayKeepsBooks
<1>5. vaultShares' = vaultShares
  BY DEF Repay
<1>6. vaultValue[n] <= vaultValue'[n] /\ vaultShares'[n] <= vaultShares[n]
  <2>1. vaultValue[n] \in Nat /\ vaultShares[n] \in Nat
    BY <1>1 DEF TypeOK
  <2> QED
    BY <1>4, <1>5, <2>1
<1> QED
  BY <1>1, <1>6, GainHoldsWorth

LEMMA LiquidateHoldsWorth ==
    ASSUME BooksAgree, NEW u \in Users, NEW c \in Mints, NEW b \in Mints,
           NEW maxRepay \in Nat, Liquidate(u, c, b, maxRepay), NEW n \in Mints
    PROVE  HoldsWorth(n)
<1>1. TypeOK /\ TypeOK'
  BY LiquidateTypes DEF BooksAgree
<1>2. vaultValue' = vaultValue
  BY DEF Liquidate
<1>3. PICK burn \in Nat :
         vaultShares' = [vaultShares EXCEPT ![c] = SaturatingSub(@, burn)]
  <2> DEFINE repay  == Repaid(u, b, maxRepay)
             reward == calculate_liquidation_amount(repay, 500)
             seize  == Least(reward, AsU64(collateral[<<u, c>>]))
             burnt  == IF c = b THEN 0 ELSE seize
  <2>1. repay \in Nat
    BY <1>1, AmountTypes, ArithmeticTypes DEF Repaid
  <2>2. AsU64(collateral[<<u, c>>]) \in Nat
    BY <1>1, AmountTypes, CastBounds
  <2>3. seize \in Nat
    <3>1. reward \in Nat
      <4> HIDE DEF repay
      <4> QED
        BY <2>1, RewardType
    <3> DEFINE whole == AsU64(collateral[<<u, c>>])
    <3> HIDE DEF reward, whole
    <3>2. Least(reward, whole) \in Nat
      BY <2>2, <3>1, ArithmeticTypes DEF whole
    <3> QED
      BY <3>2 DEF whole
  <2>4. vaultShares' = [vaultShares EXCEPT ![c] = SaturatingSub(@, burnt)]
    BY DEF Liquidate, SeizeShares
  <2> HIDE DEF seize
  <2>5. burnt \in Nat
    BY <2>3
  <2> HIDE DEF burnt
  <2> QED
    BY <2>4, <2>5
<1>4. vaultShares'[n] <= vaultShares[n]
  BY <1>1, <1>3 DEF TypeOK, SaturatingSub
<1>5. vaultValue[n] <= vaultValue'[n]
  BY <1>1, <1>2 DEF TypeOK
<1> QED
  BY <1>1, <1>4, <1>5, GainHoldsWorth

\* Only a step that lends can lower what a vault share is worth.
THEOREM OnlyBorrowEverLowersShares ==
    ASSUME MaxDeposits < U64
    PROVE  Spec => OnlyBorrowLowersShares
<1> DEFINE Worth ==
      \A m \in Mints :
         (totalBorrows' <= totalBorrows /\ vaultShares[m] > 0)
           => vaultValue'[m] * vaultShares[m]
                >= vaultValue[m] * vaultShares'[m]
<1>1. BooksAgree /\ [Next]_vars => Worth
  <2> SUFFICES ASSUME BooksAgree, [Next]_vars,
                      totalBorrows' <= totalBorrows, NEW n \in Mints
               PROVE  HoldsWorth(n)
    BY DEF HoldsWorth
  <2> USE AmountsAssumption
  <2>1. ASSUME NEW u \in Users, NEW m \in Mints, NEW amount \in Amounts,
               Deposit(u, m, amount)
        PROVE  HoldsWorth(n)
    BY <2>1, DepositHoldsWorth
  <2>2. ASSUME NEW u \in Users, NEW m \in Mints, NEW shares \in ShareAmounts,
               Withdraw(u, m, shares)
        PROVE  HoldsWorth(n)
    BY <2>2, WithdrawHoldsWorth
  <2>3. ASSUME NEW u \in Users, NEW m \in Mints, NEW amount \in Amounts,
               Borrow(u, m, amount)
        PROVE  HoldsWorth(n)
    <3>1. amount > 0 /\ totalBorrows' = totalBorrows + amount
      BY <2>3 DEF Borrow, AddDebt
    <3>2. totalBorrows \in Nat /\ amount \in Nat
      BY DEF BooksAgree, TypeOK
    <3> QED
      BY <3>1, <3>2
  <2>4. ASSUME NEW u \in Users, NEW m \in Mints, NEW amount \in Amounts,
               Repay(u, m, amount)
        PROVE  HoldsWorth(n)
    BY <2>4, RepayHoldsWorth
  <2>5. ASSUME NEW u \in Users, NEW c \in Mints, NEW b \in Mints,
               NEW maxRepay \in Amounts, Liquidate(u, c, b, maxRepay)
        PROVE  HoldsWorth(n)
    BY <2>5, LiquidateHoldsWorth
  <2>6. CASE UNCHANGED <<vaultShares, vaultValue>>
    <3>1. vaultValue[n] \in Nat /\ vaultShares[n] \in Nat
      BY DEF BooksAgree, TypeOK
    <3>2. vaultValue'[n] = vaultValue[n] /\ vaultShares'[n] = vaultShares[n]
      BY <2>6
    <3> QED
      BY <3>1, <3>2 DEF HoldsWorth
  <2>7. ASSUME NEW value \in BOOLEAN, SetPaused(value)
        PROVE  UNCHANGED <<vaultShares, vaultValue>>
    BY <2>7 DEF SetPaused
  <2>8. CollectFees => UNCHANGED <<vaultShares, vaultValue>>
    BY DEF CollectFees
  <2>9. UNCHANGED vars => UNCHANGED <<vaultShares, vaultValue>>
    BY DEF vars
  <2> QED
    BY <2>1, <2>2, <2>3, <2>4, <2>5, <2>6, <2>7, <2>8, <2>9
    DEF Next
<1>2. Spec => [][Worth]_vars
  <2> HIDE DEF Worth
  <2> QED
    BY <1>1, BooksAlwaysAgree, PTL DEF Spec
<1> QED
  BY <1>2 DEF OnlyBorrowLowersShares

-----------------------------------------------------------------------------
(* Lending implements Ledger: the initial states are opening states, and    *)
(* every step is an entry of the ledger or leaves it alone.  First, how the *)
(* two mapped variables move.                                               *)

\* The worth of a vault that gains what the other vaults do not.
LEMMA WorthMoves ==
    ASSUME TypeOK, TypeOK', NEW m \in Mints, NEW gain \in Int,
           \A n \in Mints :
              vaultValue'[n] = IF n = m THEN vaultValue[n] + gain
                               ELSE vaultValue[n]
    PROVE  Book!Gains(m, gain)
<1>1. vaultValue \in [Mints -> Nat] /\ vaultValue' \in [Mints -> Nat]
  BY DEF TypeOK
<1>2. vaultValue' = [vaultValue EXCEPT ![m] = @ + gain]
  BY <1>1
<1> QED
  BY <1>2 DEF Book!Gains

\* The token debt of a position whose shares change by whole tokens.
LEMMA OwedMoves ==
    ASSUME TypeOK, NEW u \in Users, NEW m \in Mints, NEW left \in Nat,
           debt' = [debt EXCEPT ![<<u, m>>] = SHARE_MULTIPLIER * left]
    PROVE  Owed' = [Owed EXCEPT ![<<u, m>>] = left]
<1>1. (SHARE_MULTIPLIER * left) \div SHARE_MULTIPLIER = left
  <2>1. SHARE_MULTIPLIER * left = left * SHARE_MULTIPLIER
    BY MultiplierAssumption
  <2> QED
    BY <2>1, DivideProduct, MultiplierAssumption
<1>2. <<u, m>> \in Positions /\ debt \in [Positions -> Nat]
  BY DEF TypeOK, Positions
<1>3. \A p \in Positions :
         Owed'[p] = IF p = <<u, m>> THEN left ELSE Owed[p]
  BY <1>1, <1>2 DEF Owed
<1>4. Owed' = [p \in Positions |-> Owed'[p]]
      /\ Owed = [p \in Positions |-> Owed[p]]
  BY DEF Owed
<1> QED
  BY <1>2, <1>3, <1>4

\* What a vault claims, and what is owed, is at most what was ever deposited.
LEMMA WithinBounds ==
    ASSUME MaxDeposits < U64, BooksAgree, NEW u \in Users, NEW m \in Mints
    PROVE  /\ vaultValue[m] \in 0..MaxDeposits
           /\ Owed[<<u, m>>] \in 0..MaxDeposits
<1>1. PICK total \in Nat : /\ IsTotal(vaultValue, total)
                           /\ total + totalBorrows <= totalDeposits
                           /\ totalDeposits <= MaxDeposits
  BY ClaimedValue
<1>2. /\ vaultValue \in [Mints -> Nat] /\ totalBorrows \in Nat
      /\ totalDeposits \in Nat /\ MaxDeposits \in Nat
  BY BoundsAssumption DEF BooksAgree, TypeOK
<1>3. vaultValue[m] <= total
  BY <1>1, <1>2, PartOfTotal
<1>4. Owed[<<u, m>>] \in Nat /\ Owed[<<u, m>>] <= totalBorrows
  BY DebtFacts
<1> QED
  BY <1>1, <1>2, <1>3, <1>4

-----------------------------------------------------------------------------
(* Every handler makes one entry. *)

LEMMA DepositIsSupply ==
    ASSUME MaxDeposits < U64, BooksAgree, NEW u \in Users, NEW m \in Mints,
           NEW amount \in Nat, Deposit(u, m, amount)
    PROVE  amount \in 0..MaxDeposits /\ Book!Supply(m, amount)
<1>1. TypeOK /\ TypeOK'
  BY DepositTypes DEF BooksAgree
<1>2. amount <= MaxDeposits
  BY <1>1, BoundsAssumption DEF Deposit, TypeOK
<1>3. Book!Gains(m, amount)
  <2>1. \A n \in Mints :
           vaultValue'[n] = IF n = m THEN vaultValue[n] + amount
                            ELSE vaultValue[n]
    BY DepositKeepsBooks
  <2> QED
    BY <1>1, <2>1, WorthMoves
<1>4. Owed' = Owed
  BY DEF Deposit, debtPool, Owed
<1> QED
  BY <1>2, <1>3, <1>4, BoundsAssumption DEF Book!Supply

LEMMA WithdrawIsRedeem ==
    ASSUME MaxDeposits < U64, BooksAgree, NEW u \in Users, NEW m \in Mints,
           NEW shares \in Nat, Withdraw(u, m, shares)
    PROVE  \E amount \in 0..MaxDeposits : Book!Redeem(m, amount)
<1> DEFINE amount == Redeemed(m, shares)
<1>1. TypeOK /\ TypeOK' /\ vaultValue[m] \in 0..MaxDeposits
  BY WithdrawTypes, WithinBounds DEF BooksAgree
<1>2. /\ amount \in Nat
      /\ \A n \in Mints :
            vaultValue'[n] = IF n = m THEN vaultValue[n] - amount
                             ELSE vaultValue[n]
  BY WithdrawKeepsBooks
<1>3. Owed' = Owed
  BY DEF Withdraw, debtPool, Owed
<1> HIDE DEF amount
<1>4. amount <= vaultValue[m] /\ amount \in 0..MaxDeposits
  <2>1. vaultValue'[m] = vaultValue[m] - amount /\ vaultValue'[m] \in Nat
    BY <1>1, <1>2 DEF TypeOK
  <2> QED
    BY <1>1, <1>2, <2>1, BoundsAssumption
<1>5. Book!Gains(m, -amount)
  <2>1. PICK gain \in Int : gain = -amount
    BY <1>2
  <2>2. vaultValue[m] - amount = vaultValue[m] + gain
    BY <1>1, <1>2, <2>1
  <2>3. \A n \in Mints :
           vaultValue'[n] = IF n = m THEN vaultValue[n] + gain
                            ELSE vaultValue[n]
    BY <1>2, <2>2
  <2> QED
    BY <1>1, <2>1, <2>3, WorthMoves
<1> QED
  BY <1>3, <1>4, <1>5 DEF Book!Redeem

LEMMA BorrowIsLend ==
    ASSUME MaxDeposits < U64, BooksAgree, NEW u \in Users, NEW m \in Mints,
           NEW amount \in Nat, Borrow(u, m, amount)
    PROVE  amount \in 0..MaxDeposits /\ Book!Lend(u, m, amount)
<1>1. TypeOK /\ TypeOK' /\ vaultValue[m] \in 0..MaxDeposits
  BY BorrowTypes, WithinBounds DEF BooksAgree
<1>2. amount <= vaultValue[m] /\ amount \in 0..MaxDeposits
  BY <1>1, BoundsAssumption DEF Borrow
<1>3. Book!Gains(m, -amount)
  <2>1. PICK gain \in Int : gain = -amount
    OBVIOUS
  <2>2. vaultValue[m] - amount = vaultValue[m] + gain
    BY <1>1, <2>1
  <2>3. \A n \in Mints :
           vaultValue'[n] = IF n = m THEN vaultValue[n] - amount
                            ELSE vaultValue[n]
    BY BorrowKeepsBooks
  <2> QED
    BY <1>1, <2>1, <2>2, <2>3, WorthMoves
<1>4. Owed' = [Owed EXCEPT ![<<u, m>>] = @ + amount]
  <2>1. debt' = [debt EXCEPT ![<<u, m>>] = @ + SHARE_MULTIPLIER * amount]
    BY LoanShares DEF Borrow, AddDebt
  <2>2. /\ Owed[<<u, m>>] \in Nat
        /\ debt[<<u, m>>] = SHARE_MULTIPLIER * Owed[<<u, m>>]
    BY DebtFacts
  <2>3. SHARE_MULTIPLIER * (Owed[<<u, m>>] + amount)
          = SHARE_MULTIPLIER * Owed[<<u, m>>] + SHARE_MULTIPLIER * amount
    BY <2>2, MultiplierAssumption
  <2> DEFINE left == Owed[<<u, m>>] + amount
  <2>6. debt' = [debt EXCEPT ![<<u, m>>] =
                    SHARE_MULTIPLIER * (Owed[<<u, m>>] + amount)]
    BY <2>1, <2>2, <2>3
  <2>4. left \in Nat /\ debt' = [debt EXCEPT ![<<u, m>>] =
                                   SHARE_MULTIPLIER * left]
    BY <2>2, <2>6
  <2> HIDE DEF left
  <2>5. Owed' = [Owed EXCEPT ![<<u, m>>] = left]
    BY <1>1, <2>4, OwedMoves
  <2> QED
    BY <2>5 DEF left
<1> QED
  BY <1>2, <1>3, <1>4 DEF Book!Lend, Book!Owes

\* A position that pays amount tokens of its debt owes as many less.
LEMMA ClearedTokens ==
    ASSUME MaxDeposits < U64, BooksAgree, NEW u \in Users, NEW m \in Mints,
           NEW amount \in Nat, amount <= Owed[<<u, m>>],
           ClearDebt(u, m, SHARE_MULTIPLIER * amount, amount)
    PROVE  Owed' = [Owed EXCEPT ![<<u, m>>] = @ + (-amount)]
<1> DEFINE left == Owed[<<u, m>>] - amount
<1>1. /\ TypeOK
      /\ Owed[<<u, m>>] \in Nat
      /\ debt[<<u, m>>] = SHARE_MULTIPLIER * Owed[<<u, m>>]
  BY DebtFacts DEF BooksAgree
<1>2. left \in Nat /\ Owed[<<u, m>>] = left + amount
  BY <1>1
<1>3. debt' = [debt EXCEPT ![<<u, m>>] =
                  SaturatingSub(@, SHARE_MULTIPLIER * amount)]
  BY DEF ClearDebt
<1> HIDE DEF left
<1>4. debt[<<u, m>>] = SHARE_MULTIPLIER * left + SHARE_MULTIPLIER * amount
  BY <1>1, <1>2, MultiplierAssumption
<1>5. /\ SHARE_MULTIPLIER * left \in Nat
      /\ SHARE_MULTIPLIER * amount \in Nat
  BY <1>2, MultiplierAssumption
<1>6. SaturatingSub(debt[<<u, m>>], SHARE_MULTIPLIER * amount)
        = SHARE_MULTIPLIER * left
  BY <1>4, <1>5 DEF SaturatingSub
<1>7. debt' = [debt EXCEPT ![<<u, m>>] = SHARE_MULTIPLIER * left]
  BY <1>3, <1>6
<1>8. Owed' = [Owed EXCEPT ![<<u, m>>] = left]
  BY <1>1, <1>2, <1>7, OwedMoves
<1> QED
  BY <1>1, <1>8 DEF left

LEMMA RepayIsReturn ==
    ASSUME MaxDeposits < U64, BooksAgree, NEW u \in Users, NEW m \in Mints,
           NEW amount \in Nat, Repay(u, m, amount)
    PROVE  amount \in 0..MaxDeposits /\ Book!Return(u, m, amount)
<1> DEFINE owes == Owed[<<u, m>>]
<1>1. TypeOK /\ TypeOK' /\ owes \in 0..MaxDeposits
  BY RepayTypes, WithinBounds DEF BooksAgree
<1>2. /\ owes \in Nat /\ debt[<<u, m>>] = SHARE_MULTIPLIER * owes
      /\ DebtAmount(u, m) = owes
  BY DebtFacts
<1>3. 0 < amount /\ amount <= owes
  BY <1>2 DEF Repay
<1>4. ClearDebt(u, m, (amount * debt[<<u, m>>]) \div owes, amount)
  BY <1>2 DEF Repay
<1> HIDE DEF owes
<1>5. (amount * debt[<<u, m>>]) \div owes = SHARE_MULTIPLIER * amount
  <2>1. amount * debt[<<u, m>>] = (SHARE_MULTIPLIER * amount) * owes
    BY <1>2, MultiplierAssumption
  <2>2. SHARE_MULTIPLIER * amount \in Nat /\ owes \in Nat \ {0}
    BY <1>2, <1>3, MultiplierAssumption
  <2> QED
    BY <2>1, <2>2, DivideProduct
<1>6. Owed' = [Owed EXCEPT ![<<u, m>>] = @ + (-amount)]
  BY <1>3, <1>4, <1>5, ClearedTokens DEF owes
<1>7. Book!Gains(m, amount)
  <2>1. \A n \in Mints :
           vaultValue'[n] = IF n = m THEN vaultValue[n] + amount
                            ELSE vaultValue[n]
    BY RepayKeepsBooks
  <2> QED
    BY <1>1, <2>1, WorthMoves
<1>8. amount \in 0..MaxDeposits
  BY <1>1, <1>3, BoundsAssumption
<1> QED
  BY <1>3, <1>6, <1>7, <1>8 DEF Book!Return, Book!Owes, owes

LEMMA LiquidateIsSettle ==
    ASSUME MaxDeposits < U64, BooksAgree, NEW u \in Users, NEW c \in Mints,
           NEW b \in Mints, NEW maxRepay \in Nat, Liquidate(u, c, b, maxRepay)
    PROVE  \E amount \in 0..MaxDeposits : Book!Settle(u, b, amount)
<1> DEFINE owes  == Owed[<<u, b>>]
           repay == Repaid(u, b, maxRepay)
<1>1. TypeOK /\ owes \in 0..MaxDeposits
  BY WithinBounds DEF BooksAgree
<1>2. /\ owes \in Nat /\ owes <= totalBorrows
      /\ DebtAmount(u, b) = owes /\ owes > 0
  BY DebtFacts DEF Liquidate
<1>3. repay \in Nat /\ repay <= owes
  BY <1>2, ArithmeticTypes DEF Repaid
<1>4. /\ UNCHANGED vaultValue
      /\ ClearDebt(u, b, (repay * globalDebtShares) \div totalBorrows, repay)
  BY DEF Liquidate
<1> HIDE DEF owes, repay
<1>5. (repay * globalDebtShares) \div totalBorrows = SHARE_MULTIPLIER * repay
  <2>1. globalDebtShares = SHARE_MULTIPLIER * totalBorrows
    BY DEF BooksAgree, DebtIndex
  <2>2. totalBorrows \in Nat \ {0}
    BY <1>1, <1>2 DEF TypeOK
  <2>3. repay * globalDebtShares = (SHARE_MULTIPLIER * repay) * totalBorrows
    BY <1>3, <2>1, <2>2, MultiplierAssumption
  <2>4. SHARE_MULTIPLIER * repay \in Nat
    BY <1>3, MultiplierAssumption
  <2> QED
    BY <2>2, <2>3, <2>4, DivideProduct
<1>6. Owed' = [Owed EXCEPT ![<<u, b>>] = @ + (-repay)]
  BY <1>3, <1>4, <1>5, ClearedTokens DEF owes
<1>7. repay \in 0..MaxDeposits
  BY <1>1, <1>3, BoundsAssumption
<1> QED
  BY <1>3, <1>4, <1>6, <1>7 DEF Book!Settle, Book!Owes, owes

-----------------------------------------------------------------------------
(* The refinement. *)

LEMMA InitOpens == Init => Book!Opening
<1> SUFFICES ASSUME Init
             PROVE  Book!Opening
  OBVIOUS
<1>1. 0 \div SHARE_MULTIPLIER = 0
  BY MultiplierAssumption
<1>2. Owed = [p \in Users \X Mints |-> 0]
  BY <1>1 DEF Init, Owed, Positions
<1> QED
  BY <1>2 DEF Init, Book!Opening

LEMMA NextEnters ==
    ASSUME MaxDeposits < U64, BooksAgree, [Next]_vars
    PROVE  [Book!Entry]_(Book!ledger)
<1> USE AmountsAssumption
<1>1. ASSUME NEW u \in Users, NEW m \in Mints, NEW amount \in Amounts,
             Deposit(u, m, amount)
      PROVE  Book!Entry
  BY <1>1, DepositIsSupply DEF Book!Entry
<1>2. ASSUME NEW u \in Users, NEW m \in Mints, NEW shares \in ShareAmounts,
             Withdraw(u, m, shares)
      PROVE  Book!Entry
  <2>1. \E amount \in 0..MaxDeposits : Book!Redeem(m, amount)
    BY <1>2, WithdrawIsRedeem
  <2> QED
    BY <2>1 DEF Book!Entry
<1>3. ASSUME NEW u \in Users, NEW m \in Mints, NEW amount \in Amounts,
             Borrow(u, m, amount)
      PROVE  Book!Entry
  BY <1>3, BorrowIsLend DEF Book!Entry
<1>4. ASSUME NEW u \in Users, NEW m \in Mints, NEW amount \in Amounts,
             Repay(u, m, amount)
      PROVE  Book!Entry
  BY <1>4, RepayIsReturn DEF Book!Entry
<1>5. ASSUME NEW u \in Users, NEW c \in Mints, NEW b \in Mints,
             NEW maxRepay \in Amounts, Liquidate(u, c, b, maxRepay)
      PROVE  Book!Entry
  <2>1. \E amount \in 0..MaxDeposits : Book!Settle(u, b, amount)
    BY <1>5, LiquidateIsSettle
  <2> QED
    BY <2>1 DEF Book!Entry
<1>6. ASSUME UNCHANGED <<vaultValue, debtPool>>
      PROVE  UNCHANGED Book!ledger
  BY <1>6 DEF debtPool, Book!ledger, Owed
<1>7. ASSUME NEW value \in BOOLEAN, SetPaused(value)
      PROVE  UNCHANGED Book!ledger
  BY <1>6, <1>7 DEF SetPaused
<1>8. CASE CollectFees
  BY <1>6, <1>8 DEF CollectFees
<1>9. CASE UNCHANGED vars
  BY <1>6, <1>9 DEF vars
<1> QED
  BY <1>1, <1>2, <1>3, <1>4, <1>5, <1>7, <1>8, <1>9 DEF Next

\* Lending implements Ledger: whatever the handlers do with the shares of vaults
\* and of the debt pool, total_value and the debts change by the whole tokens
\* of the deposit, the redemption, the loan, the repayment or the liquidation.
THEOREM LendingKeepsTheLedger ==
    ASSUME MaxDeposits < U64
    PROVE  Spec => KeepsTheLedger
<1>1. Init => Book!Opening
  BY InitOpens
<1>2. BooksAgree /\ [Next]_vars => [Book!Entry]_(Book!ledger)
  BY NextEnters
<1>3. Spec => []BooksAgree
  BY BooksAlwaysAgree
<1> QED
  BY <1>1, <1>2, <1>3, PTL DEF Spec, KeepsTheLedger

-----------------------------------------------------------------------------
(* The tokens of the vaults.  A transaction of one vault moves, in the own  *)
(* account of another, only what that vault counts as a gift.               *)

VaultsAgree == BooksAgree /\ VaultTypeOK /\ Custody

LEMMA OwnPurse ==
    ASSUME NEW m \in Mints, NEW n \in Mints
    PROVE  /\ Own(m) \in Purses
           /\ Own(m) # Outside
           /\ Own(m) = Own(n) => m = n
BY OutsideAssumption DEF Own, Purses

\* The vaults other than m have at least as much in g as they have in h.
OthersGain(m, g, h) == \A p \in Purses : p[1] # m => g[p] >= h[p]

\* What a transaction of vault m must do to that vault, if it is served by its
\* own accounts: the rest follows from what Served and Sends say of the others.
LEMMA ServiceKeepsCustody ==
    ASSUME VaultsAgree, TypeOK', NEW m \in Mints, NEW properly \in BOOLEAN,
           held' \in [Purses -> 0..MaxTokens], sent' \in [Mints -> Int],
           Served(m, properly), OthersGain(m, held', held),
           \A n \in Mints : n # m => /\ vaultValue'[n] = vaultValue[n]
                                     /\ liquidationPaid'[n] = liquidationPaid[n]
                                     /\ sent'[n] = sent[n],
           properly /\ m \notin astray =>
              vaultValue'[m] - vaultValue[m]
                = (held'[Own(m)] - held[Own(m)]) + (sent'[m] - sent[m])
                    + (liquidationPaid'[m] - liquidationPaid[m])
    PROVE  VaultTypeOK' /\ Custody'
<1>1. /\ held \in [Purses -> Int] /\ held' \in [Purses -> Int]
      /\ gifts \in [Mints -> Int] /\ sent \in [Mints -> Int]
      /\ astray \subseteq Mints
  BY TokensAssumption DEF VaultsAgree, VaultTypeOK
<1>2. /\ astray' = IF properly THEN astray ELSE astray \cup {m}
      /\ gifts' = [n \in Mints |->
                     IF n \in {m} \cup astray THEN gifts[n]
                     ELSE gifts[n] + held'[Own(n)] - held[Own(n)]]
  BY DEF Served, Given
<1>3. VaultTypeOK'
  <2>1. \A n \in Mints : held[Own(n)] \in Int /\ held'[Own(n)] \in Int
    BY <1>1, OwnPurse
  <2>2. gifts' \in [Mints -> Int]
    BY <1>1, <1>2, <2>1
  <2>3. astray' \subseteq Mints
    BY <1>1, <1>2
  <2> QED
    BY <2>2, <2>3 DEF VaultTypeOK
<1>4. ASSUME NEW n \in Mints, n \notin astray'
      PROVE  /\ gifts'[n] >= 0
             /\ vaultValue'[n] + gifts'[n]
                  = held'[Own(n)] + sent'[n] + liquidationPaid'[n]
  <2>1. n \notin astray /\ (n = m => properly)
    BY <1>2, <1>4
  <2>2. /\ gifts[n] >= 0
        /\ vaultValue[n] + gifts[n]
             = held[Own(n)] + sent[n] + liquidationPaid[n]
    BY <2>1 DEF VaultsAgree, Custody
  <2>3. /\ vaultValue[n] \in Int /\ vaultValue'[n] \in Int
        /\ liquidationPaid[n] \in Int /\ liquidationPaid'[n] \in Int
    BY DEF VaultsAgree, BooksAgree, TypeOK
  <2>4. /\ held[Own(n)] \in Int /\ held'[Own(n)] \in Int
        /\ sent[n] \in Int /\ sent'[n] \in Int /\ gifts[n] \in Int
    BY <1>1, OwnPurse
  <2>5. CASE n = m
    <3> DEFINE v == vaultValue[n]
               w == vaultValue'[n]
               x == held[Own(n)]
               y == held'[Own(n)]
               s == sent[n]
               t == sent'[n]
               p == liquidationPaid[n]
               q == liquidationPaid'[n]
               g == gifts[n]
    <3>1. gifts'[n] = g
      BY <1>2, <2>5
    <3>2. w - v = (y - x) + (t - s) + (q - p)
      BY <2>1, <2>5
    <3>3. v + g = x + s + p
      BY <2>2
    <3>4. /\ v \in Int /\ w \in Int /\ x \in Int /\ y \in Int /\ s \in Int
          /\ t \in Int /\ p \in Int /\ q \in Int /\ g \in Int
      BY <2>3, <2>4
    <3> HIDE DEF v, w, x, y, s, t, p, q, g
    <3>5. w + g = y + t + q
      BY <3>2, <3>3, <3>4
    <3> QED
      BY <2>2, <3>1, <3>5 DEF w, g, y, t, q
  <2>6. CASE n # m
    <3>1. gifts'[n] = gifts[n] + held'[Own(n)] - held[Own(n)]
      BY <1>2, <2>1, <2>6
    <3>2. /\ vaultValue'[n] = vaultValue[n] /\ sent'[n] = sent[n]
          /\ liquidationPaid'[n] = liquidationPaid[n]
      BY <2>6
    <3>3. held'[Own(n)] >= held[Own(n)]
      BY <2>6, OwnPurse DEF OthersGain, Own
    <3> QED
      BY <2>2, <2>3, <2>4, <3>1, <3>2, <3>3
  <2> QED
    BY <2>5, <2>6
<1> QED
  BY <1>3, <1>4 DEF Custody

\* What the vault has at MarginFi after a call.
LEMMA SendsTypes ==
    ASSUME VaultTypeOK, NEW m \in Mints, NEW refill \in Int, NEW cpi,
           Sends(m, cpi, refill)
    PROVE  /\ sent' \in [Mints -> Int]
           /\ \A n \in Mints : n # m => sent'[n] = sent[n]
           /\ cpi = "marginfi" /\ m \notin astray
                => sent'[m] = sent[m] - refill
           /\ cpi = "none" => sent'[m] = sent[m]
BY DEF Sends, VaultTypeOK

\* What a vault's own account holds after a call.
LEMMA DispatchTypes ==
    ASSUME NEW m \in Mints, NEW refill \in Int, NEW cpi \in CpiChoices,
           NEW h \in [Purses -> Int], NEW g \in Dispatched(m, cpi, h, refill)
    PROVE  /\ g \in [Purses -> 0..MaxTokens]
           /\ OthersGain(m, g, h)
           /\ cpi = "none" => g[Own(m)] = h[Own(m)]
           /\ cpi = "marginfi" => g[Own(m)] = h[Own(m)] + refill
           /\ cpi # "other" => cpi = "none" \/ cpi = "marginfi"
<1>1. Own(m) \in Purses
  BY OwnPurse
<1>2. cpi \in {"none", "marginfi", "other"}
  BY CpiAssumption
<1>3. OthersGain(m, g, h)
  <2>1. \A p \in Purses : h[p] \in Int /\ (p[1] # m => p # Own(m))
    BY DEF Own
  <2> QED
    BY <2>1 DEF Dispatched, OthersGain
<1> QED
  BY <1>1, <1>2, <1>3 DEF Dispatched

LEMMA MovedTypes ==
    ASSUME NEW h \in [Purses -> Int], NEW amount \in Int, NEW from, NEW to
    PROVE  /\ Moved(h, from, to, amount) \in [Purses -> Int]
           /\ \A p \in Purses :
                 Moved(h, from, to, amount)[p]
                   = h[p] - (IF p = from THEN amount ELSE 0)
                       + (IF p = to THEN amount ELSE 0)
BY DEF Moved

\* A transfer that takes nothing from another vault.
LEMMA MovedGain ==
    ASSUME NEW m \in Mints, NEW h \in [Purses -> Int], NEW amount \in Nat,
           NEW from, NEW to, from = Outside \/ from[1] = m
    PROVE  OthersGain(m, Moved(h, from, to, amount), h)
<1>1. ASSUME NEW p \in Purses, p[1] # m
      PROVE  Moved(h, from, to, amount)[p] >= h[p]
  <2>1. p # from
    BY <1>1, OutsideAssumption
  <2>2. Moved(h, from, to, amount)[p]
          = h[p] - (IF p = from THEN amount ELSE 0)
              + (IF p = to THEN amount ELSE 0)
    BY MovedTypes
  <2>3. h[p] \in Int
    OBVIOUS
  <2> QED
    BY <2>1, <2>2, <2>3
<1> QED
  BY <1>1 DEF OthersGain

LEMMA GainsAddUp ==
    ASSUME NEW m, NEW f \in [Purses -> Int], NEW g \in [Purses -> Int],
           NEW h \in [Purses -> Int],
           OthersGain(m, f, g), OthersGain(m, g, h)
    PROVE  OthersGain(m, f, h)
<1>1. \A p \in Purses : f[p] \in Int /\ g[p] \in Int /\ h[p] \in Int
  OBVIOUS
<1> QED
  BY <1>1 DEF OthersGain

\* A payment into the vault, of a deposit or of a repayment.
LEMMA PaymentKeepsCustody ==
    ASSUME VaultsAgree, TypeOK', NEW m \in Mints, NEW amount \in Nat,
           \A n \in Mints :
              vaultValue'[n] = IF n = m THEN vaultValue[n] + amount
                               ELSE vaultValue[n],
           liquidationPaid' = liquidationPaid, PaidIn(m, amount)
    PROVE  VaultTypeOK' /\ Custody'
<1>1. PICK vault_ata \in TokenAccounts, cpi \in CpiChoices :
         /\ held' \in Dispatched(m, cpi, Moved(held, Outside, vault_ata, amount),
                                 -amount)
         /\ Sends(m, cpi, -amount)
         /\ Served(m, vault_ata = Own(m) /\ cpi # "other")
  BY DEF PaidIn
<1> DEFINE h        == Moved(held, Outside, vault_ata, amount)
           properly == vault_ata = Own(m) /\ cpi # "other"
<1>2. VaultTypeOK /\ held \in [Purses -> Int]
  BY TokensAssumption DEF VaultsAgree, VaultTypeOK
<1>3. /\ h \in [Purses -> Int]
      /\ OthersGain(m, h, held)
      /\ vault_ata = Own(m) => h[Own(m)] = held[Own(m)] + amount
  <2>1. /\ Own(m) \in Purses /\ Own(m) # Outside /\ held[Own(m)] \in Int
    BY <1>2, OwnPurse
  <2>2. OthersGain(m, h, held)
    BY <1>2, MovedGain
  <2>3. h \in [Purses -> Int]
    BY <1>2, MovedTypes
  <2>4. ASSUME vault_ata = Own(m)
        PROVE  h[Own(m)] = held[Own(m)] + amount
    BY <1>2, <2>1, <2>4, MovedTypes
  <2> QED
    BY <2>2, <2>3, <2>4
<1> HIDE DEF h
<1>4. -amount \in Int
  OBVIOUS
<1>5. /\ held' \in [Purses -> 0..MaxTokens]
      /\ OthersGain(m, held', h)
      /\ cpi = "none" => held'[Own(m)] = h[Own(m)]
      /\ cpi = "marginfi" => held'[Own(m)] = h[Own(m)] + (-amount)
      /\ cpi # "other" => cpi = "none" \/ cpi = "marginfi"
  BY <1>1, <1>3, <1>4, DispatchTypes DEF h
<1>6. /\ sent' \in [Mints -> Int]
      /\ \A n \in Mints : n # m => sent'[n] = sent[n]
      /\ cpi = "marginfi" /\ m \notin astray
           => sent'[m] = sent[m] - (-amount)
      /\ cpi = "none" => sent'[m] = sent[m]
  BY <1>1, <1>2, <1>4, SendsTypes
<1>7. ASSUME properly, m \notin astray
      PROVE  vaultValue'[m] - vaultValue[m]
               = (held'[Own(m)] - held[Own(m)]) + (sent'[m] - sent[m])
                   + (liquidationPaid'[m] - liquidationPaid[m])
  <2>1. /\ vaultValue[m] \in Int /\ liquidationPaid[m] \in Int
        /\ held[Own(m)] \in Int /\ sent[m] \in Int
    BY <1>2, OwnPurse DEF VaultTypeOK, VaultsAgree, BooksAgree, TypeOK
  <2>2. /\ vaultValue'[m] = vaultValue[m] + amount
        /\ liquidationPaid'[m] = liquidationPaid[m]
        /\ h[Own(m)] = held[Own(m)] + amount
    BY <1>3, <1>7
  <2>3. CASE cpi = "none"
    BY <1>5, <1>6, <2>1, <2>2, <2>3
  <2>4. CASE cpi = "marginfi"
    BY <1>5, <1>6, <1>7, <2>1, <2>2, <2>4
  <2> QED
    BY <1>5, <1>7, <2>3, <2>4
<1>8. properly \in BOOLEAN
  OBVIOUS
<1>9. Served(m, properly)
  BY <1>1
<1>10. OthersGain(m, held', held)
  <2>1. held' \in [Purses -> Int]
    BY <1>5, TokensAssumption
  <2> QED
    BY <1>2, <1>3, <1>5, <2>1, GainsAddUp
<1> HIDE DEF properly
<1> QED
  BY <1>5, <1>6, <1>7, <1>8, <1>9, <1>10, ServiceKeepsCustody

\* What a payment out of the vault's own account leaves in it.
LEMMA PayoutMoves ==
    ASSUME NEW m \in Mints, NEW h \in [Purses -> Int], NEW amount \in Int,
           NEW vault_ata, NEW user_ata, PaysFromOwn(m, vault_ata, user_ata)
    PROVE  Moved(h, vault_ata, user_ata, amount)[Own(m)] = h[Own(m)] - amount
<1>1. Own(m) \in Purses /\ h[Own(m)] \in Int
  BY OwnPurse
<1>2. vault_ata = Own(m) /\ user_ata # Own(m)
  BY DEF PaysFromOwn
<1> QED
  BY <1>1, <1>2, MovedTypes

\* A payment out of the vault, with what MarginFi gave back for it, if anything.
LEMMA PayoutKeepsCustody ==
    ASSUME VaultsAgree, TypeOK', NEW m \in Mints, NEW amount \in Nat,
           NEW refill \in Int, NEW properly \in BOOLEAN,
           held' \in [Purses -> 0..MaxTokens],
           sent' \in [Mints -> Int], Served(m, properly),
           OthersGain(m, held', held),
           \A n \in Mints : n # m => /\ vaultValue'[n] = vaultValue[n]
                                     /\ liquidationPaid'[n] = liquidationPaid[n]
                                     /\ sent'[n] = sent[n],
           properly => held'[Own(m)] = (held[Own(m)] - amount) + refill,
           properly /\ m \notin astray => sent'[m] = sent[m] - refill,
           vaultValue'[m] - vaultValue[m]
             = (liquidationPaid'[m] - liquidationPaid[m]) - amount
    PROVE  VaultTypeOK' /\ Custody'
<1>1. VaultTypeOK /\ held \in [Purses -> Int]
  BY TokensAssumption DEF VaultsAgree, VaultTypeOK
<1>2. ASSUME properly, m \notin astray
      PROVE  vaultValue'[m] - vaultValue[m]
               = (held'[Own(m)] - held[Own(m)]) + (sent'[m] - sent[m])
                   + (liquidationPaid'[m] - liquidationPaid[m])
  <2>1. /\ vaultValue[m] \in Int /\ liquidationPaid[m] \in Int
        /\ vaultValue'[m] \in Int /\ liquidationPaid'[m] \in Int
        /\ held[Own(m)] \in Int /\ sent[m] \in Int
    BY <1>1, OwnPurse DEF VaultTypeOK, VaultsAgree, BooksAgree, TypeOK
  <2>2. /\ held'[Own(m)] = (held[Own(m)] - amount) + refill
        /\ sent'[m] = sent[m] - refill
    BY <1>2
  <2> QED
    BY <2>1, <2>2
<1> QED
  BY <1>2, ServiceKeepsCustody

\* A payment that the token program makes leaves no account below zero.
LEMMA CanPayMoves ==
    ASSUME NEW m \in Mints, NEW h \in [Purses -> 0..MaxTokens],
           NEW amount \in Nat, NEW vault_ata, NEW user_ata,
           CanPay(h, m, vault_ata, user_ata, amount),
           held' = Moved(h, vault_ata, user_ata, amount),
           NEW properly, Served(m, properly)
    PROVE  held' \in [Purses -> 0..MaxTokens]
<1>1. h \in [Purses -> Int] /\ \A p \in Purses : h[p] >= 0
  BY TokensAssumption
<1>2. h[vault_ata] >= amount /\ vault_ata \in Purses
  BY DEF CanPay
<1>3. ASSUME NEW p \in Purses
      PROVE  held'[p] \in 0..MaxTokens
  <2>1. held'[p] = h[p] - (IF p = vault_ata THEN amount ELSE 0)
                     + (IF p = user_ata THEN amount ELSE 0)
    BY <1>1, MovedTypes
  <2>2. h[p] \in Int /\ h[p] >= 0 /\ (p = vault_ata => h[p] >= amount)
    BY <1>1, <1>2
  <2>3. held'[p] \in Int /\ held'[p] >= 0
    BY <2>1, <2>2
  <2>4. held'[p] <= MaxTokens
    BY DEF Served, Given
  <2> QED
    BY <2>3, <2>4, TokensAssumption
<1>4. held' = [p \in Purses |-> held'[p]]
  BY DEF Moved
<1> QED
  BY <1>3, <1>4

LEMMA DepositKeepsVaults ==
    ASSUME MaxDeposits < U64, VaultsAgree, NEW u \in Users, NEW m \in Mints,
           NEW amount \in Nat, handle_deposit(u, m, amount)
    PROVE  VaultsAgree'
<1>1. BooksAgree /\ Deposit(u, m, amount) /\ PaidIn(m, amount)
  BY DEF VaultsAgree, handle_deposit
<1>2. /\ BooksAgree'
      /\ \A n \in Mints :
            vaultValue'[n] = IF n = m THEN vaultValue[n] + amount
                             ELSE vaultValue[n]
  BY <1>1, DepositKeepsBooks
<1>3. TypeOK' /\ liquidationPaid' = liquidationPaid
  BY <1>1, <1>2 DEF BooksAgree, Deposit, history
<1> QED
  BY <1>1, <1>2, <1>3, PaymentKeepsCustody DEF VaultsAgree

LEMMA RepayKeepsVaults ==
    ASSUME MaxDeposits < U64, VaultsAgree, NEW u \in Users, NEW m \in Mints,
           NEW amount \in Nat, handle_repay(u, m, amount)
    PROVE  VaultsAgree'
<1>1. BooksAgree /\ Repay(u, m, amount) /\ PaidIn(m, amount)
  BY DEF VaultsAgree, handle_repay
<1>2. /\ BooksAgree'
      /\ \A n \in Mints :
            vaultValue'[n] = IF n = m THEN vaultValue[n] + amount
                             ELSE vaultValue[n]
  BY <1>1, RepayKeepsBooks
<1>3. TypeOK' /\ liquidationPaid' = liquidationPaid
  BY <1>1, <1>2 DEF BooksAgree, Repay, history
<1> QED
  BY <1>1, <1>2, <1>3, PaymentKeepsCustody DEF VaultsAgree

LEMMA WithdrawKeepsVaults ==
    ASSUME MaxDeposits < U64, VaultsAgree, NEW u \in Users, NEW m \in Mints,
           NEW shares \in Nat, handle_withdraw(u, m, shares)
    PROVE  VaultsAgree'
<1> DEFINE amount == Redeemed(m, shares)
<1>1. BooksAgree /\ Withdraw(u, m, shares)
  BY DEF VaultsAgree, handle_withdraw
<1>2. /\ BooksAgree' /\ amount \in Nat
      /\ \A n \in Mints :
            vaultValue'[n] = IF n = m THEN vaultValue[n] - amount
                             ELSE vaultValue[n]
  BY <1>1, WithdrawKeepsBooks
<1>3. /\ TypeOK /\ TypeOK' /\ liquidationPaid' = liquidationPaid
      /\ VaultTypeOK /\ held \in [Purses -> Int]
  BY <1>1, <1>2, TokensAssumption
  DEF BooksAgree, Withdraw, history, VaultsAgree, VaultTypeOK
<1>4. PICK vault_ata \in TokenAccounts, user_ata \in TokenAccounts,
           cpi \in CpiChoices :
         /\ \E h \in Dispatched(m, cpi, held, amount) :
               /\ CanPay(h, m, vault_ata, user_ata, amount)
               /\ held' = Moved(h, vault_ata, user_ata, amount)
         /\ Sends(m, cpi, amount)
         /\ Served(m, PaysFromOwn(m, vault_ata, user_ata) /\ cpi # "other")
  BY DEF handle_withdraw
<1> HIDE DEF amount
<1> DEFINE properly == PaysFromOwn(m, vault_ata, user_ata) /\ cpi # "other"
           refill   == IF cpi = "marginfi" THEN amount ELSE 0
<1>5. PICK h \in Dispatched(m, cpi, held, amount) :
         /\ CanPay(h, m, vault_ata, user_ata, amount)
         /\ held' = Moved(h, vault_ata, user_ata, amount)
  BY <1>4
<1>6. /\ h \in [Purses -> 0..MaxTokens]
      /\ OthersGain(m, h, held)
      /\ cpi = "none" => h[Own(m)] = held[Own(m)]
      /\ cpi = "marginfi" => h[Own(m)] = held[Own(m)] + amount
      /\ cpi # "other" => cpi = "none" \/ cpi = "marginfi"
  BY <1>2, <1>3, DispatchTypes
<1>7. /\ sent' \in [Mints -> Int]
      /\ \A n \in Mints : n # m => sent'[n] = sent[n]
      /\ cpi = "marginfi" /\ m \notin astray => sent'[m] = sent[m] - amount
      /\ cpi = "none" => sent'[m] = sent[m]
  BY <1>2, <1>3, <1>4, SendsTypes
<1>8. held' \in [Purses -> 0..MaxTokens]
  BY <1>2, <1>4, <1>5, <1>6, CanPayMoves
<1>9. refill \in Int /\ properly \in BOOLEAN
  BY <1>2
<1>10. Served(m, properly)
  BY <1>4
<1>11. ASSUME properly
       PROVE  held'[Own(m)] = (held[Own(m)] - amount) + refill
  <2>1. h \in [Purses -> Int]
    BY <1>6, TokensAssumption
  <2>2. held'[Own(m)] = h[Own(m)] - amount
    BY <1>2, <1>5, <1>11, <2>1, PayoutMoves
  <2>3. held[Own(m)] \in Int
    BY <1>3, OwnPurse
  <2> QED
    BY <1>2, <1>6, <1>11, <2>2, <2>3
<1>12. ASSUME properly, m \notin astray
       PROVE  sent'[m] = sent[m] - refill
  <2>1. sent[m] \in Int
    BY <1>3 DEF VaultTypeOK
  <2> QED
    BY <1>6, <1>7, <1>12, <2>1
<1>13. vaultValue'[m] - vaultValue[m]
         = (liquidationPaid'[m] - liquidationPaid[m]) - amount
  BY <1>2, <1>3 DEF TypeOK
<1>14. OthersGain(m, held', held)
  <2>1. h \in [Purses -> Int] /\ held' \in [Purses -> Int]
    BY <1>6, <1>8, TokensAssumption
  <2>2. OthersGain(m, held', h)
    BY <1>2, <1>5, <2>1, MovedGain DEF CanPay
  <2> QED
    BY <1>3, <1>6, <2>1, <2>2, GainsAddUp
<1> HIDE DEF properly, refill
<1>15. VaultTypeOK' /\ Custody'
  BY <1>2, <1>3, <1>7, <1>8, <1>9, <1>10, <1>11, <1>12, <1>13, <1>14,
     PayoutKeepsCustody
<1> QED
  BY <1>2, <1>15 DEF VaultsAgree

LEMMA BorrowKeepsVaults ==
    ASSUME MaxDeposits < U64, VaultsAgree, NEW u \in Users, NEW m \in Mints,
           NEW amount \in Nat, handle_borrow(u, m, amount)
    PROVE  VaultsAgree'
<1>1. BooksAgree /\ Borrow(u, m, amount)
  BY DEF VaultsAgree, handle_borrow
<1>2. /\ BooksAgree'
      /\ \A n \in Mints :
            vaultValue'[n] = IF n = m THEN vaultValue[n] - amount
                             ELSE vaultValue[n]
  BY <1>1, BorrowKeepsBooks
<1>3. /\ TypeOK /\ TypeOK' /\ liquidationPaid' = liquidationPaid
      /\ VaultTypeOK /\ held \in [Purses -> Int]
  BY <1>1, <1>2, TokensAssumption
  DEF BooksAgree, Borrow, history, VaultsAgree, VaultTypeOK
<1>4. PICK vault_ata \in TokenAccounts, user_ata \in TokenAccounts,
           cpi \in CpiChoices :
         /\ CanPay(held, m, vault_ata, user_ata, amount)
         /\ held' \in Dispatched(m, cpi,
                                 Moved(held, vault_ata, user_ata, amount), amount)
         /\ Sends(m, cpi, amount)
         /\ Served(m, PaysFromOwn(m, vault_ata, user_ata) /\ cpi # "other")
  BY DEF handle_borrow
<1> DEFINE h        == Moved(held, vault_ata, user_ata, amount)
           properly == PaysFromOwn(m, vault_ata, user_ata) /\ cpi # "other"
           refill   == IF cpi = "marginfi" THEN amount ELSE 0
<1>5. h \in [Purses -> Int] /\ OthersGain(m, h, held)
  BY <1>3, <1>4, MovedTypes, MovedGain DEF CanPay
<1>6. /\ held' \in [Purses -> 0..MaxTokens]
      /\ OthersGain(m, held', h)
      /\ cpi = "none" => held'[Own(m)] = h[Own(m)]
      /\ cpi = "marginfi" => held'[Own(m)] = h[Own(m)] + amount
      /\ cpi # "other" => cpi = "none" \/ cpi = "marginfi"
  <2> HIDE DEF h
  <2> QED
    BY <1>4, <1>5, DispatchTypes DEF h
<1>7. /\ sent' \in [Mints -> Int]
      /\ \A n \in Mints : n # m => sent'[n] = sent[n]
      /\ cpi = "marginfi" /\ m \notin astray => sent'[m] = sent[m] - amount
      /\ cpi = "none" => sent'[m] = sent[m]
  BY <1>3, <1>4, SendsTypes
<1>8. refill \in Int /\ properly \in BOOLEAN /\ Served(m, properly)
  BY <1>4
<1>9. ASSUME properly
      PROVE  held'[Own(m)] = (held[Own(m)] - amount) + refill
  <2>1. held[Own(m)] \in Int
    BY <1>3, OwnPurse
  <2>2. h[Own(m)] = held[Own(m)] - amount
    BY <1>3, <1>9, PayoutMoves
  <2> HIDE DEF h
  <2> QED
    BY <1>6, <1>9, <2>1, <2>2
<1>10. ASSUME properly, m \notin astray
       PROVE  sent'[m] = sent[m] - refill
  <2>1. sent[m] \in Int
    BY <1>3 DEF VaultTypeOK
  <2> QED
    BY <1>6, <1>7, <1>10, <2>1
<1>11. vaultValue'[m] - vaultValue[m]
         = (liquidationPaid'[m] - liquidationPaid[m]) - amount
  BY <1>2, <1>3 DEF TypeOK
<1> HIDE DEF h, properly, refill
<1>12. OthersGain(m, held', held)
  <2>1. held' \in [Purses -> Int]
    BY <1>6, TokensAssumption
  <2> QED
    BY <1>3, <1>5, <1>6, <2>1, GainsAddUp
<1>13. VaultTypeOK' /\ Custody'
  BY <1>2, <1>3, <1>6, <1>7, <1>8, <1>9, <1>10, <1>11, <1>12,
     PayoutKeepsCustody
<1> QED
  BY <1>2, <1>13 DEF VaultsAgree

LEMMA LiquidateKeepsVaults ==
    ASSUME MaxDeposits < U64, VaultsAgree, NEW u \in Users, NEW c \in Mints,
           NEW b \in Mints, NEW maxRepay \in Nat,
           handle_liquidate(u, c, b, maxRepay)
    PROVE  VaultsAgree'
<1> DEFINE repay == Repaid(u, b, maxRepay)
<1>1. BooksAgree /\ Liquidate(u, c, b, maxRepay)
  BY DEF VaultsAgree, handle_liquidate
<1>2. BooksAgree' /\ repay \in Nat
  BY <1>1, LiquidateKeepsBooks
<1>3. /\ UNCHANGED <<vaultValue, sent>>
      /\ liquidationPaid' = [liquidationPaid EXCEPT ![b] = @ + repay]
  BY <1>1 DEF Liquidate, handle_liquidate
<1>4. /\ TypeOK /\ TypeOK'
      /\ VaultTypeOK /\ held \in [Purses -> Int] /\ sent \in [Mints -> Int]
  BY <1>1, <1>2, TokensAssumption DEF BooksAgree, VaultsAgree, VaultTypeOK
<1>5. PICK borrow_vault_ata \in TokenAccounts,
           liquidator_ata \in TokenAccounts :
         /\ CanPay(held, b, borrow_vault_ata, liquidator_ata, repay)
         /\ held' = Moved(held, borrow_vault_ata, liquidator_ata, repay)
         /\ Served(b, PaysFromOwn(b, borrow_vault_ata, liquidator_ata))
  BY DEF handle_liquidate
<1> HIDE DEF repay
<1> DEFINE properly == PaysFromOwn(b, borrow_vault_ata, liquidator_ata)
<1>6. held' \in [Purses -> 0..MaxTokens]
  BY <1>2, <1>4, <1>5, CanPayMoves DEF VaultTypeOK
<1>7. properly => held'[Own(b)] = (held[Own(b)] - repay) + 0
  <2>1. held[Own(b)] \in Int
    BY <1>4, OwnPurse
  <2> QED
    BY <1>2, <1>4, <1>5, <2>1, PayoutMoves
<1>8. sent'[b] = sent[b] - 0
  BY <1>3, <1>4
<1>9. \A n \in Mints : n # b => /\ vaultValue'[n] = vaultValue[n]
                                 /\ liquidationPaid'[n] = liquidationPaid[n]
                                 /\ sent'[n] = sent[n]
  BY <1>3, <1>4 DEF TypeOK
<1>10. vaultValue'[b] - vaultValue[b]
         = (liquidationPaid'[b] - liquidationPaid[b]) - repay
  BY <1>2, <1>3, <1>4 DEF TypeOK
<1>11. properly \in BOOLEAN /\ Served(b, properly)
  BY <1>5 DEF PaysFromOwn
<1> HIDE DEF properly
<1>12. OthersGain(b, held', held)
  BY <1>2, <1>4, <1>5, MovedGain DEF CanPay
<1>13. VaultTypeOK' /\ Custody'
  BY <1>2, <1>3, <1>4, <1>6, <1>7, <1>8, <1>9, <1>10, <1>11, <1>12,
     PayoutKeepsCustody
<1> QED
  BY <1>2, <1>13 DEF VaultsAgree

\* Tokens that come or go by themselves are gifts to a vault that never named
\* or called what is not its own.
LEMMA TokensKeepVaults ==
    ASSUME MaxDeposits < U64, VaultsAgree, TokensMove
    PROVE  VaultsAgree'
<1>1. /\ BooksAgree' /\ TypeOK /\ UNCHANGED <<vars, sent, astray>>
      /\ VaultTypeOK /\ held \in [Purses -> Int] /\ Given({})
  BY NextKeepsBooks, TokensAssumption
  DEF TokensMove, VaultsAgree, BooksAgree, VaultTypeOK
<1>2. UNCHANGED <<vaultValue, liquidationPaid>>
  BY <1>1 DEF vars, history
<1>3. held' \in [Purses -> 0..MaxTokens]
  <2>1. PICK p \in Purses :
               \/ held' = [held EXCEPT ![p] = @ + 1]
               \/ held[p] > 0 /\ held' = [held EXCEPT ![p] = @ - 1]
    BY DEF TokensMove
  <2>2. \A q \in Purses : held[q] \in 0..MaxTokens /\ held'[q] <= MaxTokens
    BY <1>1 DEF Given, VaultTypeOK
  <2>3. held' \in [Purses -> Int] /\ \A q \in Purses : held'[q] >= 0
    BY <1>1, <2>1, <2>2, TokensAssumption
  <2>4. \A q \in Purses : held'[q] \in 0..MaxTokens
    BY <2>2, <2>3, TokensAssumption
  <2> QED
    BY <2>3, <2>4
<1>4. \A n \in Mints :
         /\ held[Own(n)] \in Int /\ held'[Own(n)] \in Int
         /\ gifts'[n] = IF n \in astray THEN gifts[n]
                        ELSE gifts[n] + held'[Own(n)] - held[Own(n)]
  BY <1>1, <1>3, OwnPurse, TokensAssumption DEF Given
<1>5. gifts' \in [Mints -> Int]
  <2>1. gifts' = [n \in Mints |->
                   IF n \in {} \cup astray THEN gifts[n]
                   ELSE gifts[n] + held'[Own(n)] - held[Own(n)]]
    BY <1>1 DEF Given
  <2>2. gifts \in [Mints -> Int]
    BY <1>1 DEF VaultTypeOK
  <2> QED
    BY <1>4, <2>1, <2>2
<1>6. VaultTypeOK'
  BY <1>1, <1>3, <1>5 DEF VaultTypeOK
<1>7. ASSUME NEW n \in Mints, n \notin astray
      PROVE  /\ gifts'[n] >= 0
             /\ vaultValue'[n] + gifts'[n]
                  = held'[Own(n)] + sent'[n] + liquidationPaid'[n]
  <2>1. /\ gifts[n] >= 0
        /\ vaultValue[n] + gifts[n]
             = held[Own(n)] + sent[n] + liquidationPaid[n]
    BY <1>7 DEF VaultsAgree, Custody
  <2>2. /\ vaultValue[n] \in Int /\ gifts[n] \in Int
        /\ sent[n] \in Int /\ liquidationPaid[n] \in Int
    BY <1>1 DEF TypeOK, VaultTypeOK
  <2>3. gifts'[n] = gifts[n] + held'[Own(n)] - held[Own(n)]
    BY <1>4, <1>7
  <2>4. /\ vaultValue'[n] = vaultValue[n] /\ sent'[n] = sent[n]
        /\ liquidationPaid'[n] = liquidationPaid[n]
    BY <1>1, <1>2
  <2>5. held[Own(n)] \in Int /\ held'[Own(n)] \in Int
    BY <1>4
  <2>6. held'[Own(n)] >= held[Own(n)]
    <3>1. Own(n) \in Purses /\ Own(n)[1] \notin astray
      BY <1>7, OwnPurse DEF Own
    <3>2. PICK p \in Purses :
                 \/ held' = [held EXCEPT ![p] = @ + 1]
                 \/ p[1] \in astray /\ held' = [held EXCEPT ![p] = @ - 1]
      BY DEF TokensMove
    <3> QED
      BY <1>1, <2>5, <3>1, <3>2
  <2> QED
    BY <2>1, <2>2, <2>3, <2>4, <2>5, <2>6
<1>8. Custody'
  BY <1>1, <1>7 DEF Custody
<1> QED
  BY <1>1, <1>6, <1>8 DEF VaultsAgree

LEMMA IdleKeepsVaults ==
    ASSUME VaultsAgree, BooksAgree',
           UNCHANGED <<vaultValue, liquidationPaid, vaultVars>>
    PROVE  VaultsAgree'
BY DEF VaultsAgree, VaultTypeOK, Custody, vaultVars

LEMMA NextKeepsVaults ==
    ASSUME MaxDeposits < U64, VaultsAgree, [VaultNext]_<<vars, vaultVars>>
    PROVE  VaultsAgree'
<1> USE AmountsAssumption
<1>1. ASSUME NEW u \in Users, NEW m \in Mints, NEW amount \in Amounts,
             \/ handle_deposit(u, m, amount)
             \/ handle_borrow(u, m, amount)
             \/ handle_repay(u, m, amount)
      PROVE  VaultsAgree'
  BY <1>1, DepositKeepsVaults, BorrowKeepsVaults, RepayKeepsVaults
<1>2. ASSUME NEW u \in Users, NEW m \in Mints, NEW shares \in ShareAmounts,
             handle_withdraw(u, m, shares)
      PROVE  VaultsAgree'
  BY <1>2, WithdrawKeepsVaults
<1>3. ASSUME NEW u \in Users, NEW c \in Mints, NEW b \in Mints,
             NEW maxRepay \in Amounts, handle_liquidate(u, c, b, maxRepay)
      PROVE  VaultsAgree'
  BY <1>3, LiquidateKeepsVaults
<1>4. ASSUME [Next]_vars, UNCHANGED <<vaultValue, liquidationPaid, vaultVars>>
      PROVE  VaultsAgree'
  BY <1>4, NextKeepsBooks, IdleKeepsVaults DEF VaultsAgree
<1>5. ASSUME NEW value \in BOOLEAN, SetPaused(value), UNCHANGED vaultVars
      PROVE  VaultsAgree'
  BY <1>4, <1>5 DEF Next, SetPaused, history
<1>6. CASE CollectFees /\ UNCHANGED vaultVars
  BY <1>4, <1>6 DEF Next, CollectFees, history
<1>7. CASE TokensMove
  BY <1>7, TokensKeepVaults
<1>8. CASE UNCHANGED <<vars, vaultVars>>
  BY <1>4, <1>8 DEF vars, history
<1> QED
  BY <1>1, <1>2, <1>3, <1>5, <1>6, <1>7, <1>8 DEF VaultNext

LEMMA VaultsAgreeAtFirst == Init /\ VaultInit => VaultsAgree
<1> SUFFICES ASSUME Init, VaultInit
             PROVE  VaultsAgree
  OBVIOUS
<1>1. BooksAgree
  BY BooksAgreeAtFirst
<1>2. VaultTypeOK
  BY TokensAssumption DEF VaultInit, VaultTypeOK
<1>3. Custody
  BY OwnPurse DEF Init, VaultInit, Custody
<1> QED
  BY <1>1, <1>2, <1>3 DEF VaultsAgree

\* What a vault claims and was given it has, at home or at MarginFi, or has
\* paid to liquidators, as long as its own transactions named its own accounts:
\* no other vault's transaction, whatever accounts and programs it names, and
\* no rounding of deposit, withdraw, borrow or repay parts books and tokens.
THEOREM CustodyAlways ==
    ASSUME MaxDeposits < U64
    PROVE  VaultSpec => []Custody
<1>1. Init /\ VaultInit => VaultsAgree
  BY VaultsAgreeAtFirst
<1>2. VaultsAgree /\ [VaultNext]_<<vars, vaultVars>> => VaultsAgree'
  BY NextKeepsVaults
<1>3. VaultsAgree => Custody
  BY DEF VaultsAgree
<1> QED
  BY <1>1, <1>2, <1>3, PTL DEF VaultSpec

-----------------------------------------------------------------------------
(* What a fetch of the dashboard adds up. *)

FetchRecord ==
    [who : Users \cup {None}, step : Nat, gds : Nat, tbv : Nat,
     found : BOOLEAN, shares : Nat, tvl : Nat, power : Nat, borrowed : Nat]

\* The protocol state that a fetch holds is of one moment, and at every moment
\* a token of debt is worth the same number of shares.
FetchesAgree ==
    /\ walletPk \in Users \cup {None}
    /\ fetches \in [1..MaxFetches -> FetchRecord]
    /\ \A i \in 1..MaxFetches :
          /\ fetches[i] # Idle => fetches[i].who \in Users
          /\ fetches[i].gds = SHARE_MULTIPLIER * fetches[i].tbv

\* The page converts as the program does, but for the cut to 64 bits.
LEMMA PageConversion ==
    ASSUME NEW x \in Nat, NEW shares \in Nat, NEW value \in Nat
    PROVE  sharesToAmount(x, shares, value) \in Nat
<1>1. x * value \in Nat
  OBVIOUS
<1>2. CASE shares = 0
  BY <1>2 DEF sharesToAmount
<1>3. CASE shares # 0
  BY <1>1, <1>3, QuotientBound DEF sharesToAmount
<1> QED
  BY <1>2, <1>3

LEMMA FetchesAgreeAtFirst == DashInit => FetchesAgree
<1> SUFFICES ASSUME DashInit
             PROVE  FetchesAgree
  OBVIOUS
<1>1. Idle \in FetchRecord
  BY DEF Idle, FetchRecord
<1>2. Idle.gds = SHARE_MULTIPLIER * Idle.tbv
  BY MultiplierAssumption DEF Idle
<1> QED
  BY <1>1, <1>2 DEF DashInit, FetchesAgree

LEMMA OneFetchMoves ==
    ASSUME FetchesAgree, NEW i \in 1..MaxFetches, NEW g \in FetchRecord,
           fetches' = [fetches EXCEPT ![i] = g], walletPk' = walletPk,
           g # Idle => g.who \in Users,
           g.gds = SHARE_MULTIPLIER * g.tbv
    PROVE  FetchesAgree'
<1>1. fetches' \in [1..MaxFetches -> FetchRecord]
  BY DEF FetchesAgree
<1>2. ASSUME NEW j \in 1..MaxFetches
      PROVE  /\ fetches'[j] # Idle => fetches'[j].who \in Users
             /\ fetches'[j].gds = SHARE_MULTIPLIER * fetches'[j].tbv
  <2>1. CASE j = i
    BY <2>1 DEF FetchesAgree
  <2>2. CASE j # i
    BY <2>2 DEF FetchesAgree
  <2> QED
    BY <2>1, <2>2
<1> QED
  BY <1>1, <1>2 DEF FetchesAgree

\* Each read of a fetch keeps the agreement.
LEMMA ReadsKeepFetches ==
    ASSUME BooksAgree, FetchesAgree, NEW i \in 1..MaxFetches, FetchStep(i)
    PROVE  FetchesAgree'
<1> DEFINE f == fetches[i]
<1>1. /\ f \in FetchRecord /\ f.who \in Users
      /\ f.gds = SHARE_MULTIPLIER * f.tbv
  BY DEF FetchesAgree, FetchStep
<1>2. /\ TypeOK
      /\ globalDebtShares = SHARE_MULTIPLIER * totalBorrows
      /\ globalDebtShares \in Nat /\ totalBorrows \in Nat
  BY DEF BooksAgree, DebtIndex, TypeOK
<1>3. \A m \in Mints :
         /\ collateral[<<f.who, m>>] \in Nat /\ debt[<<f.who, m>>] \in Nat
         /\ vaultShares[m] \in Nat /\ vaultValue[m] \in Nat
  BY <1>1, <1>2 DEF TypeOK, Positions
<1>4. /\ f.step \in Nat
      /\ Collaterals \in Nat /\ Len(SUPPORTED_LOANS) \in Nat
      /\ \A j \in 1..Collaterals : SUPPORTED_COLLATERALS[j] \in Mints
      /\ \A j \in 1..Len(SUPPORTED_LOANS) : SUPPORTED_LOANS[j] \in Mints
  BY <1>1, DashboardAssumption DEF FetchRecord, Collaterals
<1>5. /\ f.shares \in Nat /\ f.tvl \in Nat /\ f.power \in Nat
       /\ f.borrowed \in Nat
  BY <1>1 DEF FetchRecord
<1>6. CASE ReadProtocolState(i)
  <2>1. PICK answered \in BOOLEAN :
               fetches' = [fetches EXCEPT ![i] =
                 [fetches[i] EXCEPT
                     !.step = 1, !.found = answered,
                     !.gds = IF answered THEN globalDebtShares ELSE 0,
                     !.tbv = IF answered THEN totalBorrows ELSE 0]]
    BY <1>6 DEF ReadProtocolState
  <2> DEFINE g == [f EXCEPT !.step = 1, !.found = answered,
                      !.gds = IF answered THEN globalDebtShares ELSE 0,
                      !.tbv = IF answered THEN totalBorrows ELSE 0]
  <2>2. g \in FetchRecord /\ g.who = f.who
    BY <1>1, <1>2 DEF FetchRecord
  <2>3. g.gds = SHARE_MULTIPLIER * g.tbv
    BY <1>1, <1>2, MultiplierAssumption DEF FetchRecord
  <2>4. fetches' = [fetches EXCEPT ![i] = g] /\ walletPk' = walletPk
    BY <1>6, <2>1 DEF ReadProtocolState
  <2> HIDE DEF g
  <2> QED
    BY <1>1, <2>2, <2>3, <2>4, OneFetchMoves
<1>7. CASE ReadCollateral(i)
  <2> DEFINE c == SUPPORTED_COLLATERALS[(f.step + 1) \div 2]
  <2>1. c \in Mints
    <3>1. f.step \in 1..(2 * Collaterals)
      BY <1>7 DEF ReadCollateral
    <3>2. (f.step + 1) \div 2 \in 1..Collaterals
      BY <1>4, <3>1
    <3> QED
      BY <1>4, <3>2
  <2>2. PICK shares \in {0, collateral[<<f.who, c>>]} :
               fetches' = [fetches EXCEPT ![i] =
                  [f EXCEPT !.shares = shares,
                            !.step = IF shares > 0 THEN @ + 1 ELSE @ + 2]]
    BY <1>7 DEF ReadCollateral
  <2>3. shares \in Nat
    BY <1>3, <2>1
  <2> DEFINE g == [f EXCEPT !.shares = shares,
                            !.step = IF shares > 0 THEN @ + 1 ELSE @ + 2]
  <2> DEFINE step == IF shares > 0 THEN f.step + 1 ELSE f.step + 2
  <2>4. step \in Nat
    BY <1>4
  <2>5. g = [f EXCEPT !.shares = shares, !.step = step]
    OBVIOUS
  <2> HIDE DEF step, g
  <2>6. /\ g \in FetchRecord
        /\ g.who = f.who /\ g.gds = f.gds /\ g.tbv = f.tbv
    BY <1>1, <2>3, <2>4, <2>5 DEF FetchRecord
  <2>7. fetches' = [fetches EXCEPT ![i] = g] /\ walletPk' = walletPk
    BY <1>7, <2>2 DEF ReadCollateral, g
  <2> QED
    BY <1>1, <2>6, <2>7, OneFetchMoves
<1>8. CASE ReadVaultAccount(i)
  <2> DEFINE c == SUPPORTED_COLLATERALS[f.step \div 2]
  <2>1. c \in Mints
    <3>1. f.step \in 1..(2 * Collaterals) /\ f.step % 2 = 0
      BY <1>8 DEF ReadVaultAccount
    <3>2. f.step \div 2 \in 1..Collaterals
      BY <1>4, <3>1
    <3> QED
      BY <1>4, <3>2
  <2>2. PICK amount \in {f.shares, sharesToAmount(f.shares, vaultShares[c],
                                                  vaultValue[c])} :
               fetches' = [fetches EXCEPT ![i] =
                  [f EXCEPT !.step = @ + 1, !.shares = 0,
                            !.tvl = @ + amount * Price[c],
                            !.power = @ + amount * Price[c] * LtvPercent[c]]]
    BY <1>8 DEF ReadVaultAccount
  <2>3. amount \in Nat
    <3>1. f.shares \in Nat
      BY <1>1 DEF FetchRecord
    <3> QED
      BY <1>3, <2>1, <3>1, PageConversion
  <2>4. Price[c] \in Nat /\ LtvPercent[c] \in Nat
    <3>1. Price \in [Mints -> Nat] /\ LtvPercent \in [Mints -> 0..100]
      BY DashboardAssumption
    <3>2. LtvPercent[c] \in 0..100
      BY <2>1, <3>1
    <3> QED
      BY <2>1, <3>1, <3>2
  <2>5. amount * Price[c] \in Nat
    BY <2>3, <2>4
  <2>6. amount * Price[c] * LtvPercent[c] \in Nat
    BY <2>4, <2>5
  <2> DEFINE g == [f EXCEPT !.step = @ + 1, !.shares = 0,
                            !.tvl = @ + amount * Price[c],
                            !.power = @ + amount * Price[c] * LtvPercent[c]]
  <2>7. fetches' = [fetches EXCEPT ![i] = g] /\ walletPk' = walletPk
    BY <1>8, <2>2 DEF ReadVaultAccount
  <2> DEFINE step  == f.step + 1
             tvl   == f.tvl + amount * Price[c]
             power == f.power + amount * Price[c] * LtvPercent[c]
  <2>8. g = [f EXCEPT !.step = step, !.shares = 0, !.tvl = tvl, !.power = power]
    OBVIOUS
  <2>9. step \in Nat /\ tvl \in Nat /\ power \in Nat
    <3> DEFINE x == amount * Price[c]
               y == amount * Price[c] * LtvPercent[c]
    <3> HIDE DEF x, y
    <3>1. x \in Nat /\ y \in Nat
      BY <2>5, <2>6 DEF x, y
    <3>2. f.tvl + x \in Nat /\ f.power + y \in Nat
      BY <1>5, <3>1
    <3> QED
      BY <1>4, <3>2 DEF x, y
  <2> HIDE DEF g, step, tvl, power
  <2>10. /\ g \in FetchRecord
         /\ g.who = f.who /\ g.gds = f.gds /\ g.tbv = f.tbv
    BY <1>1, <2>8, <2>9 DEF FetchRecord
  <2> QED
    BY <1>1, <2>7, <2>10, OneFetchMoves
<1>9. CASE ReadLoan(i)
  <2> DEFINE m == SUPPORTED_LOANS[f.step - 2 * Collaterals]
  <2>1. m \in Mints
    <3>1. f.step \in (2 * Collaterals + 1)..(2 * Collaterals
                                               + Len(SUPPORTED_LOANS))
      BY <1>9 DEF ReadLoan, LastStep
    <3>2. f.step - 2 * Collaterals \in 1..Len(SUPPORTED_LOANS)
      BY <1>4, <3>1
    <3> QED
      BY <1>4, <3>2
  <2>2. PICK amount \in {0, LoanAmount(f, m)} :
               fetches' = [fetches EXCEPT ![i] =
                  [f EXCEPT !.step = @ + 1, !.borrowed = @ + amount]]
    BY <1>9 DEF ReadLoan
  <2>3. amount \in Nat
    <3>1. f.gds \in Nat /\ f.tbv \in Nat
      BY <1>1 DEF FetchRecord
    <3>2. LoanAmount(f, m) \in Nat
      BY <1>3, <2>1, <3>1, PageConversion DEF LoanAmount
    <3> QED
      BY <3>2
  <2> DEFINE g == [f EXCEPT !.step = @ + 1, !.borrowed = @ + amount]
  <2> DEFINE step     == f.step + 1
             borrowed == f.borrowed + amount
  <2>4. g = [f EXCEPT !.step = step, !.borrowed = borrowed]
    OBVIOUS
  <2>5. fetches' = [fetches EXCEPT ![i] = g] /\ walletPk' = walletPk
    BY <1>9, <2>2 DEF ReadLoan
  <2>6. step \in Nat /\ borrowed \in Nat
    BY <1>4, <1>5, <2>3
  <2> HIDE DEF g, step, borrowed
  <2>7. /\ g \in FetchRecord
        /\ g.who = f.who /\ g.gds = f.gds /\ g.tbv = f.tbv
    BY <1>1, <2>4, <2>6 DEF FetchRecord
  <2> QED
    BY <1>1, <2>5, <2>7, OneFetchMoves
<1>10. CASE Settle(i)
  <2>1. Idle \in FetchRecord /\ Idle.gds = SHARE_MULTIPLIER * Idle.tbv
    BY MultiplierAssumption DEF Idle, FetchRecord
  <2> QED
    BY <1>10, <2>1, OneFetchMoves DEF Settle
<1> QED
  BY <1>6, <1>7, <1>8, <1>9, <1>10 DEF FetchStep

LEMMA DashKeepsFetches ==
    ASSUME BooksAgree, FetchesAgree, [DashNext]_<<vars, dashVars>>
    PROVE  FetchesAgree'
<1>1. ASSUME NEW i \in 1..MaxFetches, FetchStep(i), UNCHANGED vars
      PROVE  FetchesAgree'
  BY <1>1, ReadsKeepFetches
<1>2. CASE Effect
  <2>1. CASE walletPk = None
    BY <1>2, <2>1 DEF Effect, FetchesAgree
  <2>2. CASE walletPk # None
    <3>1. PICK i \in 1..MaxFetches :
                 fetches' = [fetches EXCEPT ![i] = Fetch(walletPk)]
      BY <1>2, <2>2 DEF Effect
    <3>2. walletPk \in Users /\ walletPk' = walletPk
      BY <1>2, <2>2 DEF Effect, FetchesAgree
    <3>3. /\ Fetch(walletPk) \in FetchRecord
          /\ Fetch(walletPk).who = walletPk
          /\ Fetch(walletPk).gds = 0 /\ Fetch(walletPk).tbv = 0
      BY <3>2 DEF Fetch, Idle, FetchRecord
    <3> QED
      <4> DEFINE g == Fetch(walletPk)
      <4>1. g.gds = SHARE_MULTIPLIER * g.tbv
        BY <3>3, MultiplierAssumption
      <4> HIDE DEF g
      <4> QED
        BY <3>1, <3>2, <3>3, <4>1, OneFetchMoves DEF g
  <2> QED
    BY <2>1, <2>2
<1>3. ASSUME NEW w \in Users \cup {None}, Switch(w)
      PROVE  FetchesAgree'
  BY <1>3 DEF Switch, FetchesAgree
<1>4. CASE UNCHANGED dashVars
  BY <1>4 DEF dashVars, FetchesAgree
<1> QED
  BY <1>1, <1>2, <1>3, <1>4 DEF DashNext, Browse

LEMMA DashKeepsBooks ==
    ASSUME MaxDeposits < U64, BooksAgree, [DashNext]_<<vars, dashVars>>
    PROVE  BooksAgree'
BY NextKeepsBooks DEF DashNext, Browse, ActElsewhere

\* Tokens of debt at the price that every pool has.
LEMMA FixedPrice ==
    ASSUME NEW owed \in Nat, NEW tbv \in Nat \ {0}
    PROVE  sharesToAmount(SHARE_MULTIPLIER * owed, SHARE_MULTIPLIER * tbv, tbv)
             = owed
<1> DEFINE gds == SHARE_MULTIPLIER * tbv
<1>1. gds \in Nat \ {0}
  BY MultiplierAssumption
<1>2. (SHARE_MULTIPLIER * owed) * tbv = owed * gds
  BY MultiplierAssumption
<1>3. (owed * gds) \div gds = owed
  BY <1>1, DivideProduct
<1> QED
  BY <1>1, <1>2, <1>3 DEF sharesToAmount

\* The debt that a fetch adds was owed when its account was read, although it
\* is converted with totals of an earlier moment (page.tsx, LiidiaPage), and
\* any handler of the program, liquidate with its own rounding among them, may
\* have run in between.
THEOREM FetchedDebtAlwaysOwed ==
    ASSUME MaxDeposits < U64
    PROVE  DashSpec => FetchedDebtIsOwed
<1> DEFINE Added(i) == fetches'[i].borrowed - fetches[i].borrowed
           Loan(i)  == SUPPORTED_LOANS[fetches[i].step - 2 * Collaterals]
<1>1. Init => BooksAgree
  BY BooksAgreeAtFirst
<1>2. BooksAgree /\ FetchesAgree /\ [DashNext]_<<vars, dashVars>>
        => BooksAgree' /\ FetchesAgree'
  BY DashKeepsBooks, DashKeepsFetches
<1>3. BooksAgree /\ FetchesAgree /\ [DashNext]_<<vars, dashVars>>
        => [\A i \in 1..MaxFetches :
              fetches'[i].borrowed > fetches[i].borrowed =>
                  Added(i) = DebtAmount(fetches[i].who, Loan(i))
           ]_<<vars, dashVars>>
  <2> SUFFICES ASSUME BooksAgree, FetchesAgree, DashNext,
                      NEW i \in 1..MaxFetches,
                      fetches'[i].borrowed > fetches[i].borrowed
               PROVE  Added(i) = DebtAmount(fetches[i].who, Loan(i))
    OBVIOUS
  <2> DEFINE f == fetches[i]
             m == Loan(i)
  <2>1. f \in FetchRecord /\ f.gds = SHARE_MULTIPLIER * f.tbv
    BY DEF FetchesAgree
  <2>2. ASSUME NEW j \in 1..MaxFetches, FetchStep(j)
        PROVE  j = i /\ ReadLoan(i)
    <3>1. CASE ReadProtocolState(j)
      BY <2>1, <3>1 DEF ReadProtocolState, FetchesAgree, FetchRecord
    <3>2. CASE ReadCollateral(j)
      BY <2>1, <3>2 DEF ReadCollateral, FetchesAgree, FetchRecord
    <3>3. CASE ReadVaultAccount(j)
      BY <2>1, <3>3 DEF ReadVaultAccount, FetchesAgree, FetchRecord
    <3>4. CASE Settle(j)
      BY <2>1, <3>4 DEF Settle, Idle, FetchesAgree, FetchRecord
    <3>5. CASE ReadLoan(j)
      <4>1. PICK g : fetches' = [fetches EXCEPT ![j] = g]
        BY <3>5 DEF ReadLoan
      <4> QED
        BY <2>1, <3>5, <4>1 DEF FetchesAgree, FetchRecord
    <3> QED
      BY <2>2, <3>1, <3>2, <3>3, <3>4, <3>5 DEF FetchStep
  <2>3. ASSUME Effect PROVE FALSE
    <3>1. fetches' # fetches
      BY <2>1 DEF FetchRecord
    <3>2. PICK j \in 1..MaxFetches :
                 /\ fetches[j] = Idle
                 /\ fetches' = [fetches EXCEPT ![j] = Fetch(walletPk)]
      BY <2>3, <3>1 DEF Effect
    <3>3. Fetch(walletPk).borrowed = 0 /\ Idle.borrowed = 0
      BY DEF Fetch, Idle
    <3> QED
      BY <2>1, <3>2, <3>3 DEF FetchesAgree, FetchRecord
  <2>4. fetches' # fetches
    BY <2>1 DEF FetchRecord
  <2>5. ReadLoan(i) /\ f # Idle
    BY <2>2, <2>3, <2>4 DEF DashNext, Browse, Switch, dashVars, FetchStep
  <2>6. f.who \in Users
    BY <2>5 DEF FetchesAgree
  <2>7. m \in Mints
    BY <2>1, <2>5, DashboardAssumption
    DEF ReadLoan, LastStep, Collaterals, FetchRecord
  <2>8. PICK amount \in {0, LoanAmount(f, m)} :
               fetches' = [fetches EXCEPT ![i] =
                  [f EXCEPT !.step = @ + 1, !.borrowed = @ + amount]]
    BY <2>5 DEF ReadLoan
  <2>9. fetches'[i].borrowed = f.borrowed + amount
    BY <2>8 DEF FetchesAgree, FetchRecord
  <2>10. DebtAmount(f.who, m) = Owed[<<f.who, m>>]
         /\ debt[<<f.who, m>>] = SHARE_MULTIPLIER * Owed[<<f.who, m>>]
         /\ Owed[<<f.who, m>>] \in Nat
    BY <2>6, <2>7, DebtFacts
  <2>11. amount # 0
    BY <2>1, <2>9 DEF FetchRecord
  <2>12. f.tbv \in Nat \ {0} /\ f.found
    BY <2>1, <2>8, <2>11, MultiplierAssumption
    DEF LoanAmount, sharesToAmount, FetchRecord
  <2>13. amount = Owed[<<f.who, m>>]
    BY <2>1, <2>8, <2>10, <2>11, <2>12, FixedPrice DEF LoanAmount
  <2> QED
    BY <2>1, <2>9, <2>10, <2>13 DEF FetchRecord
<1> QED
  BY <1>1, <1>2, <1>3, FetchesAgreeAtFirst, PTL DEF DashSpec, FetchedDebtIsOwed
=============================================================================
