--------------------------- MODULE ProgramTheorems ---------------------------
(***************************************************************************)
(* The program implements both of its halves, for every value of the       *)
(* constants: each handler of one half is a step of the other or leaves it *)
(* alone.  The handlers that create accounts write zeros into the other    *)
(* half; they are harmless because what is not yet created is zero.        *)
(***************************************************************************)
EXTENDS Program, LendingTheorems

\* Before init_protocol there is nothing at all.
NothingBeforeDeployment ==
    authority = None =>
        /\ DOMAIN feeds = {}
        /\ paused = FALSE
        /\ globalDebtShares = 0
        /\ totalBorrows = 0
        /\ totalDeposits = 0
        /\ fees = 0

\* What is not created yet is zero.
CreatedFromZero ==
    /\ TypeOK
    /\ NothingBeforeDeployment
    /\ UnconfiguredIsEmpty

-----------------------------------------------------------------------------
(* Each step of the program, as a step of the lending core. *)

LEMMA FunctionSetToItsValue ==
    ASSUME NEW S, NEW T, NEW f \in [S -> T], NEW x \in S
    PROVE  [f EXCEPT ![x] = f[x]] = f
OBVIOUS

LEMMA DeployIsIdle ==
    ASSUME CreatedFromZero, NEW k \in Keys, Deploy(k)
    PROVE  UNCHANGED vars
<1>1. /\ authority = None /\ paused' = FALSE /\ fees' = 0
      /\ globalDebtShares' = 0 /\ totalDeposits' = 0 /\ totalBorrows' = 0
  BY DEF Deploy, Gov!InitProtocol
<1>2. /\ paused = FALSE /\ fees = 0 /\ globalDebtShares = 0
      /\ totalDeposits = 0 /\ totalBorrows = 0
  BY <1>1 DEF CreatedFromZero, NothingBeforeDeployment
<1>3. UNCHANGED <<vaultShares, vaultValue, accounts, debt, history>>
  BY DEF Deploy
<1> QED
  BY <1>1, <1>2, <1>3 DEF vars, debtPool

LEMMA ConfigureIsIdle ==
    ASSUME CreatedFromZero, NEW k \in Keys, NEW m \in Mints, Configure(k, m)
    PROVE  UNCHANGED vars
<1>1. m \in Mints \ Configured
  BY DEF Configure, Gov!ConfigureAsset, Configured
<1>2. vaultShares[m] = 0 /\ vaultValue[m] = 0
  BY <1>1 DEF CreatedFromZero, UnconfiguredIsEmpty
<1>3. /\ vaultShares' = [vaultShares EXCEPT ![m] = 0]
      /\ vaultValue' = [vaultValue EXCEPT ![m] = 0]
      /\ paused' = paused
      /\ UNCHANGED <<fees, accounts, debtPool, totalDeposits, history>>
  BY DEF Configure, Gov!ConfigureAsset
<1>4. vaultShares' = vaultShares /\ vaultValue' = vaultValue
  BY <1>2, <1>3, FunctionSetToItsValue DEF CreatedFromZero, TypeOK
<1> QED
  BY <1>3, <1>4 DEF vars

LEMMA StepOfLending ==
    ASSUME CreatedFromZero, [ProgramNext]_programVars
    PROVE  [Next]_vars
<1>1. ASSUME NEW u \in Users, NEW m \in Mints, UserStep(u, m)
      PROVE  Next
  BY <1>1 DEF UserStep, Next
<1>2. ASSUME NEW u \in Users, NEW c \in Mints, NEW b \in Mints,
             NEW maxRepay \in Amounts, LiquidateStep(u, c, b, maxRepay)
      PROVE  Next
  BY <1>2 DEF LiquidateStep, Next
<1>3. ASSUME NEW k \in Keys, Deploy(k)
      PROVE  UNCHANGED vars
  BY <1>3, DeployIsIdle
<1>4. ASSUME NEW k \in Keys, NEW m \in Mints, Configure(k, m)
      PROVE  UNCHANGED vars
  BY <1>4, ConfigureIsIdle
<1>5. ASSUME NEW k \in Keys, NEW value \in BOOLEAN, Pause(k, value)
      PROVE  Next
  BY <1>5 DEF Pause, Next
<1>6. ASSUME NEW k \in Keys, Collect(k)
      PROVE  Next
  BY <1>6 DEF Collect, Next
<1>7. ASSUME \/ Gov!Administer
             \/ \E amount \in Fees : Gov!FundTreasury(amount)
             \/ Gov!Tick,
             UNCHANGED lendingOnly
      PROVE  UNCHANGED vars
  <2>1. UNCHANGED <<paused, fees>>
    BY <1>7
    DEF Gov!Administer, Gov!FundTreasury, Gov!Tick, Gov!SetPriceFeed,
        Gov!UpdateAssetConfig, Gov!TransferAuthority, Gov!AcceptAuthority,
        Gov!WithdrawTreasury, Gov!money
  <2> QED
    BY <1>7, <2>1 DEF lendingOnly, vars
<1>8. UNCHANGED programVars => UNCHANGED vars
  BY DEF programVars
<1> QED
  BY <1>1, <1>2, <1>3, <1>4, <1>5, <1>6, <1>7, <1>8 DEF ProgramNext

-----------------------------------------------------------------------------
(* No step touches a vault, a deposit or a debt that is not created. *)

\* Nothing of mint n changes.
Untouched(n) ==
    /\ vaultShares'[n] = vaultShares[n]
    /\ vaultValue'[n] = vaultValue[n]
    /\ \A u \in Users : /\ collateral'[<<u, n>>] = collateral[<<u, n>>]
                        /\ debt'[<<u, n>>] = debt[<<u, n>>]

LEMMA UserStepTouchesOne ==
    ASSUME TypeOK, NEW u \in Users, NEW m \in Mints, UserStep(u, m),
           NEW n \in Mints, n # m
    PROVE  Untouched(n)
<1> USE DEF TypeOK, Untouched, Positions
<1>1. ASSUME NEW v \in Users PROVE <<v, n>> # <<u, m>>
  OBVIOUS
<1>2. ASSUME NEW amount \in Amounts, Deposit(u, m, amount)
      PROVE  Untouched(n)
  BY <1>1, <1>2 DEF Deposit, MintShares, Credit, debtPool
<1>3. ASSUME NEW amount \in Amounts, Borrow(u, m, amount)
      PROVE  Untouched(n)
  BY <1>1, <1>3 DEF Borrow, AddDebt, Debit, accounts
<1>4. ASSUME NEW amount \in Amounts, Repay(u, m, amount)
      PROVE  Untouched(n)
  BY <1>1, <1>4 DEF Repay, ClearDebt, Credit, accounts
<1>5. ASSUME NEW shares \in ShareAmounts, Withdraw(u, m, shares)
      PROVE  Untouched(n)
  BY <1>1, <1>5 DEF Withdraw, RedeemShares, Debit, debtPool
<1> QED
  BY <1>2, <1>3, <1>4, <1>5 DEF UserStep

LEMMA LiquidateStepTouchesTwo ==
    ASSUME TypeOK, NEW u \in Users, NEW c \in Mints, NEW b \in Mints,
           NEW maxRepay \in Amounts, LiquidateStep(u, c, b, maxRepay),
           NEW n \in Mints, n # c, n # b
    PROVE  Untouched(n)
<1> USE DEF TypeOK, Untouched, Positions
<1>1. ASSUME NEW v \in Users
      PROVE  <<v, n>> # <<u, b>> /\ <<v, n>> # <<u, c>>
  OBVIOUS
<1>2. Liquidate(u, c, b, maxRepay)
  BY DEF LiquidateStep
<1>3. vaultValue'[n] = vaultValue[n]
  BY <1>2 DEF Liquidate
<1>4. /\ vaultShares'[n] = vaultShares[n]
      /\ \A v \in Users : collateral'[<<v, n>>] = collateral[<<v, n>>]
  BY <1>1, <1>2 DEF Liquidate, SeizeShares
<1>5. \A v \in Users : debt'[<<v, n>>] = debt[<<v, n>>]
  BY <1>1, <1>2 DEF Liquidate, ClearDebt
<1> QED
  BY <1>3, <1>4, <1>5

LEMMA UntouchedStaysEmpty ==
    ASSUME UnconfiguredIsEmpty, DOMAIN feeds \subseteq DOMAIN feeds',
           \A n \in Mints \ Configured : Untouched(n)
    PROVE  UnconfiguredIsEmpty'
BY DEF UnconfiguredIsEmpty, Configured, Untouched

LEMMA IdleUntouched ==
    ASSUME UNCHANGED vars
    PROVE  \A n \in Mints : Untouched(n)
BY DEF vars, accounts, debtPool, Untouched

LEMMA StepKeepsEmpty ==
    ASSUME CreatedFromZero, [ProgramNext]_programVars
    PROVE  UnconfiguredIsEmpty'
<1> USE UntouchedStaysEmpty DEF CreatedFromZero
<1>1. ASSUME NEW u \in Users, NEW m \in Mints, UserStep(u, m)
      PROVE  UnconfiguredIsEmpty'
  <2>1. feeds' = feeds /\ m \in Configured
    BY <1>1 DEF UserStep, govOnly
  <2> QED
    BY <1>1, <2>1, UserStepTouchesOne
<1>2. ASSUME NEW u \in Users, NEW c \in Mints, NEW b \in Mints,
             NEW maxRepay \in Amounts, LiquidateStep(u, c, b, maxRepay)
      PROVE  UnconfiguredIsEmpty'
  <2>1. feeds' = feeds /\ c \in Configured /\ b \in Configured
    BY <1>2 DEF LiquidateStep, Gov!AccrueFee, Gov!assets
  <2> QED
    BY <1>2, <2>1, LiquidateStepTouchesTwo
<1>3. ASSUME NEW k \in Keys, Deploy(k)
      PROVE  UnconfiguredIsEmpty'
  <2>1. feeds' = feeds
    BY <1>3 DEF Deploy, Gov!InitProtocol
  <2> QED
    BY <1>3, <2>1, DeployIsIdle, IdleUntouched
<1>4. ASSUME NEW k \in Keys, NEW m \in Mints, Configure(k, m)
      PROVE  UnconfiguredIsEmpty'
  <2>1. DOMAIN feeds \subseteq DOMAIN feeds'
    BY <1>4 DEF Configure, Gov!ConfigureAsset
  <2> QED
    BY <1>4, <2>1, ConfigureIsIdle, IdleUntouched
<1>5. ASSUME NEW k \in Keys, NEW value \in BOOLEAN, Pause(k, value)
      PROVE  UnconfiguredIsEmpty'
  <2>1. feeds' = feeds /\ \A n \in Mints : Untouched(n)
    BY <1>5
    DEF Pause, Gov!SetPausedBy, Gov!assets, SetPaused, accounts, debtPool,
        Untouched
  <2> QED
    BY <2>1
<1>6. ASSUME NEW k \in Keys, Collect(k)
      PROVE  UnconfiguredIsEmpty'
  <2>1. feeds' = feeds /\ \A n \in Mints : Untouched(n)
    BY <1>6
    DEF Collect, Gov!CollectFees, Gov!assets, CollectFees, accounts, debtPool,
        Untouched
  <2> QED
    BY <2>1
<1>7. ASSUME \/ Gov!Administer
             \/ \E amount \in Fees : Gov!FundTreasury(amount)
             \/ Gov!Tick,
             UNCHANGED lendingOnly
      PROVE  UnconfiguredIsEmpty'
  <2>1. DOMAIN feeds' = DOMAIN feeds
    BY <1>7
    DEF Gov!Administer, Gov!FundTreasury, Gov!Tick, Gov!SetPriceFeed,
        Gov!UpdateAssetConfig, Gov!TransferAuthority, Gov!AcceptAuthority,
        Gov!WithdrawTreasury, Gov!assets
  <2>2. \A n \in Mints : Untouched(n)
    BY <1>7 DEF lendingOnly, accounts, debtPool, Untouched
  <2> QED
    BY <2>1, <2>2
<1>8. CASE UNCHANGED programVars
  <2>1. feeds' = feeds /\ UNCHANGED vars
    BY <1>8 DEF programVars, govOnly
  <2> QED
    BY <2>1, IdleUntouched
<1> QED
  BY <1>1, <1>2, <1>3, <1>4, <1>5, <1>6, <1>7, <1>8 DEF ProgramNext

LEMMA StepKeepsNothing ==
    ASSUME CreatedFromZero, [ProgramNext]_programVars
    PROVE  NothingBeforeDeployment'
<1> SUFFICES ASSUME authority' = None
             PROVE  /\ DOMAIN feeds' = {} /\ paused' = FALSE /\ fees' = 0
                    /\ globalDebtShares' = 0 /\ totalBorrows' = 0
                    /\ totalDeposits' = 0
  BY DEF NothingBeforeDeployment
<1> DEFINE Goal == /\ DOMAIN feeds' = {} /\ paused' = FALSE /\ fees' = 0
                   /\ globalDebtShares' = 0 /\ totalBorrows' = 0
                   /\ totalDeposits' = 0
<1> USE KeysAssumption DEF CreatedFromZero, NothingBeforeDeployment
<1>1. ASSUME NEW u \in Users, NEW m \in Mints, UserStep(u, m)
      PROVE  Goal
  BY <1>1 DEF UserStep, govOnly, Configured
<1>2. ASSUME NEW u \in Users, NEW c \in Mints, NEW b \in Mints,
             NEW maxRepay \in Amounts, LiquidateStep(u, c, b, maxRepay)
      PROVE  Goal
  BY <1>2 DEF LiquidateStep, Configured, Gov!AccrueFee, Gov!roles
<1>3. ASSUME NEW k \in Keys, Deploy(k)
      PROVE  Goal
  BY <1>3 DEF Deploy, Gov!InitProtocol
<1>4. ASSUME NEW k \in Keys, NEW m \in Mints, Configure(k, m)
      PROVE  Goal
  BY <1>4 DEF Configure, Gov!ConfigureAsset, Gov!roles
<1>5. ASSUME NEW k \in Keys, NEW value \in BOOLEAN, Pause(k, value)
      PROVE  Goal
  BY <1>5 DEF Pause, Gov!SetPausedBy, Gov!roles
<1>6. ASSUME NEW k \in Keys, Collect(k)
      PROVE  Goal
  BY <1>6 DEF Collect, Gov!CollectFees, CollectFees, debtPool, Gov!roles,
              Gov!assets
<1>7. ASSUME \/ Gov!Administer
             \/ \E amount \in Fees : Gov!FundTreasury(amount)
             \/ Gov!Tick,
             UNCHANGED lendingOnly
      PROVE  Goal
  <2>1. /\ UNCHANGED <<paused, fees>>
        /\ DOMAIN feeds' = DOMAIN feeds
        /\ authority = None
    BY <1>7
    DEF Gov!Administer, Gov!FundTreasury, Gov!Tick, Gov!SetPriceFeed,
        Gov!UpdateAssetConfig, Gov!TransferAuthority, Gov!AcceptAuthority,
        Gov!WithdrawTreasury, Gov!assets, Gov!money, Gov!roles
  <2> QED
    BY <1>7, <2>1 DEF lendingOnly, debtPool
<1>8. CASE UNCHANGED programVars
  BY <1>8 DEF programVars, vars, govOnly, debtPool
<1> QED
  BY <1>1, <1>2, <1>3, <1>4, <1>5, <1>6, <1>7, <1>8 DEF ProgramNext

LEMMA AlwaysCreatedFromZero == ProgramSpec => []CreatedFromZero
<1>1. ProgramInit => CreatedFromZero
  <2> SUFFICES ASSUME ProgramInit
               PROVE  CreatedFromZero
    OBVIOUS
  <2>1. Init => TypeOK
    BY InitTypes
  <2>2. DOMAIN feeds = {}
    BY DEF ProgramInit, Gov!GovInit
  <2> QED
    BY <2>1, <2>2
    DEF ProgramInit, Init, Positions, CreatedFromZero,
        NothingBeforeDeployment, UnconfiguredIsEmpty
<1>2. CreatedFromZero /\ [ProgramNext]_programVars => CreatedFromZero'
  BY StepOfLending, StepKeepsEmpty, StepKeepsNothing, NextTypes
  DEF CreatedFromZero
<1> QED
  BY <1>1, <1>2, PTL DEF ProgramSpec

-----------------------------------------------------------------------------
(* What follows for the program. *)

\* A vault that configure_asset has not created holds nothing and is owed
\* nothing, so creating it wipes nothing out.
THEOREM UnconfiguredAlwaysEmpty == ProgramSpec => []UnconfiguredIsEmpty
<1>1. CreatedFromZero => UnconfiguredIsEmpty
  BY DEF CreatedFromZero
<1> QED
  BY <1>1, AlwaysCreatedFromZero, PTL

\* The program implements the lending core: init_protocol and configure_asset
\* write its accounts and change nothing, set_paused and collect_fees are steps
\* of it, and the rest of the administration leaves it alone.
THEOREM ProgramIsLending == ProgramSpec => LendingSpec
<1>1. ProgramInit => Init
  BY DEF ProgramInit
<1>2. CreatedFromZero /\ [ProgramNext]_programVars => [Next]_vars
  BY StepOfLending
<1> QED
  BY <1>1, <1>2, AlwaysCreatedFromZero, PTL
  DEF ProgramSpec, LendingSpec, Spec

\* The shares of every vault of the whole program are accounted for, although
\* init_protocol and configure_asset write zeros into the same accounts.
THEOREM ProgramSharesAccounted ==
    ASSUME MaxDeposits < U64
    PROVE  ProgramSpec => []SharesAccounted
BY ProgramIsLending, SharesAlwaysAccounted, PTL DEF LendingSpec

\* The fees are shared out, and the accumulator is a u64.
FeesShared ==
    /\ TypeOK
    /\ fees < U64
    /\ collected \in Nat
    /\ FeesAreAShare

\* Collecting moves fees from one counter to the other.
LEMMA CollectedStaysShared ==
    ASSUME FeesAreAShare, UNCHANGED liquidationPaid,
           collected' + fees' = collected + fees
    PROVE  FeesAreAShare'
BY DEF FeesAreAShare

\* A fee is at most 5% of what the liquidator takes.
LEMMA FeeIsAShare ==
    ASSUME NEW repay \in Nat
    PROVE  /\ LiquidationFee(repay) \in Nat
           /\ LiquidationFee(repay) * 10000 <= repay * 500
<1> DEFINE share == (repay * 500) \div 10000
<1>1. share \in Nat /\ share * 10000 <= repay * 500
  OBVIOUS
<1>2. LiquidationFee(repay) = AsU64(share)
  BY DEF LiquidationFee
<1> HIDE DEF share
<1>3. AsU64(share) \in Nat /\ AsU64(share) <= share
  BY <1>1, CastBounds
<1> QED
  BY <1>1, <1>2, <1>3

\* A liquidation adds to the share of the vault that pays it.
LEMMA LiquidationStaysShared ==
    ASSUME FeesShared, NEW u \in Users, NEW c \in Mints, NEW b \in Mints,
           NEW maxRepay \in Amounts, LiquidateStep(u, c, b, maxRepay)
    PROVE  fees' < U64 /\ collected' = collected /\ FeesAreAShare'
<1> DEFINE repay == Repaid(u, b, maxRepay)
           fee   == LiquidationFee(repay)
           total == collected + fees
           d     == fees' - fees
<1>1. repay \in Nat
  BY AmountsAssumption, ArithmeticTypes, AmountTypes
  DEF FeesShared, Repaid
<1>2. fee \in Nat /\ fee * 10000 <= repay * 500
  BY <1>1, FeeIsAShare
<1>3. /\ liquidationPaid' = [liquidationPaid EXCEPT ![b] = @ + repay]
      /\ fees' = SaturatingAddU64(fees, fee)
      /\ collected' = collected
  BY DEF LiquidateStep, Liquidate, Gov!AccrueFee
<1> HIDE DEF repay, fee
<1>4. fees' < U64 /\ d \in Nat /\ d <= fee /\ total \in Nat
  BY <1>2, <1>3, U64Assumption DEF SaturatingAddU64, FeesShared, TypeOK
<1>5. collected' + fees' = total + d
  <2>1. fees' \in Int /\ fees \in Int /\ collected \in Int
    BY <1>2, <1>3, ArithmeticTypes DEF FeesShared, TypeOK
  <2> QED
    BY <1>3, <2>1
<1>6. PICK due \in [Mints -> 0..total] :
        /\ IsTotal(due, total)
        /\ \A m \in Mints : due[m] * 10000 <= liquidationPaid[m] * 500
  BY DEF FeesShared, FeesAreAShare
<1> HIDE DEF total, d
<1> DEFINE more == [due EXCEPT ![b] = @ + d]
<1>7. due \in [Mints -> Nat] /\ more \in [Mints -> Nat]
  BY <1>4, <1>6
<1>8. more \in [Mints -> 0..(total + d)]
  BY <1>4, <1>6
<1>9. IsTotal(more, total + d)
  <2>1. more[b] = due[b] + d /\ \A m \in Mints : m # b => more[m] = due[m]
    BY <1>6
  <2> HIDE DEF more
  <2> QED
    BY <1>4, <1>6, <1>7, <2>1, TotalGrows
<1>10. ASSUME NEW m \in Mints
       PROVE  more[m] * 10000 <= liquidationPaid'[m] * 500
  <2>1. /\ due[m] \in Nat /\ liquidationPaid[m] \in Nat
        /\ due[m] * 10000 <= liquidationPaid[m] * 500
    BY <1>6, <1>7 DEF FeesShared, TypeOK
  <2>2. CASE m = b
    <3>1. more[m] = due[m] + d /\ liquidationPaid'[m] = liquidationPaid[m] + repay
      BY <1>3, <1>6, <2>2 DEF FeesShared, TypeOK
    <3> QED
      BY <1>1, <1>2, <1>4, <2>1, <3>1
  <2>3. CASE m # b
    BY <1>3, <1>6, <2>1, <2>3 DEF FeesShared, TypeOK
  <2> QED
    BY <2>2, <2>3
<1> HIDE DEF more
<1>11. FeesAreAShare'
  BY <1>5, <1>8, <1>9, <1>10 DEF FeesAreAShare
<1> QED
  BY <1>3, <1>4, <1>11

LEMMA StepKeepsShares ==
    ASSUME FeesShared, CreatedFromZero, [ProgramNext]_programVars
    PROVE  fees' < U64 /\ collected' \in Nat /\ FeesAreAShare'
<1> DEFINE Goal == fees' < U64 /\ collected' \in Nat /\ FeesAreAShare'
<1>1. ASSUME UNCHANGED <<liquidationPaid, fees, collected>>
      PROVE  Goal
  BY <1>1, CollectedStaysShared DEF FeesShared
<1>2. ASSUME NEW u \in Users, NEW m \in Mints, UserStep(u, m)
      PROVE  Goal
  <2>1. UNCHANGED <<liquidationPaid, fees, collected>>
    BY <1>2
    DEF UserStep, Deposit, Borrow, Repay, Withdraw, govOnly, history
  <2> QED
    BY <1>1, <2>1
<1>3. ASSUME NEW u \in Users, NEW c \in Mints, NEW b \in Mints,
             NEW maxRepay \in Amounts, LiquidateStep(u, c, b, maxRepay)
      PROVE  Goal
  BY <1>3, LiquidationStaysShared DEF FeesShared
<1>4. ASSUME NEW k \in Keys, Deploy(k)
      PROVE  Goal
  <2>1. UNCHANGED vars /\ UNCHANGED collected
    BY <1>4, DeployIsIdle DEF Deploy, Gov!InitProtocol
  <2> QED
    BY <1>1, <2>1 DEF vars, history
<1>5. ASSUME NEW k \in Keys, NEW m \in Mints, Configure(k, m)
      PROVE  Goal
  <2>1. UNCHANGED vars /\ UNCHANGED collected
    BY <1>5, ConfigureIsIdle DEF Configure, Gov!ConfigureAsset, Gov!money
  <2> QED
    BY <1>1, <2>1 DEF vars, history
<1>6. ASSUME NEW k \in Keys, NEW value \in BOOLEAN, Pause(k, value)
      PROVE  Goal
  <2>1. UNCHANGED <<liquidationPaid, fees, collected>>
    BY <1>6 DEF Pause, SetPaused, Gov!SetPausedBy, Gov!money, history
  <2> QED
    BY <1>1, <2>1
<1>7. ASSUME NEW k \in Keys, Collect(k)
      PROVE  Goal
  <2>1. /\ UNCHANGED liquidationPaid
        /\ collected' = collected + fees /\ fees' = 0
    BY <1>7 DEF Collect, CollectFees, Gov!CollectFees, history
  <2>2. collected \in Nat /\ fees \in Nat
    BY DEF FeesShared, TypeOK
  <2> QED
    BY <2>1, <2>2, CollectedStaysShared, U64Assumption DEF FeesShared
<1>8. ASSUME \/ Gov!Administer
             \/ \E amount \in Fees : Gov!FundTreasury(amount)
             \/ Gov!Tick,
             UNCHANGED lendingOnly
      PROVE  Goal
  <2>1. UNCHANGED <<fees, collected>>
    BY <1>8
    DEF Gov!Administer, Gov!FundTreasury, Gov!Tick, Gov!SetPriceFeed,
        Gov!UpdateAssetConfig, Gov!TransferAuthority, Gov!AcceptAuthority,
        Gov!WithdrawTreasury, Gov!money
  <2> QED
    BY <1>1, <1>8, <2>1 DEF lendingOnly, history
<1>9. CASE UNCHANGED programVars
  BY <1>1, <1>9 DEF programVars, vars, history, govOnly
<1> QED
  BY <1>2, <1>3, <1>4, <1>5, <1>6, <1>7, <1>8, <1>9 DEF ProgramNext

\* The fees that were ever accrued are, vault by vault, at most 5% of what the
\* vault paid to liquidators: each fee rounds down, and none is counted twice.
THEOREM FeesAlwaysAShare == ProgramSpec => []FeesAreAShare
<1>1. ProgramInit => FeesShared
  <2> SUFFICES ASSUME ProgramInit PROVE FeesShared
    OBVIOUS
  <2>1. TypeOK /\ fees = 0 /\ collected = 0
    BY InitTypes DEF ProgramInit, Init, Gov!GovInit
  <2> DEFINE due == [m \in Mints |-> 0]
  <2>2. due \in [Mints -> 0..0] /\ IsTotal(due, 0)
    BY TotalOfZeros
  <2>3. \A m \in Mints : due[m] * 10000 <= liquidationPaid[m] * 500
    BY DEF ProgramInit, Init
  <2> HIDE DEF due
  <2>4. FeesAreAShare
    BY <2>1, <2>2, <2>3 DEF FeesAreAShare
  <2> QED
    BY <2>1, <2>4, U64Assumption DEF FeesShared
<1>2. FeesShared /\ CreatedFromZero /\ [ProgramNext]_programVars => FeesShared'
  BY StepKeepsShares, StepOfLending, NextTypes DEF FeesShared, CreatedFromZero
<1>3. FeesShared => FeesAreAShare
  BY DEF FeesShared
<1> QED
  BY <1>1, <1>2, <1>3, AlwaysCreatedFromZero, PTL DEF ProgramSpec

\* The program implements the administration: of the lending handlers, only a
\* liquidation reaches its accounts, and it does so as AccrueFee says.
THEOREM ProgramIsGovernance == ProgramSpec => GovernanceSpec
<1>1. ProgramInit => Gov!GovInit
  BY DEF ProgramInit
<1>2. [ProgramNext]_programVars => [Gov!GovNext]_(Gov!govVars)
  <2> SUFFICES ASSUME [ProgramNext]_programVars
               PROVE  [Gov!GovNext]_(Gov!govVars)
    OBVIOUS
  <2> USE DEF Gov!govVars, Gov!roles, Gov!assets, Gov!money
  <2>1. ASSUME NEW u \in Users, NEW m \in Mints, UserStep(u, m)
        PROVE  UNCHANGED Gov!govVars
    <3>1. UNCHANGED govOnly
      BY <2>1 DEF UserStep
    <3>2. UNCHANGED <<paused, fees>>
      BY <2>1 DEF UserStep, Deposit, Borrow, Repay, Withdraw
    <3> QED
      BY <3>1, <3>2 DEF govOnly
  <2>2. ASSUME NEW u \in Users, NEW c \in Mints, NEW b \in Mints,
               NEW maxRepay \in Amounts, LiquidateStep(u, c, b, maxRepay)
        PROVE  Gov!GovNext
    BY <2>2 DEF LiquidateStep, Gov!GovNext
  <2>3. ASSUME NEW k \in Keys, Deploy(k)
        PROVE  Gov!GovNext
    BY <2>3 DEF Deploy, Gov!GovNext
  <2>4. ASSUME NEW k \in Keys, NEW m \in Mints, Configure(k, m)
        PROVE  Gov!GovNext
    BY <2>4 DEF Configure, Gov!GovNext
  <2>5. ASSUME NEW k \in Keys, NEW value \in BOOLEAN, Pause(k, value)
        PROVE  Gov!GovNext
    BY <2>5 DEF Pause, Gov!GovNext
  <2>6. ASSUME NEW k \in Keys, Collect(k)
        PROVE  Gov!GovNext
    BY <2>6 DEF Collect, Gov!GovNext
  <2>7. ASSUME \/ Gov!Administer
               \/ \E amount \in Fees : Gov!FundTreasury(amount)
               \/ Gov!Tick
        PROVE  Gov!GovNext
    BY <2>7 DEF Gov!GovNext
  <2>8. CASE UNCHANGED programVars
    BY <2>8 DEF programVars, vars, govOnly
  <2> QED
    BY <2>1, <2>2, <2>3, <2>4, <2>5, <2>6, <2>7, <2>8 DEF ProgramNext
<1> QED
  BY <1>1, <1>2, PTL DEF ProgramSpec, GovernanceSpec, Gov!GovSpec

-----------------------------------------------------------------------------
(* The two-step handover, in the whole program. *)

\* A proposal stands only while the key that made it is the authority.
ProposalStands ==
    /\ authority = None => proposed = None
    /\ ProposalIsTheAuthoritys

LEMMA ProposalStays ==
    ASSUME ProposalStands, [Gov!GovNext]_(Gov!govVars)
    PROVE  ProposalStands'
<1> USE KeysAssumption
    DEF ProposalStands, ProposalIsTheAuthoritys, Gov!ProposalIsTheAuthoritys,
        Gov!roles
<1>1. CASE \E k \in Keys : Gov!InitProtocol(k)
  BY <1>1 DEF Gov!InitProtocol
<1>2. CASE \E k \in Keys : Gov!AcceptAuthority(k)
  BY <1>2 DEF Gov!AcceptAuthority
<1>3. CASE \E k, new \in Keys : Gov!TransferAuthority(k, new)
  BY <1>3 DEF Gov!TransferAuthority
<1>4. CASE UNCHANGED <<proposed, proposer, authority>>
  BY <1>4
<1> QED
  BY <1>1, <1>2, <1>3, <1>4
  DEF Gov!GovNext, Gov!Administer, Gov!govVars, Gov!ConfigureAsset,
      Gov!SetPriceFeed, Gov!UpdateAssetConfig, Gov!WithdrawTreasury,
      Gov!CollectFees, Gov!SetPausedBy, Gov!AccrueFee, Gov!FundTreasury,
      Gov!Tick

LEMMA ProposalStandsAlways == GovernanceSpec => []ProposalStands
<1>1. Gov!GovInit => ProposalStands
  BY DEF Gov!GovInit, ProposalStands, ProposalIsTheAuthoritys,
         Gov!ProposalIsTheAuthoritys
<1>2. ProposalStands /\ [Gov!GovNext]_(Gov!govVars) => ProposalStands'
  BY ProposalStays
<1> QED
  BY <1>1, <1>2, PTL DEF GovernanceSpec, Gov!GovSpec

\* A standing proposal was made by the key that is the authority now, in the
\* whole program (handle_transfer_authority, handle_accept_authority).
THEOREM ProgramProposalIsTheAuthoritys ==
    ProgramSpec => []ProposalIsTheAuthoritys
<1>1. ProposalStands => ProposalIsTheAuthoritys
  BY DEF ProposalStands
<1> QED
  BY <1>1, ProgramIsGovernance, ProposalStandsAlways, PTL

\* The authority changes only to the key that it had named itself and that
\* signed for it, whatever the users do (handle_accept_authority).
THEOREM ProgramHandoverByBoth == ProgramSpec => HandoverByBoth
<1>1. ProposalStands /\ [Gov!GovNext]_(Gov!govVars)
        => [(authority # None /\ authority' # authority)
              => authority' = proposed /\ proposer = authority]_(Gov!govVars)
  <2> SUFFICES ASSUME ProposalStands, Gov!GovNext, authority # None,
                      authority' # authority
               PROVE  authority' = proposed /\ proposer = authority
    OBVIOUS
  <2>1. PICK k \in Keys : Gov!AcceptAuthority(k)
    BY DEF Gov!GovNext, Gov!Administer, Gov!roles, Gov!InitProtocol,
           Gov!ConfigureAsset, Gov!SetPriceFeed, Gov!UpdateAssetConfig,
           Gov!TransferAuthority, Gov!WithdrawTreasury, Gov!CollectFees,
           Gov!SetPausedBy, Gov!AccrueFee, Gov!FundTreasury, Gov!Tick
  <2> QED
    BY <2>1, KeysAssumption
    DEF Gov!AcceptAuthority, ProposalStands, ProposalIsTheAuthoritys,
        Gov!ProposalIsTheAuthoritys
<1> QED
  BY <1>1, ProgramIsGovernance, ProposalStandsAlways, PTL
  DEF GovernanceSpec, Gov!GovSpec, HandoverByBoth, Gov!HandoverByBoth
=============================================================================
