------------------------------- MODULE Program -------------------------------
(***************************************************************************)
(* The on-chain program as a whole: the lending core (module Lending) and  *)
(* the administration (module Governance) over the accounts they share.    *)
(* ProtocolState holds the pause switch and the totals of both, the        *)
(* treasury the fees that liquidations leave, and configure_asset creates  *)
(* the vaults that the lending handlers need.                              *)
(*                                                                         *)
(* Neither half may undo what the other relies on: the program implements  *)
(* the specification of each, so what holds of one holds here.             *)
(***************************************************************************)
EXTENDS Lending, FiniteSets

CONSTANTS
    Keys, None, Prices, Fees, U8, MaxTime, MaxFees

ASSUME KeysAssumption == None \notin Keys

VARIABLES
    authority, proposed, feeAuthority, assetCount, feeds, treasuryTokens,
    now, proposer, accrued, collected

Gov == INSTANCE Governance

\* What each half does not see of the other.
lendingOnly ==
    <<vaultShares, vaultValue, accounts, debtPool, totalDeposits, history>>
govOnly ==
    <<authority, proposed, feeAuthority, assetCount, feeds, treasuryTokens,
      now, proposer, accrued, collected>>
programVars == <<vars, govOnly>>

ProgramInit == Init /\ Gov!GovInit

\* The vaults that exist.
Configured == DOMAIN feeds

-----------------------------------------------------------------------------
\* Mistake to catch: the vault need not exist.
UserStepAnywhere(u, m) ==
    /\ \/ \E amount \in Amounts :
             \/ Deposit(u, m, amount)
             \/ Borrow(u, m, amount)
             \/ Repay(u, m, amount)
       \/ \E shares \in ShareAmounts : Withdraw(u, m, shares)
    /\ UNCHANGED govOnly

\* The deposit, withdraw, borrow and repay handlers, on a vault that exists.
\* borrow takes two price accounts and reads neither.
UserStep(u, m) ==
    /\ m \in Configured
    /\ \/ \E amount \in Amounts :
             \/ Deposit(u, m, amount)
             \/ Borrow(u, m, amount)
             \/ Repay(u, m, amount)
       \/ \E shares \in ShareAmounts : Withdraw(u, m, shares)
    /\ UNCHANGED govOnly

LiquidateStep(u, c, b, maxRepay) ==
    /\ {c, b} \subseteq Configured
    /\ Liquidate(u, c, b, maxRepay)
    /\ \E fee \in Fees :
          /\ fee = LiquidationFee(Repaid(u, b, maxRepay))
          /\ Gov!AccrueFee(fee)

\* The accounts that init_protocol creates, it fills with zeros.
Deploy(k) ==
    /\ Gov!InitProtocol(k)
    /\ globalDebtShares' = 0
    /\ totalDeposits' = 0
    /\ totalBorrows' = 0
    /\ UNCHANGED <<vaultShares, vaultValue, accounts, debt, history>>

\* So does configure_asset with a vault.
Configure(k, m) ==
    /\ Gov!ConfigureAsset(k, m)
    /\ vaultShares' = [vaultShares EXCEPT ![m] = 0]
    /\ vaultValue' = [vaultValue EXCEPT ![m] = 0]
    /\ UNCHANGED <<fees, accounts, debtPool, totalDeposits, history>>

\* Mistake to catch: the signer need not be the authority.
PauseByAnyone(k, value) == SetPaused(value) /\ UNCHANGED govOnly

Pause(k, value) == SetPaused(value) /\ Gov!SetPausedBy(k, value)

\* Mistake to catch: the accumulator is not reset.
CollectKeeping(k) ==
    /\ k = feeAuthority
    /\ collected' = collected + fees
    /\ UNCHANGED <<vars, authority, proposed, feeAuthority, assetCount, feeds,
                   treasuryTokens, now, proposer, accrued>>

Collect(k) == CollectFees /\ Gov!CollectFees(k)

ProgramNext ==
    \/ \E u \in Users, m \in Mints : UserStep(u, m)
    \/ \E u \in Users, c, b \in Mints, maxRepay \in Amounts :
          LiquidateStep(u, c, b, maxRepay)
    \/ \E k \in Keys :
          \/ Deploy(k)
          \/ \E m \in Mints : Configure(k, m)
          \/ \E value \in BOOLEAN : Pause(k, value)
          \/ Collect(k)
    \/ /\ \/ Gov!Administer
          \/ \E amount \in Fees : Gov!FundTreasury(amount)
          \/ Gov!Tick
       /\ UNCHANGED lendingOnly

ProgramSpec == ProgramInit /\ [][ProgramNext]_programVars

-----------------------------------------------------------------------------
\* The lending core behaves as module Lending says, although configure_asset
\* and init_protocol write its accounts: all that holds there holds here.
LendingSpec == Spec

\* The administration behaves as module Governance says, although liquidations
\* write its accounts.
GovernanceSpec == Gov!GovSpec

\* A vault that does not exist holds nothing, and nobody owes or owns anything
\* in it, whatever order assets were configured and used in: creating a vault
\* wipes nothing out.
UnconfiguredIsEmpty ==
    \A m \in Mints \ Configured :
        /\ vaultShares[m] = 0 /\ vaultValue[m] = 0
        /\ \A u \in Users :
              collateral[<<u, m>>] = 0 /\ debt[<<u, m>>] = 0

\* The fees ever accrued, collected or not, divide among the vaults so that each
\* has given at most 5% of what liquidators took from it, over any number of
\* liquidations and collections.
FeesAreAShare ==
    \E due \in [Mints -> 0..(collected + fees)] :
        /\ IsTotal(due, collected + fees)
        /\ \A m \in Mints : due[m] * 10000 <= liquidationPaid[m] * 500

(* What module Governance says of its own steps, of the whole program, where *)
(* users act meanwhile and the fees are those that liquidations compute.     *)

\* The types of the administration's accounts.
GovTypeOK == Gov!GovTypeOK

\* A standing proposal is of the present authority, whatever handovers and
\* proposals came before (admin.rs).
ProposalIsTheAuthoritys == Gov!ProposalIsTheAuthoritys

\* The authority changes by consent of both keys only (admin.rs).
HandoverByBoth == Gov!HandoverByBoth

\* asset_count counts each asset once, until it saturates (configure_asset.rs).
AssetsCountedOnce == Gov!AssetsCountedOnce

\* Each fee that a liquidation leaves is collected once, or waits to be, under
\* any order of liquidations and collections (treasury_ops.rs, liquidate.rs).
FeesCollectedOnce == Gov!FeesCollectedOnce
=============================================================================
