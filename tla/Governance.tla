----------------------------- MODULE Governance -----------------------------
(***************************************************************************)
(* The administration of the on-chain program: deployment, the assets and  *)
(* their price feeds, the two-step change of authority, the pause switch   *)
(* and the treasury (instructions/init_protocol.rs, configure_asset.rs,    *)
(* set_price_feed.rs, admin.rs, treasury_ops.rs).                          *)
(*                                                                         *)
(* One action is one transaction; a signer is a key.  The parameters that  *)
(* configure_asset only checks or emits, and stores nowhere (limits, caps, *)
(* oracle accounts), are left out.                                         *)
(***************************************************************************)
EXTENDS Integers, FiniteSets

CONSTANTS
    Keys,                   \* who may sign
    None,                   \* Pubkey::default(), for which nobody signs
    Mints,                  \* the assets that can be configured
    Prices,                 \* prices an authority may post
    Fees,                   \* fees that one liquidation may leave
    U8,                     \* the number of values of asset_count, a u8
    U64,                    \* the number of values of the fee accumulator
    MaxTime,                \* bound on the clock
    MaxFees                 \* bound on all fees and all treasury tokens

ASSUME NoneAssumption == None \notin Keys
ASSUME WidthAssumption == U8 \in Nat \ {0} /\ U64 \in Nat \ {0}
ASSUME PricesAssumption == Prices \subseteq Nat /\ Fees \subseteq Nat

VARIABLES
    authority,      \* ProtocolState.authority, None before deployment
    proposed,       \* ProtocolState.proposed_authority
    feeAuthority,   \* ProtocolState.fee_authority
    paused,         \* ProtocolState.paused
    assetCount,     \* ProtocolState.asset_count
    feeds,          \* the PriceFeed of each configured asset
    fees,           \* TreasuryAccount.fee_accumulator
    treasuryTokens, \* external: token balance of the treasury
    now,            \* external: the cluster's clock
    proposer,       \* history: who made the standing proposal
    accrued,        \* history: all fees that liquidations left
    collected       \* history: all fees that were collected

roles   == <<authority, proposed, feeAuthority, proposer>>
assets  == <<assetCount, feeds>>
money   == <<fees, treasuryTokens, accrued, collected>>
govVars == <<roles, paused, assets, money, now>>

Feed == [price : Nat, last_update_ts : Nat, is_valid : BOOLEAN]

GovTypeOK ==
    /\ authority \in Keys \cup {None}
    /\ proposed \in Keys \cup {None}
    /\ feeAuthority \in Keys \cup {None}
    /\ proposer \in Keys \cup {None}
    /\ paused \in BOOLEAN
    /\ assetCount \in 0..(U8 - 1)
    /\ DOMAIN feeds \subseteq Mints
    /\ \A m \in DOMAIN feeds : feeds[m] \in Feed
    /\ fees \in Nat
    /\ treasuryTokens \in Nat
    /\ accrued \in Nat
    /\ collected \in Nat
    /\ now \in Nat

\* Nothing is deployed.
GovInit ==
    /\ authority = None
    /\ proposed = None
    /\ feeAuthority = None
    /\ proposer = None
    /\ paused = FALSE
    /\ assetCount = 0
    /\ feeds = [m \in {} |-> [price |-> 0, last_update_ts |-> 0,
                              is_valid |-> FALSE]]
    /\ fees = 0
    /\ treasuryTokens = 0
    /\ accrued = 0
    /\ collected = 0
    /\ now = 0

-----------------------------------------------------------------------------
\* Both accounts are created here, so this succeeds once.
InitProtocol(k) ==
    /\ authority = None
    /\ authority' = k
    /\ proposed' = None
    /\ proposer' = None
    /\ feeAuthority' = k
    /\ paused' = FALSE
    /\ assetCount' = 0
    /\ fees' = 0
    /\ UNCHANGED <<feeds, treasuryTokens, accrued, collected, now>>

\* Mistake to catch: the accounts of an asset may be created again.
ConfigureAssetAgain(k, m) ==
    /\ k = authority
    /\ ~paused
    /\ feeds' = [n \in DOMAIN feeds \cup {m} |->
                    IF n = m THEN [price |-> 0, last_update_ts |-> 0,
                                   is_valid |-> FALSE]
                    ELSE feeds[n]]
    /\ assetCount' = IF assetCount < U8 - 1 THEN assetCount + 1 ELSE assetCount
    /\ UNCHANGED <<roles, paused, money, now>>

\* Mistake to catch: the counter wraps around.
ConfigureAssetWrapping(k, m) ==
    /\ k = authority
    /\ ~paused
    /\ m \notin DOMAIN feeds
    /\ feeds' = [n \in DOMAIN feeds \cup {m} |->
                    IF n = m THEN [price |-> 0, last_update_ts |-> 0,
                                   is_valid |-> FALSE]
                    ELSE feeds[n]]
    /\ assetCount' = (assetCount + 1) % U8
    /\ UNCHANGED <<roles, paused, money, now>>

\* Creates the vault and the price feed of a mint, without a price.
ConfigureAsset(k, m) ==
    /\ k = authority
    /\ ~paused
    /\ m \notin DOMAIN feeds
    /\ feeds' = [n \in DOMAIN feeds \cup {m} |->
                    IF n = m THEN [price |-> 0, last_update_ts |-> 0,
                                   is_valid |-> FALSE]
                    ELSE feeds[n]]
    /\ assetCount' = IF assetCount < U8 - 1 THEN assetCount + 1 ELSE assetCount
    /\ UNCHANGED <<roles, paused, money, now>>

\* Possible while paused.
SetPriceFeed(k, m, price) ==
    /\ k = authority
    /\ m \in DOMAIN feeds
    /\ feeds' = [feeds EXCEPT ![m] = [price |-> price, last_update_ts |-> now,
                                      is_valid |-> TRUE]]
    /\ UNCHANGED <<roles, paused, assetCount, money, now>>

\* Of all its parameters the handler stores only is_active, as the validity of
\* the price.
UpdateAssetConfig(k, m, active) ==
    /\ k = authority
    /\ ~paused
    /\ m \in DOMAIN feeds
    /\ feeds' = [feeds EXCEPT ![m].is_valid = active]
    /\ UNCHANGED <<roles, paused, assetCount, money, now>>

SetPausedBy(k, value) ==
    /\ k = authority
    /\ paused' = value
    /\ UNCHANGED <<roles, assets, money, now>>

\* Mistake to catch: the signer need not be the authority.
TransferAuthorityByAnyone(k, new) ==
    /\ authority # None
    /\ proposed' = new
    /\ proposer' = k
    /\ UNCHANGED <<authority, feeAuthority, paused, assets, money, now>>

\* Both keys sign.
TransferAuthority(k, new) ==
    /\ k = authority
    /\ proposed' = new
    /\ proposer' = k
    /\ UNCHANGED <<authority, feeAuthority, paused, assets, money, now>>

\* Mistake to catch: the proposal stands after it was accepted.
AcceptAuthorityKeeping(k) ==
    /\ k = proposed
    /\ authority' = k
    /\ UNCHANGED <<proposed, proposer, feeAuthority, paused, assets, money,
                   now>>

\* The fee authority does not change.
AcceptAuthority(k) ==
    /\ k = proposed
    /\ authority' = k
    /\ proposed' = None
    /\ proposer' = None
    /\ UNCHANGED <<feeAuthority, paused, assets, money, now>>

\* Mistake to catch: a transfer that does not need the treasury to have funds.
WithdrawTreasuryUnfunded(k, amount) ==
    /\ k = authority
    /\ amount > 0
    /\ treasuryTokens' = treasuryTokens - amount
    /\ UNCHANGED <<roles, paused, assets, fees, accrued, collected, now>>

WithdrawTreasury(k, amount) ==
    /\ k = authority
    /\ amount > 0
    /\ treasuryTokens >= amount
    /\ treasuryTokens' = treasuryTokens - amount
    /\ UNCHANGED <<roles, paused, assets, fees, accrued, collected, now>>

\* The accumulator is reset and an event emitted; no tokens move.
CollectFees(k) ==
    /\ k = feeAuthority
    /\ collected' = collected + fees
    /\ fees' = 0
    /\ UNCHANGED <<roles, paused, assets, treasuryTokens, accrued, now>>

\* The one write of handle_liquidate here (module Lending has the handler).
AccrueFee(fee) ==
    /\ authority # None
    /\ ~paused
    /\ accrued + fee <= MaxFees
    /\ fees' = IF fees + fee < U64 THEN fees + fee ELSE U64 - 1
    /\ accrued' = accrued + fee
    /\ UNCHANGED <<roles, paused, assets, treasuryTokens, collected, now>>

\* External: anyone may send tokens to the treasury's account.
FundTreasury(amount) ==
    /\ treasuryTokens + amount <= MaxFees
    /\ treasuryTokens' = treasuryTokens + amount
    /\ UNCHANGED <<roles, paused, assets, fees, accrued, collected, now>>

\* External: time passes.
Tick ==
    /\ now < MaxTime
    /\ now' = now + 1
    /\ UNCHANGED <<roles, paused, assets, money>>

\* The handlers that concern no account of the lending core.
Administer ==
    \E k \in Keys :
        \/ \E m \in Mints, price \in Prices : SetPriceFeed(k, m, price)
        \/ \E m \in Mints, active \in BOOLEAN : UpdateAssetConfig(k, m, active)
        \/ \E new \in Keys : TransferAuthority(k, new)
        \/ AcceptAuthority(k)
        \/ \E amount \in Fees : WithdrawTreasury(k, amount)

GovNext ==
    \/ Administer
    \/ \E k \in Keys :
          \/ InitProtocol(k)
          \/ \E m \in Mints : ConfigureAsset(k, m)
          \/ \E value \in BOOLEAN : SetPausedBy(k, value)
          \/ CollectFees(k)
    \/ \E fee \in Fees : AccrueFee(fee) \/ FundTreasury(fee)
    \/ Tick

GovSpec == GovInit /\ [][GovNext]_govVars

-----------------------------------------------------------------------------
\* A standing proposal was made by the key that is the authority now: a
\* proposal does not survive the change of authority that it led to, however
\* many were made before.
ProposalIsTheAuthoritys == proposed # None => proposer = authority

\* asset_count counts each configured asset once, until it saturates.
AssetsCountedOnce ==
    assetCount = IF Cardinality(DOMAIN feeds) < U8
                 THEN Cardinality(DOMAIN feeds) ELSE U8 - 1

\* Every fee is collected once, or waits to be.
FeesCollectedOnce == collected + fees = accrued

\* The authority changes only to a key that signed for it twice, and that the
\* authority of that very moment had named.
HandoverByBoth ==
    [][(authority # None /\ authority' # authority)
         => authority' = proposed /\ proposer = authority]_govVars
=============================================================================
