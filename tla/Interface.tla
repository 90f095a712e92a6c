------------------------------ MODULE Interface ------------------------------
(***************************************************************************)
(* The interface of the on-chain program as its clients see it             *)
(* (app/src/lib/protocol.ts, the description Anchor generates): where its  *)
(* accounts live, which accounts each instruction takes and how, and how   *)
(* the fields of an account are laid out.                                  *)
(*                                                                         *)
(* The address of an account of the program is what it is derived from:    *)
(* the tuple of its seeds.  Wallets and mints stand for their own address. *)
(***************************************************************************)
EXTENDS Integers, Sequences, FiniteSetsExt

\* Addresses (derive...PDA).
ProtocolState        == <<"liilend-protocol">>
Treasury             == <<"liilend-treasury">>
Vault(m)             == <<"liilend-vault", m>>
PriceFeed(m)         == <<"liilend-price-feed", m>>
UserAccount(u)       == <<"liilend-user", u>>
UserCollateral(u, m) == <<"liilend-user", u, m>>
BorrowPosition(u, m) == <<"liilend-borrow", u, m>>

\* External: associated token accounts, the oracles' accounts, the token and
\* the system program.
Ata(owner, m) == <<"ata", owner, m>>
Pyth(m)       == <<"pyth", m>>
Switchboard(m) == <<"switchboard", m>>
Programs      == {<<"token">>, <<"system">>}

-----------------------------------------------------------------------------
(* The accounts of each instruction: those it may write, those it only       *)
(* reads, and who must sign.                                                 *)

Takes(writable, readonly, signers) ==
    [writable |-> writable, readonly |-> readonly \ writable,
     signers |-> signers]

InitProtocol(payer, key) ==
    Takes({ProtocolState, Treasury, payer}, {key} \cup Programs, {payer, key})

ConfigureAsset(payer, key, m) ==
    Takes({ProtocolState, Vault(m), PriceFeed(m), payer},
          {m, key} \cup Programs, {payer, key})

SetPriceFeed(key, m) ==
    Takes({ProtocolState, PriceFeed(m)}, {Pyth(m), Switchboard(m), m, key},
          {key})

UpdateAssetConfig(key, m) ==
    Takes({ProtocolState, PriceFeed(m)}, {m, key}, {key})

SetPaused(key) == Takes({ProtocolState}, {key}, {key})

TransferAuthority(key, new) == Takes({ProtocolState}, {key, new}, {key, new})

AcceptAuthority(key) == Takes({ProtocolState}, {key}, {key})

CollectFees(key) == Takes({ProtocolState, Treasury, key}, {}, {key})

WithdrawTreasury(key, recipient, m) ==
    Takes({ProtocolState, Treasury, Ata(Treasury, m), Ata(recipient, m), key},
          {m} \cup Programs, {key})

\* Mistake to catch: ProtocolState is declared as read only.
DepositCollateralReading(u, m) ==
    Takes({Vault(m), UserCollateral(u, m), UserAccount(u),
           Ata(Vault(m), m), Ata(u, m), u},
          {ProtocolState, m} \cup Programs, {u})

DepositCollateral(u, m) ==
    Takes({ProtocolState, Vault(m), UserCollateral(u, m), UserAccount(u),
           Ata(Vault(m), m), Ata(u, m), u}, {m} \cup Programs, {u})

\* Mistakes to catch: ProtocolState, which the handler only reads, is declared
\* so; the owner need not sign.
WithdrawCollateralReading(u, m) ==
    Takes({Vault(m), UserCollateral(u, m), UserAccount(u),
           Ata(Vault(m), m), Ata(u, m), u},
          {ProtocolState, m} \cup Programs, {u})

WithdrawCollateralUnsigned(u, m) ==
    Takes({ProtocolState, Vault(m), UserCollateral(u, m), UserAccount(u),
           Ata(Vault(m), m), Ata(u, m), u}, {m} \cup Programs, {})

WithdrawCollateral(u, m) ==
    Takes({ProtocolState, Vault(m), UserCollateral(u, m), UserAccount(u),
           Ata(Vault(m), m), Ata(u, m), u}, {m} \cup Programs, {u})

\* The price accounts are read only, and so are the mints' prices.
BorrowAsset(u, c, m) ==
    Takes({ProtocolState, Vault(m), UserAccount(u), BorrowPosition(u, m),
           Ata(Vault(m), m), Ata(u, m), u},
          {m, PriceFeed(c), PriceFeed(m)} \cup Programs, {u})

RepayDebt(u, m) ==
    Takes({ProtocolState, Vault(m), BorrowPosition(u, m), UserAccount(u),
           Ata(Vault(m), m), Ata(u, m), u}, {m} \cup Programs, {u})

\* What a liquidation takes of the position it closes.
Liquidated(u, c, b) ==
    {UserAccount(u), UserCollateral(u, c), BorrowPosition(u, b)}

\* The owner of the position neither signs nor pays.
LiquidatePosition(liquidator, u, c, b) ==
    Takes({ProtocolState, Treasury, Vault(c), Vault(b), Ata(Vault(c), c),
           Ata(Vault(b), b), Ata(liquidator, b), liquidator}
              \cup Liquidated(u, c, b),
          {c, b, u} \cup Programs, {liquidator})

-----------------------------------------------------------------------------
(* The fields of each account with their widths in bytes, in order.  The     *)
(* data of an account starts with eight bytes that tell its type.            *)

DISCRIMINATOR == 8

BorrowPositionFields ==
    << <<"owner", 32>>, <<"borrowMint", 32>>, <<"debtShares", 16>>,
       <<"borrowTs", 8>>, <<"lastAccrualTs", 8>>, <<"bump", 1>> >>

UserCollateralFields ==
    << <<"owner", 32>>, <<"assetMint", 32>>, <<"shares", 16>>,
       <<"depositTs", 8>>, <<"bump", 1>> >>

UserAccountFields ==
    << <<"owner", 32>>, <<"collateralShares", 16>>, <<"debtShares", 16>>,
       <<"lastInteractionTs", 8>>, <<"bump", 1>> >>

PriceFeedFields ==
    << <<"assetMint", 32>>, <<"price", 8>>, <<"decimals", 1>>,
       <<"confidence", 8>>, <<"emaPrice", 8>>, <<"lastUpdateTs", 8>>,
       <<"oracleSource", 1>>, <<"isValid", 1>>, <<"bump", 1>> >>

TreasuryFields ==
    << <<"treasuryBump", 1>>, <<"feeAccumulator", 8>>, <<"insuranceFund", 8>>,
       <<"spreadRevenue", 8>>, <<"liquidationFees", 8>> >>

VaultFields ==
    << <<"assetMint", 32>>, <<"totalShares", 16>>, <<"totalValue", 8>>,
       <<"protocolIntegration", 1>>, <<"integratedProtocolMarket", 32>>,
       <<"lpTokenAccount", 32>>, <<"yieldAccrued", 8>>,
       <<"lastYieldUpdateTs", 8>>, <<"bump", 1>> >>

ProtocolStateFields ==
    << <<"authority", 32>>, <<"proposedAuthority", 32>>, <<"treasury", 32>>,
       <<"feeAuthority", 32>>, <<"paused", 1>>, <<"assetCount", 1>>,
       <<"globalDepositShares", 16>>, <<"globalDebtShares", 16>>,
       <<"totalDepositsUsd", 16>>, <<"totalBorrowsUsd", 16>>,
       <<"protocolFeesAccrued", 8>>, <<"lastUpdateTs", 8>>, <<"bump", 1>> >>

\* The accounts of the program by type.
Fields ==
    [borrowPosition        |-> BorrowPositionFields,
     userCollateralAccount |-> UserCollateralFields,
     userAccount           |-> UserAccountFields,
     priceFeed             |-> PriceFeedFields,
     treasuryAccount       |-> TreasuryFields,
     vaultAccount          |-> VaultFields,
     protocolState         |-> ProtocolStateFields]

\* Where each field ends: the first begins after the discriminator.
Ends(type) ==
    LET end[n \in 0..Len(Fields[type])] ==
            IF n = 0 THEN DISCRIMINATOR ELSE end[n - 1] + Fields[type][n][2]
    IN  end

\* How long the account is.
Size(type) == Ends(type)[Len(Fields[type])]

\* The field that starts at an offset of an account of this type, if any.
FieldsAt(type, offset) ==
    {Fields[type][i][1] :
        i \in {j \in 1..Len(Fields[type]) : Ends(type)[j - 1] = offset}}

-----------------------------------------------------------------------------
\* The events that the instructions emit.
Events ==
    {"assetConfigUpdated", "assetConfigured", "authorityTransferStarted",
     "authorityTransferred", "borrowEvent", "depositEvent", "feesCollected",
     "liquidationEvent", "pausedStateChanged", "priceFeedUpdated",
     "repayEvent", "treasuryWithdraw", "withdrawEvent"}
=============================================================================
