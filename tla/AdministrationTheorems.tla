----------------------- MODULE AdministrationTheorems -----------------------
(***************************************************************************)
(* What holds of the administration (module Governance) and of the scripts *)
(* that deploy the program (module Deployment), for every set of keys,     *)
(* mints and terminals, every width of the counters and every number of    *)
(* steps.                                                                  *)
(***************************************************************************)
EXTENDS Deployment, FiniteSetTheorems, TLAPS

\* The types that the other proofs need.  The bounds hold because an
\* accumulator saturates instead of wrapping around.
THEOREM GovTypeCorrect == GovSpec => []GovTypeOK
<1> USE NoneAssumption, WidthAssumption, PricesAssumption
<1>1. GovInit => GovTypeOK
  <2> SUFFICES ASSUME GovInit PROVE GovTypeOK
    OBVIOUS
  <2>1. DOMAIN feeds = {}
    BY DEF GovInit
  <2>2. assetCount \in 0..(U8 - 1)
    BY DEF GovInit
  <2> QED BY <2>1, <2>2 DEF GovInit, GovTypeOK
<1>2. GovTypeOK /\ [GovNext]_govVars => GovTypeOK'
  <2> SUFFICES ASSUME GovTypeOK, [GovNext]_govVars PROVE GovTypeOK'
    OBVIOUS
  <2> USE DEF GovTypeOK, roles, assets, money
  <2>1. ASSUME NEW k \in Keys, InitProtocol(k) PROVE GovTypeOK'
    <3>1. assetCount' \in 0..(U8 - 1) /\ fees' \in Nat
      BY <2>1 DEF InitProtocol
    <3>2. feeds' = feeds
      BY <2>1 DEF InitProtocol
    <3> QED BY <2>1, <3>1, <3>2 DEF InitProtocol
  <2>2. ASSUME NEW k \in Keys, NEW m \in Mints, ConfigureAsset(k, m)
        PROVE GovTypeOK'
    <3>1. assetCount' \in 0..(U8 - 1)
      BY <2>2 DEF ConfigureAsset
    <3>2. DOMAIN feeds' \subseteq Mints /\ \A n \in DOMAIN feeds' :
             feeds'[n] \in Feed
      BY <2>2 DEF ConfigureAsset, Feed
    <3> QED BY <2>2, <3>1, <3>2 DEF ConfigureAsset
  <2>3. ASSUME NEW k \in Keys, NEW m \in Mints, NEW price \in Prices,
               SetPriceFeed(k, m, price)
        PROVE GovTypeOK'
    BY <2>3 DEF SetPriceFeed, Feed
  <2>4. ASSUME NEW k \in Keys, NEW m \in Mints, NEW active \in BOOLEAN,
               UpdateAssetConfig(k, m, active)
        PROVE GovTypeOK'
    <3>1. DOMAIN feeds' = DOMAIN feeds
      BY <2>4 DEF UpdateAssetConfig
    <3>2. ASSUME NEW n \in DOMAIN feeds PROVE feeds'[n] \in Feed
      <4>1. feeds[n] \in Feed
        OBVIOUS
      <4>2. feeds'[n] = IF n = m THEN [feeds[m] EXCEPT !.is_valid = active]
                        ELSE feeds[n]
        BY <2>4 DEF UpdateAssetConfig
      <4> QED BY <4>1, <4>2 DEF Feed
    <3> QED BY <2>4, <3>1, <3>2 DEF UpdateAssetConfig
  <2>5. ASSUME NEW k \in Keys, NEW new \in Keys, TransferAuthority(k, new)
        PROVE GovTypeOK'
    BY <2>5 DEF TransferAuthority
  <2>6. ASSUME NEW k \in Keys, AcceptAuthority(k) PROVE GovTypeOK'
    BY <2>6 DEF AcceptAuthority
  <2>7. ASSUME NEW k \in Keys, NEW amount \in Fees, WithdrawTreasury(k, amount)
        PROVE GovTypeOK'
    BY <2>7 DEF WithdrawTreasury
  <2>8. ASSUME NEW k \in Keys, CollectFees(k) PROVE GovTypeOK'
    BY <2>8 DEF CollectFees
  <2>9. ASSUME NEW k \in Keys, NEW value \in BOOLEAN, SetPausedBy(k, value)
        PROVE GovTypeOK'
    BY <2>9 DEF SetPausedBy
  <2>10. ASSUME NEW fee \in Fees, AccrueFee(fee) PROVE GovTypeOK'
    BY <2>10 DEF AccrueFee
  <2>11. ASSUME NEW fee \in Fees, FundTreasury(fee) PROVE GovTypeOK'
    BY <2>11 DEF FundTreasury
  <2>12. CASE Tick
    BY <2>12 DEF Tick
  <2>13. CASE UNCHANGED govVars
    BY <2>13 DEF govVars
  <2> QED
    BY <2>1, <2>2, <2>3, <2>4, <2>5, <2>6, <2>7, <2>8, <2>9, <2>10, <2>11,
       <2>12, <2>13 DEF GovNext, Administer
<1> QED BY <1>1, <1>2, PTL DEF GovSpec

-----------------------------------------------------------------------------
\* Who proposed has not been replaced since; before there is an authority,
\* nobody can have proposed.
ProposalStands ==
    /\ authority = None => proposed = None
    /\ ProposalIsTheAuthoritys

LEMMA ProposalStays ==
    ASSUME ProposalStands, [GovNext]_govVars
    PROVE  ProposalStands'
<1> USE NoneAssumption DEF ProposalStands, ProposalIsTheAuthoritys, roles
<1>1. CASE \E k \in Keys : InitProtocol(k)
  BY <1>1 DEF InitProtocol
<1>2. CASE \E k \in Keys : AcceptAuthority(k)
  BY <1>2 DEF AcceptAuthority
<1>3. CASE \E k, new \in Keys : TransferAuthority(k, new)
  BY <1>3 DEF TransferAuthority
<1>4. CASE UNCHANGED <<proposed, proposer, authority>>
  BY <1>4
<1> QED
  BY <1>1, <1>2, <1>3, <1>4
  DEF GovNext, Administer, govVars, ConfigureAsset, SetPriceFeed,
      UpdateAssetConfig, WithdrawTreasury, CollectFees, SetPausedBy,
      AccrueFee, FundTreasury, Tick

LEMMA ProposalStandsAlways == GovSpec => []ProposalStands
<1>1. GovInit => ProposalStands
  BY DEF GovInit, ProposalStands, ProposalIsTheAuthoritys
<1>2. ProposalStands /\ [GovNext]_govVars => ProposalStands'
  BY ProposalStays
<1> QED
  BY <1>1, <1>2, PTL DEF GovSpec

\* A standing proposal was made by the key that is the authority now
\* (handle_transfer_authority, handle_accept_authority).
THEOREM ProposalAlwaysTheAuthoritys == GovSpec => []ProposalIsTheAuthoritys
<1>1. ProposalStands => ProposalIsTheAuthoritys
  BY DEF ProposalStands
<1> QED BY <1>1, ProposalStandsAlways, PTL

\* The authority changes only to the key that it had named itself and that
\* signed for it (handle_accept_authority).
THEOREM HandoverAlwaysByBoth == GovSpec => HandoverByBoth
<1>1. ProposalStands /\ [GovNext]_govVars
        => [(authority # None /\ authority' # authority)
              => authority' = proposed /\ proposer = authority]_govVars
  <2> SUFFICES ASSUME ProposalStands, GovNext, authority # None,
                      authority' # authority
               PROVE  authority' = proposed /\ proposer = authority
    OBVIOUS
  <2>1. PICK k \in Keys : AcceptAuthority(k)
    BY DEF GovNext, Administer, roles, InitProtocol, ConfigureAsset,
           SetPriceFeed, UpdateAssetConfig, TransferAuthority,
           WithdrawTreasury, CollectFees, SetPausedBy, AccrueFee,
           FundTreasury, Tick
  <2> QED
    BY <2>1, NoneAssumption
    DEF AcceptAuthority, ProposalStands, ProposalIsTheAuthoritys
<1> QED BY <1>1, ProposalStandsAlways, PTL DEF GovSpec, HandoverByBoth

-----------------------------------------------------------------------------
\* Every fee is collected once, or waits to be, as long as the fees of all
\* liquidations together fit the 64 bits of the accumulator
\* (handle_collect_fees, handle_liquidate).
FeeBooks ==
    /\ fees \in Nat
    /\ collected \in Nat
    /\ accrued <= MaxFees
    /\ authority = None => fees = 0
    /\ FeesCollectedOnce

THEOREM FeesAlwaysCollectedOnce ==
    ASSUME MaxFees \in Nat, MaxFees < U64
    PROVE  GovSpec => []FeesCollectedOnce
<1> USE WidthAssumption, PricesAssumption DEF FeeBooks, FeesCollectedOnce
<1>1. GovInit => FeeBooks
  BY DEF GovInit
<1>2. FeeBooks /\ [GovNext]_govVars => FeeBooks'
  <2> SUFFICES ASSUME FeeBooks, [GovNext]_govVars PROVE FeeBooks'
    OBVIOUS
  <2>1. CASE \E k \in Keys : CollectFees(k)
    BY <2>1 DEF CollectFees, roles
  <2>2. CASE \E fee \in Fees : AccrueFee(fee)
    BY <2>2 DEF AccrueFee, roles
  <2>3. ASSUME NEW k \in Keys, InitProtocol(k) PROVE FeeBooks'
    <3>1. /\ fees = 0 /\ fees' = 0
          /\ collected' = collected /\ accrued' = accrued
      BY <2>3 DEF InitProtocol
    <3>2. authority' # None
      BY <2>3, NoneAssumption DEF InitProtocol
    <3> QED BY <3>1, <3>2
  <2>4. CASE /\ UNCHANGED <<fees, collected, accrued>>
             /\ authority' = None => authority = None
    BY <2>4
  <2> QED
    BY <2>1, <2>2, <2>3, <2>4, NoneAssumption
    DEF GovNext, Administer, govVars, roles, money, ConfigureAsset,
        SetPriceFeed, UpdateAssetConfig, TransferAuthority, AcceptAuthority,
        WithdrawTreasury, SetPausedBy, FundTreasury, Tick
<1>3. FeeBooks => FeesCollectedOnce
  OBVIOUS
<1> QED BY <1>1, <1>2, <1>3, PTL DEF GovSpec

-----------------------------------------------------------------------------
\* asset_count counts each configured asset once, until it saturates
\* (handle_configure_asset).
CountedAssets ==
    /\ IsFiniteSet(DOMAIN feeds)
    /\ authority = None => DOMAIN feeds = {}
    /\ AssetsCountedOnce

THEOREM AssetsAlwaysCountedOnce == GovSpec => []AssetsCountedOnce
<1> USE WidthAssumption, NoneAssumption DEF CountedAssets, AssetsCountedOnce
<1>1. GovInit => CountedAssets
  <2> SUFFICES ASSUME GovInit PROVE CountedAssets
    OBVIOUS
  <2>1. DOMAIN feeds = {} /\ assetCount = 0
    BY DEF GovInit
  <2> QED BY <2>1, FS_EmptySet
<1>2. CountedAssets /\ [GovNext]_govVars => CountedAssets'
  <2> SUFFICES ASSUME CountedAssets, [GovNext]_govVars PROVE CountedAssets'
    OBVIOUS
  <2>1. ASSUME NEW k \in Keys, NEW m \in Mints, ConfigureAsset(k, m)
        PROVE  CountedAssets'
    <3>1. DOMAIN feeds' = DOMAIN feeds \cup {m} /\ m \notin DOMAIN feeds
      BY <2>1 DEF ConfigureAsset
    <3>2. /\ IsFiniteSet(DOMAIN feeds')
          /\ Cardinality(DOMAIN feeds') = Cardinality(DOMAIN feeds) + 1
      BY <3>1, FS_AddElement
    <3>3. Cardinality(DOMAIN feeds) \in Nat
      BY FS_CardinalityType
    <3>4. assetCount' = IF assetCount < U8 - 1 THEN assetCount + 1
                        ELSE assetCount
      BY <2>1 DEF ConfigureAsset
    <3>5. authority' # None
      BY <2>1 DEF ConfigureAsset, roles
    <3> QED BY <3>2, <3>3, <3>4, <3>5
  <2>2. ASSUME NEW k \in Keys, InitProtocol(k) PROVE CountedAssets'
    <3>1. DOMAIN feeds' = {} /\ assetCount' = 0 /\ authority' = k
      BY <2>2 DEF InitProtocol
    <3> QED BY <3>1, FS_EmptySet
  <2>3. CASE /\ DOMAIN feeds' = DOMAIN feeds /\ assetCount' = assetCount
             /\ authority' = None => authority = None
    BY <2>3
  <2> QED
    BY <2>1, <2>2, <2>3
    DEF GovNext, Administer, govVars, roles, assets, SetPriceFeed,
        UpdateAssetConfig, TransferAuthority, AcceptAuthority,
        WithdrawTreasury, CollectFees, SetPausedBy, AccrueFee, FundTreasury,
        Tick
<1>3. CountedAssets => AssetsCountedOnce
  OBVIOUS
<1> QED BY <1>1, <1>2, <1>3, PTL DEF GovSpec

-----------------------------------------------------------------------------
(***************************************************************************)
(* The deployment scripts.                                                 *)
(***************************************************************************)

\* The transactions that a run may send.
Txs == {InitTx} \cup {ConfigureTx(m) : m \in Mints}
           \cup {TransferTx(k) : k \in Keys}

RunStates == [at : {"ended", "read", "sent"}, step : 0..(N + 1),
              to : Keys \cup {None}, raced : BOOLEAN, refused : BOOLEAN]

\* Where the scripts are; what was sent is signed by keys.
ScriptsOk ==
    /\ script \in [Runs -> RunStates]
    /\ \A r \in Runs :
          (script[r].at = "sent" /\ script[r].step = N + 1) =>
              script[r].to \in Keys
    /\ late \subseteq Txs

LEMMA StepsAreNumbers == N \in Nat /\ \A i \in 1..N : ASSET_CONFIGS[i] \in Mints
BY ConfigsAssumption DEF N

LEMMA IdleIsARun ==
    /\ Idle \in RunStates /\ Idle.at = "ended" /\ Idle.step = 0
    /\ ~Idle.refused /\ ~Idle.raced
BY StepsAreNumbers DEF Idle, RunStates

LEMMA GoToIsARun ==
    ASSUME NEW step \in 0..(N + 1)
    PROVE  /\ GoTo(step) \in RunStates
           /\ GoTo(step).at = "read" /\ GoTo(step).step = step
           /\ ~GoTo(step).refused /\ ~GoTo(step).raced
BY DEF GoTo, Idle, RunStates

\* What a run sends is one of the transactions, by the kind of its step.
LEMMA TxOfARun ==
    ASSUME ScriptsOk, NEW r \in Runs, script[r].at = "sent"
    PROVE  /\ TxOf(script[r]) \in Txs
           /\ script[r].step = 0 => TxOf(script[r]) = InitTx
           /\ script[r].step \in 1..N =>
                 TxOf(script[r]) = ConfigureTx(ASSET_CONFIGS[script[r].step])
<1>1. script[r].step \in 0..(N + 1) /\ N \in Nat
  BY StepsAreNumbers DEF ScriptsOk, RunStates
<1>2. CASE script[r].step = 0
  BY <1>1, <1>2 DEF TxOf, Txs
<1>3. CASE script[r].step \in 1..N
  <2>1. TxOf(script[r]) = ConfigureTx(ASSET_CONFIGS[script[r].step])
    BY <1>1, <1>3 DEF TxOf
  <2> QED
    BY <1>1, <1>3, <2>1, StepsAreNumbers DEF Txs
<1>4. CASE script[r].step = N + 1
  <2>1. TxOf(script[r]) = TransferTx(script[r].to) /\ script[r].to \in Keys
    BY <1>1, <1>4 DEF TxOf, ScriptsOk
  <2> QED
    BY <1>1, <1>4, <2>1 DEF Txs
<1> QED
  BY <1>1, <1>2, <1>3, <1>4

\* What the execution of a transaction does to the state of the program.
LEMMA ExecuteIsGovernance ==
    ASSUME NEW tx \in Txs, Execute(tx)
    PROVE  /\ GovNext
           /\ authority' # None
           /\ authority # None => authority' = authority
           /\ DOMAIN feeds \subseteq DOMAIN feeds'
           /\ tx = InitTx => authority' # None
           /\ \A m \in Mints : tx = ConfigureTx(m) => m \in DOMAIN feeds'
<1>1. Deployer \in Keys /\ Deployer # None
  BY DeployerAssumption, NoneAssumption
<1>2. CASE tx = InitTx
  <2>1. InitProtocol(Deployer) /\ tx.kind = "initProtocol"
    BY <1>2 DEF Execute, InitTx
  <2>2. \A m \in Mints : tx # ConfigureTx(m)
    BY <2>1 DEF ConfigureTx
  <2> QED
    BY <1>1, <2>1, <2>2 DEF InitProtocol, GovNext
<1>3. ASSUME NEW m \in Mints, tx = ConfigureTx(m)
      PROVE  /\ GovNext
             /\ authority' = authority /\ authority = Deployer
             /\ DOMAIN feeds' = DOMAIN feeds \cup {m}
  <2>1. ConfigureAsset(Deployer, m)
    BY <1>3 DEF Execute, ConfigureTx
  <2> QED
    BY <1>1, <2>1 DEF ConfigureAsset, GovNext, roles
<1>4. ASSUME NEW k \in Keys, tx = TransferTx(k)
      PROVE  /\ GovNext
             /\ authority' = authority /\ authority = Deployer
             /\ feeds' = feeds
             /\ tx # InitTx /\ \A m \in Mints : tx # ConfigureTx(m)
  <2>1. TransferAuthority(Deployer, k) /\ tx.kind = "transferAuthority"
    BY <1>4 DEF Execute, TransferTx
  <2>2. tx # InitTx /\ \A m \in Mints : tx # ConfigureTx(m)
    BY <2>1 DEF InitTx, ConfigureTx
  <2> QED
    BY <1>1, <2>1, <2>2 DEF TransferAuthority, GovNext, Administer, assets
<1>5. \A m, n \in Mints : ConfigureTx(m) = ConfigureTx(n) => m = n
  BY DEF ConfigureTx
<1> QED
  BY <1>1, <1>2, <1>3, <1>4, <1>5 DEF Txs

\* By hand nothing is created, and a proposal needs an authority.
LEMMA ByHandIsGovernance ==
    ASSUME ProposalStands, ByHand
    PROVE  /\ GovNext
           /\ feeds' = feeds
           /\ (authority' = None) <=> (authority = None)
<1>1. CASE \E k \in Keys : AcceptAuthority(k)
  BY <1>1, NoneAssumption
     DEF AcceptAuthority, GovNext, Administer, assets, ProposalStands
<1>2. CASE \E k \in Keys, value \in BOOLEAN : SetPausedBy(k, value)
  BY <1>2 DEF SetPausedBy, GovNext, assets, roles
<1>3. CASE \E k, new \in Keys : TransferAuthority(k, new)
  BY <1>3 DEF TransferAuthority, GovNext, Administer, assets
<1> QED
  BY <1>1, <1>2, <1>3 DEF ByHand

\* Raced changes nothing but the history of the runs that are under way.
LEMMA RacedKeepsRuns ==
    ASSUME ScriptsOk, NEW others
    PROVE  /\ Raced(others) \in [Runs -> RunStates]
           /\ \A r \in Runs :
                 /\ Raced(others)[r].at = script[r].at
                 /\ Raced(others)[r].step = script[r].step
                 /\ Raced(others)[r].to = script[r].to
                 /\ Raced(others)[r].refused = script[r].refused
                 /\ (r \in others /\ script[r].at # "ended") =>
                       Raced(others)[r].raced
BY DEF Raced, ScriptsOk, RunStates

\* What the steps of a run do to the scripts, all in one: either the run is at
\* the same step and has read or sent, or it is at a later one, or it has ended.
LEMMA ScriptsStayOk ==
    ASSUME ScriptsOk, [DepNext]_depVars
    PROVE  ScriptsOk'
<1> USE StepsAreNumbers
<1>1. ASSUME NEW r \in Runs, NEW run \in RunStates,
             (run.at = "sent" /\ run.step = N + 1) => run.to \in Keys,
             script' = [script EXCEPT ![r] = run], late' \subseteq Txs
      PROVE  ScriptsOk'
  BY <1>1 DEF ScriptsOk
<1>2. ASSUME NEW r \in Runs, Launch(r) PROVE ScriptsOk'
  <2>1. [Idle EXCEPT !.at = "read"] \in RunStates
        /\ [Idle EXCEPT !.at = "read"].at = "read"
    BY IdleIsARun DEF RunStates
  <2> QED
    BY <1>1, <1>2, <2>1 DEF Launch, ScriptsOk
<1>3. ASSUME NEW r \in Runs, script[r].step \in 0..N,
             script' = [script EXCEPT ![r] = [@ EXCEPT !.at = "sent"]],
             late' = late
      PROVE  ScriptsOk'
  <2> DEFINE run == [script[r] EXCEPT !.at = "sent"]
  <2>1. script[r] \in RunStates
    BY DEF ScriptsOk
  <2>2. run \in RunStates /\ run.step # N + 1
    BY <1>3, <2>1 DEF RunStates
  <2>3. script' = [script EXCEPT ![r] = run]
    BY <1>3
  <2>4. late' \subseteq Txs
    BY <1>3 DEF ScriptsOk
  <2> HIDE DEF run
  <2> QED
    BY <1>1, <1>3, <2>2, <2>3, <2>4
<1>4. ASSUME NEW r \in Runs, NEW step \in 0..(N + 1),
             script' = [script EXCEPT ![r] = GoTo(step)], late' = late
      PROVE  ScriptsOk'
  BY <1>1, <1>4, GoToIsARun DEF ScriptsOk
<1>5. ASSUME NEW r \in Runs, ReadState(r) PROVE ScriptsOk'
  <2>1. script[r].step \in 0..N /\ late' = late /\ 1 \in 0..(N + 1)
    BY <1>5 DEF ReadState
  <2>2. CASE authority # None
    BY <1>4, <1>5, <2>1, <2>2 DEF ReadState
  <2>3. CASE authority = None
    <3>1. script' = [script EXCEPT ![r] = [@ EXCEPT !.at = "sent"]]
      BY <1>5, <2>3 DEF ReadState
    <3> QED
      BY <1>3, <2>1, <3>1
  <2> QED
    BY <2>2, <2>3
<1>6. ASSUME NEW r \in Runs, ReadVault(r) PROVE ScriptsOk'
  <2>1. /\ script[r].step \in 0..N /\ late' = late
        /\ script[r].step + 1 \in 0..(N + 1)
    BY <1>6 DEF ReadVault
  <2>2. CASE ASSET_CONFIGS[script[r].step] \in DOMAIN feeds
    <3>1. script' = [script EXCEPT ![r] = GoTo(script[r].step + 1)]
      BY <1>6, <2>2 DEF ReadVault
    <3> QED
      BY <1>4, <2>1, <3>1
  <2>3. CASE ASSET_CONFIGS[script[r].step] \notin DOMAIN feeds
    <3>1. script' = [script EXCEPT ![r] = [@ EXCEPT !.at = "sent"]]
      BY <1>6, <2>3 DEF ReadVault
    <3> QED
      BY <1>3, <2>1, <3>1
  <2> QED
    BY <2>2, <2>3
<1>7. ASSUME NEW r \in Runs, ReadMultisig(r) PROVE ScriptsOk'
  <2>1. PICK multisig \in MULTISIGS :
            /\ script' = [script EXCEPT ![r] =
                  IF multisig = None THEN Idle
                  ELSE [@ EXCEPT !.at = "sent", !.to = multisig]]
            /\ late' = late
    BY <1>7 DEF ReadMultisig
  <2>2. CASE multisig = None
    BY <1>1, <2>1, <2>2, IdleIsARun DEF ScriptsOk
  <2>3. CASE multisig # None
    <3> DEFINE run == [script[r] EXCEPT !.at = "sent", !.to = multisig]
    <3>1. multisig \in Keys
      BY <2>3, DeployerAssumption
    <3>2. script[r] \in RunStates
      BY DEF ScriptsOk
    <3>3. run \in RunStates /\ run.to \in Keys
      BY <3>1, <3>2 DEF RunStates
    <3>4. script' = [script EXCEPT ![r] = run] /\ late' \subseteq Txs
      BY <2>1, <2>3 DEF ScriptsOk
    <3> HIDE DEF run
    <3> QED
      BY <1>1, <3>3, <3>4
  <2> QED
    BY <2>2, <2>3
<1>8. ASSUME NEW r \in Runs, Confirmed(r) PROVE ScriptsOk'
  <2> DEFINE run == IF script[r].step = N + 1 THEN Idle
                    ELSE GoTo(script[r].step + 1)
             raced == Raced(Runs \ {r})
  <2>1. script' = [raced EXCEPT ![r] = run] /\ late' = late
    BY <1>8 DEF Confirmed
  <2>2. script[r].step \in 0..(N + 1)
    BY DEF ScriptsOk, RunStates
  <2>3. run \in RunStates /\ run.at # "sent"
    BY <2>2, IdleIsARun, GoToIsARun
  <2>4. /\ raced \in [Runs -> RunStates]
        /\ \A s \in Runs : /\ raced[s].at = script[s].at
                           /\ raced[s].step = script[s].step
                           /\ raced[s].to = script[s].to
    BY RacedKeepsRuns
  <2> HIDE DEF run, raced
  <2> QED
    BY <2>1, <2>3, <2>4 DEF ScriptsOk
<1>9. ASSUME NEW r \in Runs, Refused(r) PROVE ScriptsOk'
  <2>1. [Idle EXCEPT !.refused = TRUE] \in RunStates
        /\ [Idle EXCEPT !.refused = TRUE].at = "ended"
    BY IdleIsARun DEF RunStates
  <2> QED
    BY <1>1, <1>9, <2>1 DEF Refused, ScriptsOk
<1>10. ASSUME NEW r \in Runs, GiveUp(r) PROVE ScriptsOk'
  <2>1. late' \subseteq Txs
    BY <1>10, TxOfARun DEF GiveUp, ScriptsOk
  <2> QED
    BY <1>1, <1>10, <2>1, IdleIsARun DEF GiveUp
<1>11. ASSUME NEW tx \in late, LandLate(tx) \/ Expire(tx) PROVE ScriptsOk'
  <2>1. late' \subseteq Txs
    BY <1>11 DEF LandLate, Expire, ScriptsOk
  <2>2. script' = script \/ script' = Raced(Runs)
    BY <1>11 DEF LandLate, Expire
  <2> QED
    BY <2>1, <2>2, RacedKeepsRuns DEF ScriptsOk
<1>12. CASE UNCHANGED <<script, late>>
  BY <1>12 DEF ScriptsOk
<1> QED
  BY <1>2, <1>5, <1>6, <1>7, <1>8, <1>9, <1>10, <1>11, <1>12
     DEF DepNext, ScriptStep, StartVerify, Check, EndVerify, ByHand, depVars

\* A step of the scripts is a step of the administration or leaves it alone, and
\* takes away nothing that was created.
LEMMA ScriptsAreGovernance ==
    ASSUME ScriptsOk, ProposalStands, [DepNext]_depVars
    PROVE  /\ [GovNext]_govVars
           /\ authority # None => authority' # None
           /\ DOMAIN feeds \subseteq DOMAIN feeds'
<1>1. ASSUME NEW tx \in Txs, Execute(tx)
      PROVE  /\ GovNext
             /\ authority' # None
             /\ DOMAIN feeds \subseteq DOMAIN feeds'
  BY <1>1, ExecuteIsGovernance
<1>2. CASE \E r \in Runs : Confirmed(r)
  BY <1>1, <1>2, TxOfARun DEF Confirmed
<1>3. CASE \E tx \in late : LandLate(tx)
  BY <1>1, <1>3 DEF LandLate, ScriptsOk
<1>4. CASE ByHand
  BY <1>4, ByHandIsGovernance
<1>5. CASE UNCHANGED govVars
  BY <1>5 DEF govVars, roles, assets
<1> QED
  BY <1>2, <1>3, <1>4, <1>5
     DEF DepNext, ScriptStep, Launch, ReadState, ReadVault, ReadMultisig,
         Refused, GiveUp, Expire, StartVerify, Check, EndVerify, depVars

\* A run that is at a step finds what the earlier steps were for, and what it
\* has read before it sends stands, unless a transaction raced it.
IsSound(run) ==
    /\ run.at # "ended" =>
          /\ run.step > 0 => authority # None
          /\ \A i \in 1..N : i < run.step => ASSET_CONFIGS[i] \in DOMAIN feeds
    /\ (run.at = "sent" /\ ~run.raced) =>
          /\ run.step = 0 => authority = None
          /\ run.step \in 1..N => ASSET_CONFIGS[run.step] \notin DOMAIN feeds

RunsAreSound == \A r \in Runs : IsSound(script[r])

\* A run that is complete leaves the program ready, and a verification that
\* begins after it finds everything.
VerifiedReady ==
    /\ completed => Ready
    /\ verify.after => completed /\ ~verify.failed
    /\ verify \in [read : Nat, failed : BOOLEAN, after : BOOLEAN]
    /\ completed \in BOOLEAN

\* The inductive invariant, with that of the administration.
DepInvariant ==
    /\ ScriptsOk
    /\ ProposalStands
    /\ RunsAreSound
    /\ VerifiedReady

\* One run moves while the program stays as it is.
LEMMA OneRunMoves ==
    ASSUME ScriptsOk, RunsAreSound,
           NEW r \in Runs, NEW run \in RunStates, IsSound(run),
           script' = [script EXCEPT ![r] = run],
           authority' = authority, feeds' = feeds
    PROVE  RunsAreSound'
<1>1. \A s \in Runs : script'[s] = IF s = r THEN run ELSE script[s]
  BY DEF ScriptsOk
<1>2. \A s \in Runs : IsSound(script'[s])
  BY <1>1 DEF RunsAreSound
<1>3. \A s \in Runs : IsSound(script[s])' <=> IsSound(script'[s])
  BY DEF IsSound
<1> QED
  BY <1>2, <1>3 DEF RunsAreSound

LEMMA RunsStaySound ==
    ASSUME ScriptsOk, ProposalStands, RunsAreSound,
           [DepNext]_depVars
    PROVE  RunsAreSound'
<1> USE StepsAreNumbers
<1>1. \A r \in Runs : /\ script[r] \in RunStates
                      /\ script[r].step \in 0..(N + 1)
  BY DEF ScriptsOk, RunStates
<1>2. authority # None => authority' # None
  BY ScriptsAreGovernance
<1>3. DOMAIN feeds \subseteq DOMAIN feeds'
  BY ScriptsAreGovernance
<1>4. ASSUME NEW r \in Runs, Launch(r) PROVE RunsAreSound'
  <2> DEFINE run == [Idle EXCEPT !.at = "read"]
  <2>1. run \in RunStates /\ run.at = "read" /\ run.step = 0
    BY IdleIsARun DEF RunStates
  <2>3. IsSound(run)
    BY <2>1 DEF IsSound
  <2>2. /\ script' = [script EXCEPT ![r] = run]
        /\ authority' = authority /\ feeds' = feeds
    BY <1>4 DEF Launch, govVars, roles, assets
  <2> HIDE DEF run
  <2> QED
    BY <2>1, <2>2, <2>3, OneRunMoves
<1>5. ASSUME NEW r \in Runs, NEW run \in RunStates, run.at = "ended",
             script' = [script EXCEPT ![r] = run],
             authority' = authority, feeds' = feeds
      PROVE  RunsAreSound'
  <2>1. IsSound(run)
    BY <1>5 DEF IsSound
  <2> QED
    BY <1>5, <2>1, OneRunMoves
<1>6. ASSUME NEW r \in Runs, script[r].at = "read",
             script' = [script EXCEPT ![r] = [@ EXCEPT !.at = "sent"]],
             authority' = authority, feeds' = feeds,
             script[r].step = 0 => authority = None,
             script[r].step \in 1..N =>
                 ASSET_CONFIGS[script[r].step] \notin DOMAIN feeds
      PROVE  RunsAreSound'
  <2> DEFINE run == [script[r] EXCEPT !.at = "sent"]
  <2>1. run \in RunStates /\ run.step = script[r].step /\ run.at = "sent"
    BY <1>1 DEF RunStates
  <2>2. script' = [script EXCEPT ![r] = run]
    BY <1>6
  <2>3. IsSound(run)
    BY <1>6, <2>1 DEF RunsAreSound, IsSound
  <2> HIDE DEF run
  <2> QED
    BY <1>6, <2>1, <2>2, <2>3, OneRunMoves
<1>7. ASSUME NEW r \in Runs, NEW step \in 1..(N + 1),
             script' = [script EXCEPT ![r] = GoTo(step)],
             authority' = authority, feeds' = feeds, authority # None,
             \A i \in 1..N : i < step => ASSET_CONFIGS[i] \in DOMAIN feeds
      PROVE  RunsAreSound'
  <2>1. GoTo(step) \in RunStates /\ GoTo(step).at = "read"
        /\ GoTo(step).step = step
    BY GoToIsARun
  <2>2. IsSound(GoTo(step))
    BY <1>7, <2>1 DEF IsSound
  <2> QED
    BY <1>7, <2>1, <2>2, OneRunMoves
<1>8. ASSUME NEW r \in Runs, ReadState(r) PROVE RunsAreSound'
  <2>1. /\ script[r].at = "read" /\ script[r].step = 0
        /\ authority' = authority /\ feeds' = feeds
    BY <1>8 DEF ReadState, govVars, roles, assets
  <2>2. CASE authority # None
    <3>1. script' = [script EXCEPT ![r] = GoTo(1)] /\ 1 \in 1..(N + 1)
      BY <1>8, <2>2 DEF ReadState
    <3>2. \A i \in 1..N : i < 1 => ASSET_CONFIGS[i] \in DOMAIN feeds
      OBVIOUS
    <3> QED
      BY <1>7, <2>1, <2>2, <3>1, <3>2
  <2>3. CASE authority = None
    <3>1. script' = [script EXCEPT ![r] = [@ EXCEPT !.at = "sent"]]
      BY <1>8, <2>3 DEF ReadState
    <3>2. script[r].step \notin 1..N
      BY <2>1
    <3> QED
      BY <1>6, <2>1, <2>3, <3>1, <3>2
  <2> QED
    BY <2>2, <2>3
<1>9. ASSUME NEW r \in Runs, ReadVault(r) PROVE RunsAreSound'
  <2>1. /\ script[r].at = "read" /\ script[r].step \in 1..N
        /\ authority' = authority /\ feeds' = feeds
    BY <1>9 DEF ReadVault, govVars, roles, assets
  <2>2. /\ authority # None
        /\ \A i \in 1..N : i < script[r].step => ASSET_CONFIGS[i] \in DOMAIN feeds
    BY <2>1 DEF RunsAreSound, IsSound
  <2>3. CASE ASSET_CONFIGS[script[r].step] \in DOMAIN feeds
    <3>1. script' = [script EXCEPT ![r] = GoTo(script[r].step + 1)]
      BY <1>9, <2>3 DEF ReadVault
    <3>2. /\ script[r].step + 1 \in 1..(N + 1)
          /\ \A i \in 1..N : i < script[r].step + 1 =>
                ASSET_CONFIGS[i] \in DOMAIN feeds
      BY <2>1, <2>2, <2>3
    <3> QED
      BY <1>7, <2>1, <2>2, <3>1, <3>2
  <2>4. CASE ASSET_CONFIGS[script[r].step] \notin DOMAIN feeds
    <3>1. script' = [script EXCEPT ![r] = [@ EXCEPT !.at = "sent"]]
      BY <1>9, <2>4 DEF ReadVault
    <3>2. script[r].step # 0
      BY <2>1
    <3> QED
      BY <1>6, <2>1, <2>4, <3>1, <3>2
  <2> QED
    BY <2>3, <2>4
<1>10. ASSUME NEW r \in Runs, ReadMultisig(r)
       PROVE  RunsAreSound'
  <2>1. PICK multisig \in MULTISIGS :
            script' = [script EXCEPT ![r] =
                IF multisig = None THEN Idle
                ELSE [@ EXCEPT !.at = "sent", !.to = multisig]]
    BY <1>10 DEF ReadMultisig
  <2>2. /\ script[r].at = "read" /\ script[r].step = N + 1
        /\ authority' = authority /\ feeds' = feeds
    BY <1>10 DEF ReadMultisig, govVars, roles, assets
  <2>3. CASE multisig = None
    BY <1>5, <2>1, <2>2, <2>3, IdleIsARun
  <2>4. CASE multisig # None
    <3> DEFINE run == [script[r] EXCEPT !.at = "sent", !.to = multisig]
    <3>1. run \in RunStates /\ run.step = N + 1
      BY <1>1, <2>2, DeployerAssumption DEF RunStates
    <3>2. script' = [script EXCEPT ![r] = run]
      BY <2>1, <2>4
    <3>3. IsSound(run)
      BY <2>2, <3>1 DEF RunsAreSound, IsSound
    <3> HIDE DEF run
    <3> QED
      BY <2>2, <3>1, <3>2, <3>3, OneRunMoves
  <2> QED
    BY <2>3, <2>4
<1>11. ASSUME NEW r \in Runs, Refused(r) PROVE RunsAreSound'
  <2> DEFINE run == [Idle EXCEPT !.refused = TRUE]
  <2>1. run \in RunStates /\ run.at = "ended"
    BY IdleIsARun DEF RunStates
  <2>2. /\ script' = [script EXCEPT ![r] = run]
        /\ authority' = authority /\ feeds' = feeds
    BY <1>11 DEF Refused, govVars, roles, assets
  <2> HIDE DEF run
  <2> QED
    BY <1>5, <2>1, <2>2
<1>12. ASSUME NEW r \in Runs, GiveUp(r) PROVE RunsAreSound'
  BY <1>5, <1>12, IdleIsARun DEF GiveUp, govVars, roles, assets
\* A transaction of a run is executed: every other run under way is raced.
<1>13. ASSUME NEW r \in Runs, Confirmed(r) PROVE RunsAreSound'
  <2> DEFINE run == IF script[r].step = N + 1 THEN Idle
                    ELSE GoTo(script[r].step + 1)
             raced == Raced(Runs \ {r})
             tx == TxOf(script[r])
  <2>1. /\ script' = [raced EXCEPT ![r] = run]
        /\ script[r].at = "sent" /\ Execute(tx)
    BY <1>13 DEF Confirmed
  <2>2. /\ raced \in [Runs -> RunStates]
        /\ \A s \in Runs : /\ raced[s].at = script[s].at
                           /\ raced[s].step = script[s].step
                           /\ s # r /\ script[s].at # "ended" => raced[s].raced
    BY RacedKeepsRuns
  <2>3. /\ authority' # None
        /\ \A m \in Mints : tx = ConfigureTx(m) => m \in DOMAIN feeds'
    BY <2>1, TxOfARun, ExecuteIsGovernance
  <2>4. script[r].step \in 1..N => ASSET_CONFIGS[script[r].step] \in DOMAIN feeds'
    BY <2>1, <2>3, TxOfARun
  <2>5. \A i \in 1..N : i < script[r].step => ASSET_CONFIGS[i] \in DOMAIN feeds'
    BY <1>3, <2>1 DEF RunsAreSound, IsSound
  <2>6. \/ run.at = "ended"
        \/ run.at = "read" /\ run.step = script[r].step + 1
    BY <1>1, IdleIsARun, GoToIsARun
  <2> HIDE DEF run, raced, tx
  <2>7. \A i \in 1..N : i < script[r].step + 1 => ASSET_CONFIGS[i] \in DOMAIN feeds'
    BY <1>1, <2>4, <2>5
  <2>8. \A s \in Runs : script'[s] = IF s = r THEN run ELSE raced[s]
    BY <2>1, <2>2
  <2>9. ASSUME NEW s \in Runs, script'[s].at # "ended"
        PROVE  /\ script'[s].step > 0 => authority' # None
               /\ \A i \in 1..N : i < script'[s].step =>
                     ASSET_CONFIGS[i] \in DOMAIN feeds'
    <3>1. CASE s = r
      BY <2>3, <2>6, <2>7, <2>8, <2>9, <3>1
    <3>2. CASE s # r
      BY <1>3, <2>2, <2>3, <2>8, <2>9, <3>2 DEF RunsAreSound, IsSound
    <3> QED
      BY <3>1, <3>2
  <2>10. \A s \in Runs : script'[s].at = "sent" => script'[s].raced
    BY <2>2, <2>6, <2>8
  <2> QED
    BY <2>9, <2>10 DEF RunsAreSound, IsSound
<1>14. ASSUME NEW tx \in late, LandLate(tx) PROVE RunsAreSound'
  <2>1. /\ \A s \in Runs : /\ script'[s].at = script[s].at
                           /\ script'[s].step = script[s].step
                           /\ script[s].at # "ended" => script'[s].raced
    BY <1>14, RacedKeepsRuns DEF LandLate
  <2> QED
    BY <1>2, <1>3, <2>1 DEF RunsAreSound, IsSound
<1>15. CASE script' = script /\ feeds' = feeds
            /\ ((authority' = None) <=> (authority = None))
  BY <1>15 DEF RunsAreSound, IsSound
<1>16. CASE ByHand
  BY <1>15, <1>16, ByHandIsGovernance DEF ByHand
<1> QED
  BY <1>4, <1>8, <1>9, <1>10, <1>11, <1>12, <1>13, <1>14, <1>15, <1>16
     DEF DepNext, ScriptStep, Expire, StartVerify, Check, EndVerify, depVars,
         govVars, roles, assets

\* Each read of a verification finds what it looks for in a program that is
\* ready.
LEMMA NothingMissing ==
    ASSUME Ready, NEW read \in 1..Checks
    PROVE  ~Missing(read)
<1>1. N \in Nat /\ Checks = 4 + 2 * N
  BY StepsAreNumbers DEF Checks, ReadsOfState, ReadsOfAsset
<1>2. CASE read <= 4
  BY <1>2 DEF Missing, Ready, ReadsOfState
<1>3. CASE ~(read <= 4)
  <2> DEFINE i == (read - ReadsOfState + 1) \div ReadsOfAsset
  <2>1. i \in 1..N
    BY <1>1, <1>3 DEF ReadsOfState, ReadsOfAsset
  <2>2. DOMAIN ASSET_CONFIGS = 1..N
    BY ConfigsAssumption DEF N
  <2>3. ASSET_CONFIGS[i] \in DOMAIN feeds
    BY <2>1, <2>2 DEF Ready
  <2> QED
    BY <1>3, <2>3 DEF Missing, ReadsOfState
<1> QED
  BY <1>2, <1>3

LEMMA VerifiedStaysReady ==
    ASSUME ScriptsOk, ProposalStands, RunsAreSound, VerifiedReady,
           [DepNext]_depVars
    PROVE  VerifiedReady'
<1>1. Ready => Ready'
  BY ScriptsAreGovernance DEF Ready
<1>2. CASE UNCHANGED <<verify, completed>>
  BY <1>1, <1>2 DEF VerifiedReady
\* A run is complete only at its last step, where it has found every asset.
<1>3. ASSUME NEW r \in Runs, script[r].step = N + 1, script[r].at # "ended",
             verify' = verify, completed' = TRUE
      PROVE  VerifiedReady'
  <2>1. DOMAIN ASSET_CONFIGS = 1..N /\ N \in Nat
    BY ConfigsAssumption DEF N
  <2>2. Ready
    BY <1>3, <2>1 DEF RunsAreSound, IsSound, Ready
  <2> QED
    BY <1>1, <1>3, <2>2 DEF VerifiedReady
\* A transaction of the last step leaves what there is.
<1>4. ASSUME NEW r \in Runs, Confirmed(r) PROVE VerifiedReady'
  <2>1. verify' = verify /\ completed' = (completed \/ script[r].step = N + 1)
    BY <1>4 DEF Confirmed
  <2>2. CASE script[r].step = N + 1
    BY <1>3, <1>4, <2>1, <2>2 DEF Confirmed
  <2>3. CASE script[r].step # N + 1
    BY <1>1, <2>1, <2>3 DEF VerifiedReady
  <2> QED
    BY <2>2, <2>3
<1>5. ASSUME NEW r \in Runs, ReadMultisig(r) PROVE VerifiedReady'
  <2>1. \/ completed' = TRUE
        \/ completed' = completed
    BY <1>5 DEF ReadMultisig, VerifiedReady
  <2>2. CASE completed' = TRUE
    BY <1>3, <1>5, <2>2 DEF ReadMultisig
  <2>3. CASE completed' = completed
    BY <1>2, <1>5, <2>3 DEF ReadMultisig
  <2> QED
    BY <2>1, <2>2, <2>3
<1>6. CASE StartVerify
  BY <1>1, <1>6 DEF StartVerify, VerifiedReady
<1>7. CASE Check
  <2>1. /\ verify.read \in 1..Checks /\ completed' = completed
        /\ verify' = [verify EXCEPT !.read = @ + 1,
                                    !.failed = @ \/ Missing(verify.read)]
    BY <1>7 DEF Check
  <2> DEFINE failed == verify.failed \/ Missing(verify.read)
  <2>2. failed \in BOOLEAN
    OBVIOUS
  <2>3. verify' = [verify EXCEPT !.read = @ + 1, !.failed = failed]
    BY <2>1
  <2>4. verify.after => failed = FALSE
    BY <2>1, NothingMissing DEF VerifiedReady
  <2> HIDE DEF failed
  <2>5. verify' = [read |-> verify.read + 1, failed |-> failed,
                   after |-> verify.after]
    BY <2>3, Zenon DEF VerifiedReady
  <2>6. verify.read + 1 \in Nat
    BY <2>1 DEF VerifiedReady
  <2>7. verify.after \in BOOLEAN
    BY DEF VerifiedReady
  <2>8. /\ verify' \in [read : Nat, failed : BOOLEAN, after : BOOLEAN]
        /\ verify'.after = verify.after
        /\ verify'.failed = failed
    BY <2>2, <2>5, <2>6, <2>7, Zenon
  <2> QED
    BY <1>1, <2>1, <2>4, <2>8 DEF VerifiedReady
<1>8. CASE EndVerify
  BY <1>1, <1>8 DEF EndVerify, VerifiedReady, NotVerifying
<1> QED
  BY <1>2, <1>4, <1>5, <1>6, <1>7, <1>8
     DEF DepNext, ScriptStep, Launch, ReadState, ReadVault, Refused, GiveUp,
         LandLate, Expire, ByHand, depVars

LEMMA DepInvariantHolds == DepSpec => []DepInvariant
<1>1. DepInit => DepInvariant
  <2> SUFFICES ASSUME DepInit PROVE DepInvariant
    OBVIOUS
  <2>1. script \in [Runs -> RunStates] /\ \A r \in Runs : script[r].at = "ended"
    BY IdleIsARun DEF DepInit
  <2>2. ScriptsOk
    BY <2>1 DEF DepInit, ScriptsOk
  <2>3. ProposalStands
    BY DEF DepInit, GovInit, ProposalStands, ProposalIsTheAuthoritys
  <2>4. RunsAreSound
    BY <2>1 DEF RunsAreSound, IsSound
  <2>5. VerifiedReady
    BY DEF DepInit, VerifiedReady, NotVerifying
  <2> QED
    BY <2>2, <2>3, <2>4, <2>5 DEF DepInvariant
<1>2. DepInvariant /\ [DepNext]_depVars => DepInvariant'
  <2> SUFFICES ASSUME DepInvariant, [DepNext]_depVars
               PROVE  DepInvariant'
    OBVIOUS
  <2>1. ScriptsOk'
    BY ScriptsStayOk DEF DepInvariant
  <2>2. ProposalStands'
    BY ScriptsAreGovernance, ProposalStays DEF DepInvariant
  <2>3. RunsAreSound' /\ VerifiedReady'
    BY RunsStaySound, VerifiedStaysReady DEF DepInvariant
  <2> QED
    BY <2>1, <2>2, <2>3 DEF DepInvariant
<1> QED
  BY <1>1, <1>2, PTL DEF DepSpec

\* THEOREM: whatever the scripts do, early or late, the administration allows:
\* each of their steps is one of its transactions or none, so that all that
\* holds of it holds while the program is deployed.
THEOREM DeploymentIsGovernance == DepSpec => GovSpec
<1>1. DepInit => GovInit
  BY DEF DepInit
<1>2. DepInvariant /\ [DepNext]_depVars => [GovNext]_govVars
  BY ScriptsAreGovernance DEF DepInvariant
<1> QED
  BY <1>1, <1>2, DepInvariantHolds, PTL DEF DepSpec, GovSpec

\* THEOREM: a verification that begins after a run was complete finds nothing
\* missing, for every list of assets and any number of runs that overlap, stop
\* half way or leave transactions behind.
THEOREM AlwaysVerifiedOnceComplete == DepSpec => []VerifiedOnceComplete
<1>1. DepInvariant => VerifiedOnceComplete
  BY DEF DepInvariant, VerifiedReady, VerifiedOnceComplete
<1> QED
  BY <1>1, DepInvariantHolds, PTL

\* THEOREM: the program refuses a run only if another transaction went through
\* between its read and its write, or for a reason outside of the script.
THEOREM AlwaysRefusedOnlyWhenRaced == DepSpec => RefusedOnlyWhenRaced
<1>1. DepInvariant /\ [DepNext]_depVars =>
          [\A r \in Runs :
              script'[r].refused /\ ~script[r].refused =>
                  \/ script[r].raced
                  \/ paused \/ authority # Deployer
                  \/ script[r].step > N]_depVars
  <2> SUFFICES ASSUME DepInvariant, DepNext, NEW r \in Runs,
                      script'[r].refused, ~script[r].refused,
                      ~script[r].raced, ~paused, authority = Deployer,
                      ~(script[r].step > N)
               PROVE  FALSE
    OBVIOUS
  <2>1. ScriptsOk /\ RunsAreSound
    BY DEF DepInvariant
  <2>2. /\ script \in [Runs -> RunStates] /\ script[r].step \in 0..(N + 1)
        /\ N \in Nat
    BY <2>1, StepsAreNumbers DEF ScriptsOk, RunStates
  <2>3. Refused(r)
    <3>1. ASSUME NEW s \in Runs, NEW run,
                 script' = [script EXCEPT ![s] = run], ~run.refused
          PROVE  FALSE
      BY <2>2, <3>1
    <3>2. ASSUME NEW s \in Runs, NEW run,
                 script' = [script EXCEPT ![s] = run],
                 run.refused = script[s].refused
          PROVE  FALSE
      BY <2>2, <3>2
    <3>3. ASSUME NEW s \in Runs, Launch(s) PROVE FALSE
      BY <3>1, <3>3 DEF Launch, Idle
    <3>4. ASSUME NEW s \in Runs, ReadState(s) \/ ReadVault(s) PROVE FALSE
      <4>1. script[s] \in RunStates
        BY <2>2
      <4>2. \/ \E step : script' = [script EXCEPT ![s] = GoTo(step)]
            \/ script' = [script EXCEPT ![s] = [script[s] EXCEPT !.at = "sent"]]
        BY <3>4 DEF ReadState, ReadVault
      <4>3. \A step : ~GoTo(step).refused
        BY DEF GoTo, Idle
      <4>4. [script[s] EXCEPT !.at = "sent"].refused = script[s].refused
        BY <4>1 DEF RunStates
      <4> QED
        BY <3>1, <3>2, <4>2, <4>3, <4>4
    <3>5. ASSUME NEW s \in Runs, ReadMultisig(s) PROVE FALSE
      <4>1. PICK multisig : script' = [script EXCEPT ![s] =
                IF multisig = None THEN Idle
                ELSE [script[s] EXCEPT !.at = "sent", !.to = multisig]]
        BY <3>5 DEF ReadMultisig
      <4>2. script[s] \in RunStates
        BY <2>2
      <4>3. [script[s] EXCEPT !.at = "sent", !.to = multisig].refused
                = script[s].refused
        BY <4>2 DEF RunStates
      <4> QED
        BY <3>1, <3>2, <4>1, <4>3, IdleIsARun
    <3>6. ASSUME NEW s \in Runs, Confirmed(s) PROVE FALSE
      <4> DEFINE run == IF script[s].step = N + 1 THEN Idle
                        ELSE GoTo(script[s].step + 1)
                 raced == Raced(Runs \ {s})
      <4>1. script' = [raced EXCEPT ![s] = run]
        BY <3>6 DEF Confirmed
      <4>2. ~run.refused
        BY IdleIsARun DEF GoTo, Idle
      <4>3. raced \in [Runs -> RunStates]
            /\ raced[r].refused = script[r].refused
        BY <2>1, RacedKeepsRuns
      <4> HIDE DEF run, raced
      <4> QED
        BY <4>1, <4>2, <4>3
    <3>7. ASSUME NEW s \in Runs, GiveUp(s) PROVE FALSE
      BY <3>1, <3>7, IdleIsARun DEF GiveUp
    <3>8. ASSUME NEW tx, LandLate(tx) PROVE FALSE
      BY <2>1, <3>8, RacedKeepsRuns DEF LandLate
    <3>9. script' # script
      OBVIOUS
    <3>10. PICK s \in Runs : Refused(s)
      BY <3>3, <3>4, <3>5, <3>6, <3>7, <3>8, <3>9
         DEF DepNext, ScriptStep, Expire, StartVerify, Check, EndVerify, ByHand
    <3>11. s = r
      BY <2>2, <3>10 DEF Refused
    <3> QED
      BY <3>10, <3>11
  <2>4. script[r].at = "sent" /\ ~Accepted(TxOf(script[r]))
    BY <2>3 DEF Refused
  <2>5. IsSound(script[r])
    BY <2>1 DEF RunsAreSound
  <2>6. authority # None
    BY DeployerAssumption, NoneAssumption
  <2>7. script[r].step \in 1..N
    BY <2>2, <2>4, <2>5, <2>6 DEF IsSound
  <2>8. TxOf(script[r]) = ConfigureTx(ASSET_CONFIGS[script[r].step])
    BY <2>1, <2>4, <2>7, TxOfARun
  <2>9. ASSET_CONFIGS[script[r].step] \notin DOMAIN feeds
    BY <2>4, <2>5, <2>7 DEF IsSound
  <2> QED
    BY <2>4, <2>8, <2>9 DEF Accepted, ConfigureTx
<1> QED
  BY <1>1, DepInvariantHolds, PTL DEF DepSpec, RefusedOnlyWhenRaced
=============================================================================
