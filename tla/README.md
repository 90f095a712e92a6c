# LiiLend in TLA+

A specification of LiiLend: the Solana program (`programs/liilend`), the
interface its clients know it by, the backend's services, the web page and the
deployment scripts. TLC checks the modules on small instances; TLAPS proves the
theorems about every part of it for every instance.

1. [The system](#1-the-system)
2. [The modules](#2-the-modules)
3. [What the runs check](#3-what-the-runs-check)
4. [What is proved](#4-what-is-proved)
5. [Where the code and its documents disagree](#5-where-the-code-and-its-documents-disagree)
6. [Assumptions and what is left out](#6-assumptions-and-what-is-left-out)
7. [What could follow](#7-what-could-follow)

## 1. The system

| Part | State it keeps | Operations | What makes it hard | What makes it correct |
|---|---|---|---|---|
| Lending core, `instructions/{deposit,withdraw,borrow,repay,liquidate}.rs` | `VaultAccount` per mint, `UserCollateralAccount` and `BorrowPosition` per user and mint, `UserAccount` per user, totals in `ProtocolState` | five handlers, one transaction each | one debt pool for all mints; copies of totals kept by hand; integer rounding both ways; saturating arithmetic that hides errors; two account arguments that may be one account | every total agrees with its parts, no handler changes what a third party owns or owes, and a vault whose transactions name its own token accounts has what its books claim |
| Arithmetic, `utils/{share_math,math}.rs` | none | conversions between shares and amounts, risk ratios | rounding, casts from u128 to u64 | conversions favour the pool, and round trips of debt lose nothing |
| MarginFi adapter, `cpi/` | none; what a vault has sent lies at MarginFi | deposit, withdraw, borrow, repay by CPI, when the client passes the accounts | the program called and its accounts are the client's choice; the CPI comes after the transfer in three handlers and before it in one; its failure aborts everything | the books cover what lies at MarginFi, and a call made for one vault takes nothing from another |
| Administration, `instructions/{init_protocol,configure_asset,set_price_feed,admin,treasury_ops}.rs` | roles, pause switch and asset count in `ProtocolState`, one `PriceFeed` per mint, `TreasuryAccount` | deployment, assets, prices, two-step handover, pause, fees | proposals that replace each other; the fee authority does not move with the authority; a counter that saturates | the authority changes only by consent of both keys; each fee is collected once; a vault is created once |
| Interface, `app/src/lib/protocol.ts` | none | addresses of accounts, accounts of each instruction, layouts | generated apart from the handlers; read at fixed offsets by the backend | handlers are atomic, and write only what they declare |
| Exchange rates, `backend/src/services/fx-service.ts` | one cache entry | `getRates`, `convert` | concurrent callers over one cache; timeouts, fallbacks, incomplete answers; expiry | answers are recent; a call fails only when nobody has an answer; every call ends |
| Event indexer, `services/indexer.ts` | a subscription, the `events` table | parse and upsert per notification | notifications lost, repeated, handled at once; errors that are only logged | what was counted is stored or known to have failed; the last event of a key stays |
| Liquidation monitor, `services/liquidation-monitor.ts` | timer, map of warnings | poll, evaluate, liquidate without waiting | overlapping polls, liquidations that end late, accounts told apart by size | only positions are reported, and again and again while they are endangered |
| Portfolio, `services/portfolio-service.ts` | none | request to a node, decoding of accounts, weighted health factor | several account types with the same bytes at the offset of the filter; a failed request is answered like an empty one | an answer lists every deposit or nothing |
| Backend process, `index.ts`, `routes/api.ts` | its services | start, signals, exit | shutdown while services run | a process that is asked to stop ends |
| Web page, `app/src/app/page.tsx` | wallet, modals, fetched figures | deposit, withdraw, borrow, repay; dashboard | nothing is cancelled: handlers, timers and fetches outlive what they were started for | one handler per modal at a time, its button comes back, news are shown, a debt that is shown was owed |
| Deployment, `scripts/*.ts` | the chain | initialise, configure, hand over, verify | stops anywhere, transactions land late, started again by hand | reruns end in a program that is ready, and what is complete verifies |

The page and the scripts call the program with transactions (those the monitor sends
are empty); the program is the only shared state between users. Within one transaction
a handler runs alone: an error of any `require!`, of a token transfer or of a CPI
aborts all of it. What interleaves on chain is whole transactions, of several users,
several mints and the administrators. In the backend, the page and the scripts, what
interleaves is the stretches of JavaScript between two `await`s.

The hazards that follow from this, at the lines where they bite, are listed in
`PROJECT.json`, with the properties that would catch each.

## 2. The modules

| Module | Stands for | |
|---|---|---|
| `Totals` | what it means for a number to be the total of a family | `IsTotal` |
| `ShareMath` | `utils/share_math.rs`, `utils/math.rs` | operators under the code's names |
| `Lending` | the five handlers and the books they keep | `Spec` |
| `Vaults` | the handlers with the token transfers and the adapter, over `Lending` | `VaultSpec` |
| `Governance` | the administration | `GovSpec` |
| `Program` | both over the accounts they share | `ProgramSpec` |
| `Ledger` | what lending promises about values and debts, without shares | `Book!Entry` |
| `LendingLedger` | the mapping by which `Lending` implements `Ledger` | `KeepsTheLedger` |
| `Interface` | `lib/protocol.ts` | operators under its names |
| `Transactions` | how an instruction becomes a step, over `Interface` | `TxSpec` |
| `FxService` | `fx-service.ts` | `FxSpec` |
| `Indexer`, `LiquidationMonitor` | the services of those names, over `Interface` and `Portfolio` | steps only |
| `Portfolio` | decoding of raw accounts, over `Interface` | operators |
| `PortfolioApi` | requests for a portfolio while accounts are written, over `Portfolio` | `ApiSpec` |
| `Backend` | the process: both services, started and stopped | `BackendSpec` |
| `Dashboard` | the page's fetches, over `Lending` | `DashSpec` |
| `Client` | the page's modals, handlers and refreshes | `ClientSpec` |
| `Deployment` | the scripts, over `Governance` | `DepSpec` |
| `MC...` | instances for TLC | |
| `ArithmeticTheorems` | lemmas about totals and conversions | over `Totals` and `ShareMath` |
| `LendingTheorems` | types and books of `Lending` | over `ArithmeticTheorems` |
| `LendingViews` | `Lending` seen by a depositor, by the ledger, by the vaults' token accounts and by the page | over `LendingLedger`, `Vaults` and `Dashboard` |
| `AdministrationTheorems` | theorems of `Governance` and `Deployment` | |
| `ProgramTheorems` | theorems of `Program` | over `LendingTheorems` |
| `TransactionsTheorems` | theorems of `Transactions` and `Interface` | |
| `BackendTheorems` | theorems of `Backend`, its services, `PortfolioApi` and `FxService` | |
| `ClientTheorems` | theorems of `Client` | |

**Lending.** The books: one variable per account field that a handler reads, one
action per handler, with every `require!` and every write in it. A condition that
makes the transaction fail is a guard. Parts of handlers that several of them share
are operators of their own: `Credit` and `Debit` for `total_value`, `MintShares` and
`RedeemShares` for the three places where collateral is counted, `AddDebt` and
`ClearDebt` for the debt pool, `SeizeShares` for what a liquidation does to
collateral. Three history variables remember what the accounts do not: what each vault
paid to liquidators, what was seized from each user, and the shares that a liquidation
of one and the same mint took without burning (`SeizeShares` says why). Nothing that a
handler writes depends on a token account, except that a transfer or a CPI may fail and
abort it; so the properties of the books hold with any tokens behind them, and are
stated without.

**Vaults.** Each `handle_*` is the action of `Lending` and, in the order of the code,
the transfer and the dispatch. `vault_ata`, `user_ata`, `borrow_vault_ata` and
`liquidator_ata` are `#[account(mut)]` token accounts without seeds, owner or mint
(`deposit.rs:42-46` and its like), so a transaction may name any: an account of the
vault, one of the vault in another mint, one of another vault, one `Outside`, the same
one twice. What limits it is the token program (`CanPay`): tokens leave an account of
the signer that has enough, for one of the same mint. The adapter takes program and
accounts from `remaining_accounts`, so a transaction passes nothing, MarginFi with the
vault's accounts there, or anything else (`Dispatched`). Tokens also come without a
handler (`TokensMove`). `astray` remembers the vaults that some transaction has served
by accounts that are not their own.

**Governance.** A signer is a key. `InitProtocol` succeeds once, because it
creates its accounts; `ConfigureAsset` once per mint for the same reason. The
price feeds are a function whose domain is the set of configured mints. History
variables remember who made the standing proposal and the fees that came and
went.

**Program** extends `Lending` and instantiates `Governance` over the shared
`paused` and `fees`. `LiquidateStep` is a liquidation in both views at once;
`Deploy` and `Configure` write the zeros that the handlers write into accounts
of the lending core. That the program implements `Spec` and `GovSpec` is a
refinement with the identity as mapping, and not a trivial one: it fails as soon
as an asset can be configured twice, or the pause switch be turned by anyone.

**Ledger** has two variables: what each vault is worth and what each user owes.
`LendingLedger` maps them to `total_value` and to the debt in whole tokens that a
position's shares stand for. Shares, totals and prices of shares have no counterpart:
that their rounding shows neither in a vault's value nor in who owes what is the
claim.

**Interface** gives an account its address as the tuple of its seeds, each
instruction the accounts it takes for writing, for reading and with a signature,
and each account type the sequence of its fields with their widths. `Ends` adds
the widths up, and `FieldsAt` and `Size` follow from it, so that what a decoder
finds at an offset is computed and not assumed.

**Transactions** adds to every instruction, in a set of its own (`Deposits`,
`Loans`, ...; `Configurations`, `Proposals`, ...), the accounts that its handler
really writes, read off the handler and not off the interface. The runtime lets
transactions run at once that do not conflict on an account. This is what makes
the steps of the other modules steps: no step of `Lending` or `Governance` is
taken for atomic without it.

**FxService.** A call waits for one source at a time; the action of a call is
what runs between two awaits. Time is kept as ages that grow with `Tick`, which
no request outlives: axios ends it at its timeout. An answer may lack a currency:
it is cached with rate 0, and a `convert` that needs the rate is refused.

**Indexer, LiquidationMonitor, Portfolio, Backend.** An event is a line
of a transaction's log, and a `handleLogs` call is at the line it is saving; it runs
from one upsert to the next (`HandleLogs`, `Persist`), and several run at once.
What the end of the process takes from a call under way is all that it had still to
save, not only the upsert it was waiting for: a later event of the key would have
replaced the row, and `LastEventWins` must not expect it. A poll is
counted from the timer that starts it to the accounts that end it; its
evaluation has no await and is one step; a liquidation that it starts ends on its
own (`Executed`). `Backend` composes the two with the life of the process: main
awaits the rates, starts both, a signal awaits the removal of the subscription,
and the end of the process takes everything that is not in the table or on the
chain. **PortfolioApi** is a request of a user's portfolio: it awaits the accounts,
then the rates, while the program writes accounts of every kind. When the request to
the node fails, `fetchPositions` returns no position (`portfolio-service.ts:116-119`)
and the answer is an empty portfolio.

**Dashboard** is the effect of `LiidiaPage`: one step per awaited read, against the
chain of `Lending`, any handler of which, liquidations included, may run between two
reads. **Client** takes a
fetch as two steps and has the modals instead: a handler is a task that outlives
its modal, a closing is a timer that closes whatever modal is open by then.

**Deployment** has one step per await of `initialize-protocol.ts`: a read of an
account, a transaction that is confirmed, refused, or left behind by a run that
gave up and lands later. `verify-deployment.ts` reads account after account
meanwhile. The chain is `Governance`, with the keys also acting by hand.

Totals are stated by their measure (`Totals`) and not by a recursive sum,
because recursion cannot be proved about: `IsTotal(f, t)` says that some function
on the subsets of the domain is additive and gives `t` for the whole.

## 3. What the runs check

| Run | Instance | States | Shows |
|---|---|---|---|
| `Lending_books` | 2 users, 1 mint, amounts 1 to 3, deposits up to 4 | 19 016 | all books agree after any order of handlers; refinement of `Ledger` |
| `Vaults_tokens` | 1 user, 2 mints, any token accounts, with nothing, MarginFi or another program behind, deposits up to 2 | 98 944 | what a vault claims, it has |
| `Program_whole` | 1 user, 2 mints, 3 keys, `asset_count` saturating at 1 | 315 636 | refinement of both specifications; handover, asset count and fees, while the program is used |
| `Transactions_atomic` | 2 transactions at once, 2 users, 2 mints, 2 keys, with and without signatures | 140 707 | atomic steps, declared writes, signatures |
| `FxService_rates` | 2 callers, oracle and 2 fallbacks, lifetime 4, timeouts 2 and 1 | 38 153 | age of answers, failures, termination |
| `Backend_life` | 2 calls of `handleLogs`, 2 transactions, one of each kind of account, 2 polls and 2 liquidations at once, 2 signals | 53 370 | events stored, reports, shutdown |
| `Deployment_reruns` | 1 terminal, 2 keys, 2 assets, late transactions | 78 060 | reruns and verification |
| `Dashboard_reads` | 2 users that also act elsewhere and are liquidated, 2 mints, one fetch at a time | 1 261 630 | what a fetch adds up |
| `Client_modals` | 1 wallet that comes and goes, 2 handlers, 2 fetches, 1 timer per modal | 35 232 | flags, buttons, refreshes |

The properties:

- `OwedIsBorrowed`, `DebtPoolExact`: every position is rounded on its own, in
  two ways (`repay` in proportion to the position, `liquidate` to the pool), and
  still the shares and the amounts add up to the totals of the pool exactly.
- `SharesAccounted`, `AggregateAccounted`: `total_shares` and the per-user
  aggregate equal the collateral accounts, up to what liquidations left behind.
- `DebtIndex`: a token of debt is `SHARE_MULTIPLIER` shares from the first loan on, in
  the pool and in each position, after any repayments and liquidations.
- `Custody`: what a vault claims (`total_value`) and was given besides, it has, in its
  own token account or at MarginFi, or it has paid to liquidators. This is no property
  of every vault: a deposit that names another `vault_ata` raises `total_value` and
  brings the vault nothing. It is one of the vaults outside `astray`, whose own
  transactions named their own accounts, and says that they are safe from whatever the
  transactions of the other vaults name or call.
- `ValueWasDeposited`: what the vaults claim and what is lent was counted as deposited.
- `KeepsTheLedger`: seen without shares, every step enters whole tokens: a vault's
  `total_value` and a debt change by exactly what is deposited, redeemed, lent,
  repaid or liquidated.
- `OthersOweTheSame`: a handler changes no debt but that of its position,
  although all the positions are shares of one pool.
- `OnlyBorrowLowersShares`: a vault share loses value only by a borrow. (A
  borrow lowers `total_value` by the loan, and the debt it leaves is not counted
  as an asset of the vault.)
- `ProposalIsTheAuthoritys`, `HandoverByBoth`, `AssetsCountedOnce`,
  `FeesCollectedOnce`: see module `Governance`; `Program` states them of the whole
  program. They need three keys: an authority names one and then another, the latter
  accepts, and the former must no longer be able to.
- `FeesAreAShare`: the fees ever accrued, collected or not, divide among the vaults
  with at most 5% of what liquidators took from each.
- `UnconfiguredIsEmpty`, `LendingSpec`, `GovernanceSpec`: see module `Program`.
- `AnswersAreRecent`: no answer is older than the lifetime of an entry and one
  wait for the oracle; `FailsOnlyIfNobodyAnswered`: a rate that arrived for
  another caller serves this one; `EveryCallSettles`: each call ends.
- `OneAtATime`: no two transactions of the program run at once, because each takes
  `ProtocolState` for writing; `NothingIsRefused`: a handler writes to no account
  that its instruction declares read only; `OwnersSigned`: a user's accounts
  change only with the user's signature, or by liquidation.
- `CountedIsStored`, `LastEventWins`: whatever calls interleave and however often
  they are notified, an event that was counted is in the table, on its way, or lost by
  its own upsert or the end of the process; and the last event of a key is the row.
- `PendingArePositions`: the sizes and offsets of the monitor pick the fields they are
  meant to pick, among all kinds of account the program has.
- `NotificationsAreHandled`, `SignalsStop`, `EndangeredAreReported`: no call of the
  indexer hangs, a process that is asked to stop ends, and a late liquidation
  does not silence a market for good.
- `RefusedOnlyWhenRaced`, `VerifiedOnceComplete`, `RerunsMakeReady`: a script's
  transaction fails only for a reason outside of the script; what some run called
  complete verifies; and reruns make the program ready.
- `FetchedDebtIsOwed`: although a debt is converted with totals read at the start
  of a fetch and shares read at the end, what is added was owed when the shares
  were read. (It holds for the reason that `DebtIndex` gives, and would fail with
  interest.)
- `FlagIsHonest`, `ButtonComesBack`, `NewsAreShown`: see module `Client`.

**Bounds.** `MaxDeposits` bounds all deposits ever made, `MaxTokens` what a purse of a
vault holds, and `MaxSent` what a vault has, or owes, at MarginFi; all are guards.
They are large enough for every handler to meet every state of the pool: empty, with
one position, with two, after a partial repayment and after a liquidation, each
reached in fewer steps than the depth of the search. `SHARE_MULTIPLIER` is 2 instead
of 10^9, `U64` is larger than any number that occurs; both are parameters, because
TLC's integers have 32 bits, and the proofs hold for all values. `Lending_books` has
one market, with positions of two users; liquidations between two markets are in
`Vaults_tokens`, `Program_whole` and `Dashboard_reads`. `Program_whole` takes one
amount, large enough for a liquidation to leave a fee (5% of 20 or more), and lets two
be made (`MaxFees`). Its `U8` is 2, so that `asset_count` saturates with two assets.
`Old` in `FxService` is above every age that a property compares. In
`Transactions_atomic` two transactions suffice: a conflict is between two. The
transactions of `Backend_life` are one with three events, two of them of one kind with
another between them, a line that makes the parser throw and an event after it, and
one with a line of no meaning and an event that the program emitted; its thresholds,
2.5 and 3.0, are ones the environment may set: with the defaults of `config/index.ts`
(1.05 and 1.15) no position is ever reported, because the decoder gives every position
the health factor 2.0. `Deployment_reruns` has one terminal, whose late transactions
play the part of a second. `Dashboard_reads` lets every user act between any two
reads; fetches do not touch each other, so one at a time is enough for a property of
each. `Client_modals` needs two handlers and two fetches for one to overtake the
other; its one wallet may leave and come back while they run. (With two wallets there
are 182 776 states, and the properties hold as well.) `MaxTimers` is 1: a second timer
of one modal waits for the first, and both do the same. All runs check deadlock.

**Symmetry** is by users, mints, keys or slots and used for safety only; the runs
that check liveness have none.

**Fairness.** None is assumed of the chain's users: nobody has to send a
transaction, and the properties of `Lending`, `Governance`, `Program`,
`Transactions` and `Dashboard` are safety. `FxSpec` assumes weak fairness of
`Settle(c)` for each caller: a waiting call gets an answer, an error or a timeout.
The timeouts that the code passes to axios (10 s for the oracle, 8 s for a
fallback) justify it. `BackendSpec` assumes the same of the requests to the table
and the node, of the removal of the subscription and of the timer; and strong
fairness of `PollAnswered`: a node that is asked for ever does not fail every
time. Nothing makes a signal come, a transaction land or a process start.
`DepSpec` assumes that the operator starts the script again, and that no step of
it fails every time it is tried (strong fairness of each step): without this,
reruns prove nothing. `ClientSpec` assumes that effects run, timers fire and every
promise settles, one way or the other: no wallet has to sign.

**Mistakes to catch.** Definitions introduced by "Mistake to catch" are not part
of any specification. Each is a plausible error in the definition that follows
it, and with it in place the property it is paired with in `PROJECT.json` fails.

## 4. What is proved

Every safety property that a passing run checks is also a theorem, for all users,
mints, keys, amounts, multipliers and widths, any number of transactions, calls and
tasks under way, and any logs, accounts and lists of assets. The runs show that the
hypotheses are met and that the cases occur; the theorems that the size of the runs
does not matter. Those of the administration (`GovTypeCorrect` and the others of
`AdministrationTheorems`) speak of `Governance`, and hold in the whole program, which
the runs check, by `ProgramIsGovernance`. One theorem has no run:
`AnswersAlwaysComplete`, that a portfolio which is answered (`PortfolioApi`) is empty,
as it also is when the node could not be asked, or lists every deposit that stood
while it was computed, among all kinds of account that exist and are written meanwhile
(`AnswersAreComplete`).

| Module | Theorems |
|---|---|
| `LendingTheorems` | `TypeCorrect`; the inductive invariant `BooksAlwaysAgree` and from it `DebtAlwaysIndexed`, `DebtPoolAlwaysExact`, `OwedAlwaysBorrowed`, `OthersAlwaysOweTheSame`, `SharesAlwaysAccounted`, `AggregateAlwaysAccounted`, `ValueAlwaysDeposited` |
| `LendingViews` | `OnlyBorrowEverLowersShares`; `LendingKeepsTheLedger`, that `Lending` implements `Ledger`; `CustodyAlways`; `FetchedDebtAlwaysOwed` |
| `AdministrationTheorems` | `GovTypeCorrect`, `ProposalAlwaysTheAuthoritys`, `HandoverAlwaysByBoth`, `FeesAlwaysCollectedOnce`, `AssetsAlwaysCountedOnce`; `DeploymentIsGovernance`, that the scripts implement `Governance`; `AlwaysVerifiedOnceComplete`, `AlwaysRefusedOnlyWhenRaced` |
| `ProgramTheorems` | `UnconfiguredAlwaysEmpty`; `ProgramIsLending` and `ProgramIsGovernance`, that the program implements both specifications, through the former `ProgramSharesAccounted`, through the latter `ProgramProposalIsTheAuthoritys` and `ProgramHandoverByBoth`; `FeesAlwaysAShare` |
| `TransactionsTheorems` | `AlwaysOneAtATime`, `NothingIsEverRefused`, `OwnersAlwaysSigned` |
| `BackendTheorems` | `AnswersAlwaysComplete`, `PendingAlwaysPositions`, `CountedAlwaysStored`, `LastEventAlwaysWins`; `FxTypesHold`, `AnswersAlwaysRecent`, `FailsOnlyUnanswered` |
| `ClientTheorems` | `FlagAlwaysHonest`, `OneHandlerPerModal` |

**The inductive invariant of the books** is `BooksAgree`: types, `DebtIndex`,
`SharesAccounted`, `AggregateAccounted`, `ValueWasDeposited` and the bound on
deposits. No token account is part of it. Its heart is `DebtIndex`.
None of the other conjuncts about debt is inductive alone: after a repayment the
pool is exact only if the shares burnt, rounded down, are worth the amount paid.
They are, because nothing in the program accrues interest: the first loan sets
the price of a unit of debt at `SHARE_MULTIPLIER` shares, and every later
conversion keeps that price, so none rounds. `DebtIndex` states it for the pool
(`globalDebtShares = SHARE_MULTIPLIER * totalBorrows`), for each position, and that
the positions' amounts add up to the pool's. It is also the first thing that an
accrual of interest would break, and with it every property that rests on it.
Sums and conversions are moved by the lemmas of `ArithmeticTheorems`.

**Assumptions.** The theorems on books (but for types), on the value of shares, on the
ledger, on custody and on fetched debts assume `MaxDeposits < U64`: all that deposits
ever entered into `total_deposits_usd` fits in a u64, so that no `as u64` cuts a
total. For the deposits that bring a vault its tokens it does, as 2^64 base units are
more than the supply of any token in use; of those that name another `vault_ata` it is
an assumption. `FeesAlwaysCollectedOnce` assumes the same of fees. All the other
theorems assume only what the modules state of their constants, under names: that a
sentinel is none of the values it stands beside (`NoneAssumption`, `UsersAssumption`,
`WalletsAssumption`), what the constants are (`ConfigsAssumption`, `ChainAssumption`,
`LogsAssumption`, ...), and, for the exchange rates, `TimesAssumption`: the timeouts
that one call can wait for, one after the other, are together no longer than the
lifetime of an entry. It is so with what the code configures, 10 s, two times 8 s, and
300 s, and it is what `FailsOnlyUnanswered` needs: were the lifetime shorter, an
answer that somebody got during the wait could expire before the wait ends.

**The refinement of `Ledger`** takes each handler to one entry (`DepositIsSupply`,
`WithdrawIsRedeem`, `BorrowIsLend`, `RepayIsReturn`, `LiquidateIsSettle`) and every
other step to none. With `DebtIndex` the debt of a position in tokens is its
shares divided by `SHARE_MULTIPLIER`, without a remainder, so that burning
`SHARE_MULTIPLIER * amount` shares lowers it by `amount` (`ClearedTokens`); that the
`total_value` of a vault moves by the same amount is `WorthMoves`.
It assumes `MaxDeposits < U64` as the books do.

**The tokens.** `CustodyAlways` is proved from `VaultsAgree`, the books with
`VaultTypeOK` and `Custody`. A handler moves the `total_value` of its own vault alone
(`CreditExact`, `DebitExact`); if it named the vault's own accounts, tokens and books
move together (`PaymentKeepsCustody`, `PayoutKeepsCustody`), and if it did not, the
vault is `astray` from then on. For every other vault a transaction can only add
tokens, which go to `gifts` (`ServiceKeepsCustody`): whatever is named or called, it
signs for one vault, and the token program takes nothing from the accounts of another.

`OnlyBorrowLowersShares` needs more than the books: `LendingViews` shows for each
handler that the product of value and shares grows the right way under division
rounded down. `HandoverByBoth` rests on `ProposalStands`: a proposal stands only
while the key that made it is the authority. `UnconfiguredIsEmpty` rests on a
handler needing the vault it writes, and `ProgramIsLending` on it in turn:
`Configure` writes zeros where zeros are. `FeesAreAShare` is nearly inductive: a fee,
rounded down on its own, goes to the share of the vault that paid, and a collection
changes nothing in the sum; but a saturating accumulator that stood above a u64 would
fall, so `FeesShared` adds that it never does.

**A page that reads in pieces.** `FetchedDebtAlwaysOwed` rests on `FetchesAgree`: the
totals that a fetch has read, at whatever moment, are one to `SHARE_MULTIPLIER`
(`DebtIndex` at that moment), so that the shares it reads later are converted at the
price of every later moment as well.

**Atomic steps.** What an instruction declares is compared with what its handler
writes once for each of the fourteen instructions (`Declared`); `TxInvariant` adds
where the slots are. That two running transactions always conflict then needs no
more than that each takes `ProtocolState` for writing.

**Layouts.** The offsets of fields are computed by a recursive function. Such a
function is a CHOOSE, and satisfies its equation once some function is shown that
does: `EndsAddUp` shows it for each layout that a decoder can meet, whose ends are
then numbers. From these, that the offsets and sizes in `portfolio-service.ts` and
`liquidation-monitor.ts` meet the fields they name and no others is arithmetic.
`AnswersAreComplete` needs beside it that what a request has read lists the accounts
that were not written since it began, through the writes that follow.
`PendingArePositions` needs beside it that a warning, once set, is of such a mint
(`WarningsOk`), over polls, late liquidations and restarts.

**The indexer.** `CountedIsStored` is inductive with `CallsAreAtEvents`.
`LastEventWins` speaks of a moment when nothing is under way, and says nothing about
the moments before; `LastIsComing` does: where a key has a row other than its last
event's, and none was lost, some call has still to save that last event. It is kept
because a call that replaces the row by an earlier event is itself that call.

**The exchange rates.** An answer's age is bounded by that of its entry and one wait
(`EntryIsRecent`, `WaitsAreBounded`). That a call fails only unanswered needs to know
that an entry which is there while a caller waits was written during the wait
(`EntryIsOfTheWait`), hence is younger than all the timeouts the caller has been
through, hence younger than its lifetime (`TimesAssumption`), and so is still there
when the caller comes to look.

**The modals.** `FlagIsHonest` is not inductive: two handlers of one modal would each
reset the flag of the other. `HeldOnce` excludes it, a flag that is set being that of
a modal on screen and of one task.

**The deployment.** `DeploymentIsGovernance` takes each step of a script, of a late
transaction and of a hand to one step of `Governance` or none; it gives the scripts
all that is proved of it, such as that a proposal is the authority's
(`ProposalStands`). `RefusedOnlyWhenRaced` and `VerifiedOnceComplete` rest on
`RunsAreSound`: what the earlier steps of a run were for exists, and what the run
has read before it sends still stands unless a transaction raced it. A run is
complete only at its last step, so that a program it calls complete has everything
(`VerifiedReady`), and nothing that was created goes away.

**Checked only.** The liveness properties (`EveryCallSettles`,
`NotificationsAreHandled`, `SignalsStop`, `EndangeredAreReported`, `RerunsMakeReady`,
`ButtonComesBack`, `NewsAreShown`): fairness is out of the prover's reach. The three
properties that are violated (section 5) are, of course, not theorems.

## 5. Where the code and its documents disagree

Three of them are the subject of a run that expects TLC to find a counterexample.

| Run | The document | The code |
|---|---|---|
| `Lending_v_liquidator` | `docs/ARCHITECTURE.md:60`, "Liquidator repays debt → receives collateral + 5% bonus" | the vault pays the liquidator and the debt falls; the liquidator pays nothing and gets no collateral (`liquidate.rs:117-128`) |
| `FxService_v_stale` | `fx-service.ts:43-46`, "Returning stale FX cache" | the expired entry is deleted before the sources are tried (`fx-service.ts:152`) |
| `Backend_v_stored` | `README.md:331`, "Subscribes to program logs via `onLogs`, persists events to Supabase" | only lines of the form "Program log: " and JSON are parsed (`indexer.ts:147`); the program's events come as "Program data: " lines, which the page looks for (`page.tsx:84`) |

Others were seen while modelling; the models behave as the code does, and no
property demands what the documents say.

The program:

- A position whose collateral is worth many times its debt is liquidated: the
  unscaled health factor is compared with 1 000 000 (`liquidate.rs:106`;
  `README.md:230`, "Liquidate underwater positions").
- A loan is compared alone, and with a number of shares (`borrow.rs:76-82`;
  `docs/ARCHITECTURE.md:47`, "LTV ≤ 70%, Health Factor > 1").
- A liquidation leaves `UserAccount.collateral_shares` as it was
  (`liquidate.rs:130-132`; `README.md:214`, "Per-user aggregate position summary").
- No handler reads a price (`README.md:583`, "Stale price protection";
  `borrow.rs:53`, "validated in handler"); `PRICE_VALIDITY_SECONDS` and `MAX_ASSETS`
  have no use.
- `collect_fees` resets the accumulator and moves no tokens (`README.md:233`,
  "Collect accrued protocol fees").
- `configure_asset` and `update_asset_config` store none of the risk parameters
  that they check; `collateral_shares as u64` wraps for large depositors; a deposit
  after a loan buys shares at the lowered `total_value`; a liquidation whose two
  mints are the same leaves the seized shares in `total_shares` for good.

The backend:

- A loan is answered as a deposit of its debt shares: the branch of the decoder for
  accounts of 97 bytes (`portfolio-service.ts:142`, "BorrowPosition: ... = 97 bytes")
  comes after one for 89 or more. A `ProtocolState` whose first address is that of the
  user, or a `VaultAccount` asked
  for by its mint, is listed in the portfolio as a deposit; and a request to the node
  that fails is answered as a portfolio without positions (`README.md:333`, "Aggregates
  user positions from on-chain accounts, computes health factors").
- `GET /protocol/stats` reads its totals at offsets 80 and 96 of `ProtocolState`
  (`routes/api.ts:57-58`), in the addresses of the treasury and of the fee
  authority; by the layout they are at 162 and 178.
- Liquidations are sent as transactions without instructions or signatures
  (`liquidation-monitor.ts:104-111`), and their success clears the warning.
- `processBatch` has no caller: what happens while the backend is down is never
  caught up with.

The page and the scripts:

- `transfer_authority` wants the signature of the new authority, and
  `initialize-protocol.ts` signs as the deployer alone (`:140-146`): with
  `MULTISIG_AUTHORITY` set to another key, the last step is always refused.
- When a vault cannot be read, the page shows the shares as the amount
  (`page.tsx:986-988`).
- A fetch that ends last decides what is shown, also if it was for another wallet;
  nothing shown is reset when a wallet leaves (`page.tsx:955-1034`).
- A borrow does not refresh the debt unless the off-ramp's last button is pressed
  (`page.tsx:596-606`), so that the next borrow is compared with the old one.
- A closing timer closes a modal that was opened again meanwhile
  (`page.tsx:283-286`).

## 6. Assumptions and what is left out

- **Accounts.** The token accounts are those that the client of the repository derives,
  or any others: the program checks neither owner nor mint of them, and so does
  `Vaults`. What is relied on is the token program (`CanPay`). The accounts of the
  program itself are found by their seeds.
- **Aborts.** `overflow-checks = true` (`Cargo.toml`) makes a u128 overflow abort
  the transaction. The model does not overflow, so it has every behaviour of the
  code and some more.
- **One account passed twice.** The model lets both mints of a liquidation be the
  same, and has the framework write both copies back. Should the framework refuse
  it, the model has behaviours that the code lacks; every property that holds
  still holds, and the disagreements of section 5 do not depend on it.
- **MarginFi** takes, returns, lends and takes back exactly the amount it is asked
  for, or fails. Its interest is left out: neither the vaults nor the debt pool
  read it back. Any other program in its place may move what the vault that signs
  owns, and only that, during the call and later. It cannot call back into the program:
  the runtime forbids it.
- **The runtime** holds the locks of a transaction until it ends, wants the
  signatures that an instruction declares, and refuses a write to an account that
  was not taken for writing. Removing a log subscription ends, with or without an
  error that is then unhandled and only logged, and so does every request.
- **Time** on chain matters only for prices; timestamps that are written and never
  read are left out, as are events.
- **Floating point** in the backend and the page is left out, and with it the result
  of `convert`, the portfolio's ratios and the page's health factor.
- **Not modelled.** In the backend: the routes that forward one call or answer a
  constant, the rate limit, the log file, the branch of `persistEvent` without a
  database, `portfolio_history`. On the page: the transaction history
  (`fetchTxHistory`, `parseEventLog`), the balances shown in the modals, the
  simulated off-ramp before its last button, layout. `useProgram.ts` and
  `liilend-idl.json`, which repeat what `lib/protocol.ts` says, and the helpers at
  the end of that file that have no caller. `seed-vaults.ts` and the other scripts
  for test networks, which send one transaction after the other and keep nothing.
  Tests.

## 7. What could follow

1. The liveness properties for every instance, with a prover that has fairness. The
   invariants of section 4 are the safety half of these proofs: a wait that is bounded,
   a flag that is held by one task, a run that is sound.
2. MarginFi's interest: when a handler reads it back it will be a term in `Custody`.
3. An accrual of interest, when the program gets one: `DebtIndex` and
   `FetchedDebtIsOwed` are where it will show first.
4. The disagreements of section 5, when they are fixed in the code: each becomes a
   property of a passing run.
