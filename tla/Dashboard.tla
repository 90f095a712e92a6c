------------------------------ MODULE Dashboard ------------------------------
(***************************************************************************)
(* The web page's dashboard (app/src/app/page.tsx, LiidiaPage): an effect  *)
(* that reads the chain one account at a time, for the wallet that was     *)
(* connected when it began, and shows what it has computed.  Nothing       *)
(* cancels an effect that is overtaken by another wallet or by a refresh.  *)
(*                                                                         *)
(* The chain is module Lending: between two reads any handler may run.     *)
(***************************************************************************)
EXTENDS Lending, Sequences

CONSTANTS
    None,                   \* no wallet, no data
    SUPPORTED_COLLATERALS,  \* the assets read as collateral, in order
    SUPPORTED_LOANS,        \* the assets read as debt, in order
    Price,                  \* MOCK_PRICES, in units of the loans' price
    LtvPercent,             \* SUPPORTED_ASSETS[].ltv
    MaxFetches              \* bound on the fetches that overlap

ASSUME DashboardAssumption ==
    /\ None \notin Users
    /\ SUPPORTED_COLLATERALS \in Seq(Mints) /\ SUPPORTED_LOANS \in Seq(Mints)
    /\ Price \in [Mints -> Nat] /\ LtvPercent \in [Mints -> 0..100]

VARIABLES
    walletPk,   \* the connected wallet, or None
    due,        \* a dependency of the effect has changed
    fetches,    \* the runs of the effect: Idle, or what they have read so far
    shown,      \* what the page shows
    loading     \* the page's loading flag

dashVars == <<walletPk, due, fetches, shown, loading>>

\* A run of the effect: the step it is at, what it has read, what it has added
\* up.
Idle == [who |-> None, step |-> 0, gds |-> 0, tbv |-> 0, found |-> FALSE,
         shares |-> 0, tvl |-> 0, power |-> 0, borrowed |-> 0]

Fetch(u) == [Idle EXCEPT !.who = u]

Nothing == [who |-> None, tvl |-> 0, power |-> 0, borrowed |-> 0]

DashInit ==
    /\ walletPk = None
    /\ due = FALSE
    /\ fetches = [i \in 1..MaxFetches |-> Idle]
    /\ shown = Nothing
    /\ loading = FALSE

\* Step 0 reads the protocol state, then two per collateral, one per loan.
Collaterals == Len(SUPPORTED_COLLATERALS)
LastStep    == 2 * Collaterals + Len(SUPPORTED_LOANS)

sharesToAmount(shares, totalShares, totalValue) ==
    IF totalShares = 0 THEN 0 ELSE (shares * totalValue) \div totalShares

-----------------------------------------------------------------------------
\* protocolState.fetch; an error leaves it null.
ReadProtocolState(i) ==
    /\ fetches[i].step = 0
    /\ \E answered \in BOOLEAN :
          fetches' = [fetches EXCEPT ![i] =
              [fetches[i] EXCEPT
                  !.step = 1, !.found = answered,
                  !.gds = IF answered THEN globalDebtShares ELSE 0,
                  !.tbv = IF answered THEN totalBorrows ELSE 0]]
    /\ UNCHANGED <<walletPk, due, shown, loading>>

\* userCollateralAccount.fetch; an error, or no shares, goes to the next asset.
ReadCollateral(i) ==
    LET f == fetches[i]
        c == SUPPORTED_COLLATERALS[(f.step + 1) \div 2]
    IN  /\ f.step \in 1..(2 * Collaterals) /\ f.step % 2 = 1
        /\ \E shares \in {0, collateral[<<f.who, c>>]} :
              fetches' = [fetches EXCEPT ![i] =
                  [f EXCEPT !.shares = shares,
                            !.step = IF shares > 0 THEN @ + 1 ELSE @ + 2]]
        /\ UNCHANGED <<walletPk, due, shown, loading>>

\* getVaultAccount, which gives null for an error too: then the shares
\* themselves are taken for the amount.
ReadVaultAccount(i) ==
    LET f == fetches[i]
        c == SUPPORTED_COLLATERALS[f.step \div 2]
    IN  /\ f.step \in 1..(2 * Collaterals) /\ f.step % 2 = 0
        /\ \E amount \in {f.shares, sharesToAmount(f.shares, vaultShares[c],
                                                   vaultValue[c])} :
              fetches' = [fetches EXCEPT ![i] =
                  [f EXCEPT !.step = @ + 1, !.shares = 0,
                            !.tvl = @ + amount * Price[c],
                            !.power = @ + amount * Price[c] * LtvPercent[c]]]
        /\ UNCHANGED <<walletPk, due, shown, loading>>

\* Mistake to catch: one of the two totals is read again for every loan.
LoanAmountReadAgain(f, m) ==
    sharesToAmount(debt[<<f.who, m>>], f.gds, totalBorrows)

\* What a loan's account adds, with the protocol state read at the start.
LoanAmount(f, m) ==
    IF f.found THEN sharesToAmount(debt[<<f.who, m>>], f.gds, f.tbv) ELSE 0

\* borrowPosition.fetch; an error counts as no debt.
ReadLoan(i) ==
    LET f == fetches[i]
        m == SUPPORTED_LOANS[f.step - 2 * Collaterals]
    IN  /\ f.step \in (2 * Collaterals + 1)..LastStep
        /\ \E amount \in {0, LoanAmount(f, m)} :
              fetches' = [fetches EXCEPT ![i] =
                  [f EXCEPT !.step = @ + 1, !.borrowed = @ + amount]]
        /\ UNCHANGED <<walletPk, due, shown, loading>>

\* The totals are shown, whoever is connected by now.
Settle(i) ==
    LET f == fetches[i]
    IN  /\ f.step > LastStep
        /\ fetches' = [fetches EXCEPT ![i] = Idle]
        /\ shown' = [who |-> f.who, tvl |-> f.tvl, power |-> f.power,
                     borrowed |-> f.borrowed]
        /\ loading' = FALSE
        /\ UNCHANGED <<walletPk, due>>

\* The effect runs because a dependency changed; without a wallet it returns.
Effect ==
    /\ due
    /\ due' = FALSE
    /\ \/ walletPk = None /\ UNCHANGED <<fetches, loading>>
       \/ /\ walletPk # None
          /\ \E i \in 1..MaxFetches :
                /\ fetches[i] = Idle
                /\ \A j \in 1..(i - 1) : fetches[j] # Idle
                /\ fetches' = [fetches EXCEPT ![i] = Fetch(walletPk)]
          /\ loading' = TRUE
    /\ UNCHANGED <<walletPk, shown>>

\* useWallet: another wallet, or none.  What is shown stays.
Switch(w) ==
    /\ w # walletPk
    /\ walletPk' = w
    /\ due' = TRUE
    /\ UNCHANGED <<fetches, shown, loading>>

\* The same wallets on other devices, other wallets, liquidators and the
\* administration: any handler of the program.
ActElsewhere == Next

FetchStep(i) ==
    /\ fetches[i] # Idle
    /\ \/ ReadProtocolState(i)
       \/ ReadCollateral(i)
       \/ ReadVaultAccount(i)
       \/ ReadLoan(i)
       \/ Settle(i)

Browse == (Effect \/ \E i \in 1..MaxFetches : FetchStep(i)) /\ UNCHANGED vars

DashNext ==
    \/ Browse
    \/ (\E w \in Users \cup {None} : Switch(w)) /\ UNCHANGED vars
    \/ ActElsewhere /\ UNCHANGED dashVars

DashSpec == /\ Init /\ DashInit
            /\ [][DashNext]_<<vars, dashVars>>

-----------------------------------------------------------------------------
\* The debt that a fetch adds was owed at the moment its account was read, or
\* is left out, although it is converted with the protocol state of an earlier
\* moment, and others borrow, repay and liquidate in between.
FetchedDebtIsOwed ==
    [][\A i \in 1..MaxFetches :
          LET f == fetches[i]
          IN  fetches'[i].borrowed > f.borrowed =>
                  fetches'[i].borrowed - f.borrowed
                      = DebtAmount(f.who,
                                   SUPPORTED_LOANS[f.step - 2 * Collaterals])
      ]_<<vars, dashVars>>
=============================================================================
