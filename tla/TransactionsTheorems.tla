------------------------ MODULE TransactionsTheorems ------------------------
(***************************************************************************)
(* That a handler is one atomic step, that the runtime refuses none of its *)
(* writes and that a user's accounts change only with the user's signature *)
(* or by liquidation: for every set of users, mints and keys, and any      *)
(* number of transactions under way at once.                               *)
(***************************************************************************)
EXTENDS Transactions, TLAPS

-----------------------------------------------------------------------------
(* What the interface declares of every instruction. *)

\* The part of an instruction that its handler writes is taken for writing;
\* ProtocolState is; and the owner signs, but for a liquidation.
Declared(i) ==
    /\ ProtocolState \in i.takes.writable
    /\ i.writes \subseteq i.takes.writable
    /\ i.owner \in Users /\ i.name # "liquidate"
         => i.owner \in i.takes.signers

LEMMA UserInstructionsDeclared ==
    ASSUME NEW i \in Deposits \cup Withdrawals \cup Loans \cup Repayments
    PROVE  Declared(i)
<1> USE DEF Declared, Instr, Takes
<1>1. CASE i \in Deposits
  BY <1>1 DEF Deposits, DepositCollateral
<1>2. CASE i \in Withdrawals
  BY <1>2 DEF Withdrawals, WithdrawCollateral
<1>3. CASE i \in Loans
  BY <1>3 DEF Loans, BorrowAsset
<1>4. CASE i \in Repayments
  BY <1>4 DEF Repayments, RepayDebt
<1> QED
  BY <1>1, <1>2, <1>3, <1>4

LEMMA LiquidationsDeclared ==
    ASSUME NEW i \in Liquidations
    PROVE  Declared(i)
BY DEF Liquidations, LiquidatePosition, Liquidated, Declared, Instr, Takes

LEMMA AdministrationDeclared ==
    ASSUME NEW i \in Administration
    PROVE  Declared(i)
<1> USE UsersAssumption DEF Declared, Instr, Takes
<1>1. CASE i \in Deployments
  BY <1>1 DEF Deployments, InitProtocol
<1>2. CASE i \in Configurations
  BY <1>2 DEF Configurations, ConfigureAsset
<1>3. CASE i \in Prices
  BY <1>3 DEF Prices, SetPriceFeed
<1>4. CASE i \in Updates
  BY <1>4 DEF Updates, UpdateAssetConfig
<1>5. CASE i \in Pauses
  BY <1>5 DEF Pauses, SetPaused
<1>6. CASE i \in Proposals
  BY <1>6 DEF Proposals, TransferAuthority
<1>7. CASE i \in Acceptances
  BY <1>7 DEF Acceptances, AcceptAuthority
<1>8. CASE i \in Collections
  BY <1>8 DEF Collections, CollectFees
<1>9. CASE i \in Sweeps
  BY <1>9 DEF Sweeps, WithdrawTreasury
<1> QED
  BY <1>1, <1>2, <1>3, <1>4, <1>5, <1>6, <1>7, <1>8, <1>9 DEF Administration

LEMMA AllDeclared == \A i \in Instructions : Declared(i)
BY UserInstructionsDeclared, LiquidationsDeclared, AdministrationDeclared
DEF Instructions

-----------------------------------------------------------------------------
(* The inductive invariant. *)

\* A slot that is not idle and was not refused holds an instruction, and one
\* that runs was signed by all who must.
SlotsHold ==
    /\ DOMAIN tx = Slots
    /\ \A s \in Slots :
          /\ tx[s].at \in {"idle", "sent", "running"}
          /\ tx[s].at = "idle" => tx[s] = Idle
          /\ tx[s].at # "idle"
               => /\ tx[s] = [at |-> tx[s].at, i |-> tx[s].i, by |-> tx[s].by]
                  /\ tx[s].i \in Instructions
          /\ tx[s].at = "running" => tx[s].i.takes.signers \subseteq tx[s].by

\* Everything at once.
TxInvariant ==
    /\ SlotsHold
    /\ DOMAIN lastChange = Users
    /\ OneAtATime
    /\ OwnersSigned

LEMMA TxInvariantAtFirst == TxInit => TxInvariant
BY DEF TxInit, TxInvariant, SlotsHold, Idle, OneAtATime, OwnersSigned, Holds

LEMMA StartKeepsInvariant ==
    ASSUME TxInvariant, NEW s \in Slots, Start(s)
    PROVE  TxInvariant'
<1>1. /\ tx' = [tx EXCEPT ![s] = [at |-> "running", i |-> tx[s].i,
                                  by |-> tx[s].by]]
      /\ tx[s].i \in Instructions
      /\ tx[s].i.takes.signers \subseteq tx[s].by
  <2>1. /\ tx[s] = [at |-> "sent", i |-> tx[s].i, by |-> tx[s].by]
        /\ tx[s].i \in Instructions
    BY DEF TxInvariant, SlotsHold, Start, Holds
  <2>2. [tx[s] EXCEPT !.at = "running"]
          = [at |-> "running", i |-> tx[s].i, by |-> tx[s].by]
    BY <2>1
  <2>3. tx' = [tx EXCEPT ![s] = [tx[s] EXCEPT !.at = "running"]]
    BY DEF Start
  <2> QED
    BY <2>1, <2>2, <2>3 DEF Start
<1>2. SlotsHold'
  BY <1>1 DEF TxInvariant, SlotsHold
<1>3. ASSUME NEW r \in Slots, Holds(r, "running") PROVE FALSE
  <2>1. tx[r].i \in Instructions
    BY <1>3 DEF TxInvariant, SlotsHold, Holds
  <2>2. Conflict(tx[s].i.takes, tx[r].i.takes)
    BY <1>1, <2>1, AllDeclared DEF Conflict, Declared
  <2> QED
    BY <1>3, <2>2 DEF Start
<1>4. OneAtATime'
  BY <1>1, <1>3 DEF TxInvariant, SlotsHold, OneAtATime, Holds
<1> QED
  BY <1>2, <1>4 DEF TxInvariant, Start, OwnersSigned

LEMMA CommitKeepsInvariant ==
    ASSUME TxInvariant, NEW s \in Slots, Commit(s)
    PROVE  TxInvariant'
<1>1. /\ tx[s].i \in Instructions /\ Declared(tx[s].i)
      /\ tx[s].i.takes.signers \subseteq tx[s].by
  BY AllDeclared DEF TxInvariant, SlotsHold, Commit, Holds
<1>2. /\ tx' = [tx EXCEPT ![s] = Idle]
      /\ lastChange' = [u \in Users |->
                           IF u = tx[s].i.owner
                           THEN [by |-> tx[s].by, name |-> tx[s].i.name]
                           ELSE lastChange[u]]
  BY <1>1 DEF Commit, Declared
<1>3. SlotsHold' /\ OneAtATime'
  BY <1>2 DEF TxInvariant, SlotsHold, OneAtATime, Holds, Idle
<1>4. OwnersSigned'
  BY <1>1, <1>2 DEF TxInvariant, OwnersSigned, Declared
<1> QED
  BY <1>2, <1>3, <1>4 DEF TxInvariant

LEMMA StepKeepsInvariant == TxInvariant /\ [TxNext]_txVars => TxInvariant'
<1> SUFFICES ASSUME TxInvariant, [TxNext]_txVars
             PROVE  TxInvariant'
  OBVIOUS
<1> USE DEF TxInvariant, SlotsHold, OneAtATime, OwnersSigned, Holds
<1>1. ASSUME NEW s \in Slots, NEW i \in Instructions, NEW by, Send(s, i, by)
      PROVE  TxInvariant'
  <2>1. tx' = [tx EXCEPT ![s] = [at |-> "sent", i |-> i, by |-> by]]
    BY <1>1 DEF Send
  <2> QED
    BY <1>1, <2>1 DEF Send
<1>2. ASSUME NEW s \in Slots, Start(s) PROVE TxInvariant'
  BY <1>2, StartKeepsInvariant
<1>3. ASSUME NEW s \in Slots, Commit(s) PROVE TxInvariant'
  BY <1>3, CommitKeepsInvariant
<1>4. ASSUME NEW s \in Slots, Abort(s) \/ Drop(s) PROVE TxInvariant'
  BY <1>4 DEF Abort, Drop, Idle
<1>5. CASE UNCHANGED txVars
  BY <1>5 DEF txVars
<1> QED
  BY <1>1, <1>2, <1>3, <1>4, <1>5 DEF TxNext

LEMMA TxInvariantAlways == TxSpec => []TxInvariant
BY TxInvariantAtFirst, StepKeepsInvariant, PTL DEF TxSpec

-----------------------------------------------------------------------------
\* No two transactions of the program run at once: every instruction of
\* lib/protocol.ts takes ProtocolState for writing.
THEOREM AlwaysOneAtATime == TxSpec => []OneAtATime
<1>1. TxInvariant => OneAtATime
  BY DEF TxInvariant
<1> QED
  BY <1>1, TxInvariantAlways, PTL

\* No handler writes to an account that its instruction takes for reading.
THEOREM NothingIsEverRefused == TxSpec => []NothingIsRefused
<1>1. TxInvariant => NothingIsRefused
  BY DEF TxInvariant, SlotsHold, NothingIsRefused, Holds
<1> QED
  BY <1>1, TxInvariantAlways, PTL

\* A user's accounts change only in transactions that the user signed, or by
\* liquidation.
THEOREM OwnersAlwaysSigned == TxSpec => []OwnersSigned
<1>1. TxInvariant => OwnersSigned
  BY DEF TxInvariant
<1> QED
  BY <1>1, TxInvariantAlways, PTL
=============================================================================
