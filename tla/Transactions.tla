---------------------------- MODULE Transactions ----------------------------
(***************************************************************************)
(* How the transactions of the program run: a client signs one for an      *)
(* instruction of module Interface, the runtime refuses it if a signature  *)
(* is missing, waits until no running transaction holds an account that it *)
(* conflicts on, executes the handler and either keeps all the writes or   *)
(* none.                                                                   *)
(*                                                                         *)
(* The modules Lending, Governance and Program take a handler for one      *)
(* atomic step, and a write for something the runtime lets happen; that    *)
(* rests on what the interface declares, and is what is checked here.      *)
(*                                                                         *)
(* External: the runtime (locks, signatures, expiry), modelled from what   *)
(* the program and its clients need of it.                                 *)
(***************************************************************************)
EXTENDS Interface

CONSTANTS
    Slots,          \* transactions under way at the same time
    Users, Mints,
    Keys            \* the keys of the administration

VARIABLES
    tx,             \* what each slot holds: a transaction and where it is
    lastChange      \* history: of each owner, the last change of an account

txVars == <<tx, lastChange>>

-----------------------------------------------------------------------------
(* The instructions, with the accounts that their handlers write: the fields *)
(* they assign, the token accounts they move tokens between, and whoever     *)
(* pays for an account that is created.                                      *)

Instr(name, owner, takes, writes) ==
    [name |-> name, owner |-> owner, takes |-> takes, writes |-> writes]

\* Instructions that touch no user's account have no owner.
None == <<"none">>

ASSUME UsersAssumption == None \notin Users

Deposits ==
    {Instr("deposit", u, DepositCollateral(u, m),
           {ProtocolState, Vault(m), UserCollateral(u, m), UserAccount(u),
            Ata(Vault(m), m), Ata(u, m), u}) : u \in Users, m \in Mints}

Withdrawals ==
    {Instr("withdraw", u, WithdrawCollateral(u, m),
           {Vault(m), UserCollateral(u, m), UserAccount(u),
            Ata(Vault(m), m), Ata(u, m)}) : u \in Users, m \in Mints}

Loans ==
    {Instr("borrow", u, BorrowAsset(u, c, m),
           {ProtocolState, Vault(m), BorrowPosition(u, m),
            Ata(Vault(m), m), Ata(u, m), u}) :
        u \in Users, c \in Mints, m \in Mints}

Repayments ==
    {Instr("repay", u, RepayDebt(u, m),
           {ProtocolState, Vault(m), BorrowPosition(u, m),
            Ata(Vault(m), m), Ata(u, m)}) : u \in Users, m \in Mints}

Liquidations ==
    {Instr("liquidate", u, LiquidatePosition(l, u, c, b),
           {ProtocolState, Treasury, Vault(c), UserCollateral(u, c),
            BorrowPosition(u, b), Ata(Vault(b), b), Ata(l, b)}) :
        l \in Users, u \in Users, c \in Mints, b \in Mints}

Deployments ==
    {Instr("init", None, InitProtocol(k, k), {ProtocolState, Treasury, k}) :
        k \in Keys}

Configurations ==
    {Instr("configure", None, ConfigureAsset(k, k, m),
           {ProtocolState, Vault(m), PriceFeed(m), k}) :
        k \in Keys, m \in Mints}

Prices ==
    {Instr("price", None, SetPriceFeed(k, m), {PriceFeed(m)}) :
        k \in Keys, m \in Mints}

Updates ==
    {Instr("update", None, UpdateAssetConfig(k, m), {PriceFeed(m)}) :
        k \in Keys, m \in Mints}

Pauses == {Instr("pause", None, SetPaused(k), {ProtocolState}) : k \in Keys}

Proposals ==
    {Instr("transfer", None, TransferAuthority(k, new), {ProtocolState}) :
        k \in Keys, new \in Keys}

Acceptances ==
    {Instr("accept", None, AcceptAuthority(k), {ProtocolState}) : k \in Keys}

Collections ==
    {Instr("collect", None, CollectFees(k), {Treasury}) : k \in Keys}

Sweeps ==
    {Instr("sweep", None, WithdrawTreasury(k, k, m),
           {Ata(Treasury, m), Ata(k, m)}) : k \in Keys, m \in Mints}

Administration ==
    Deployments \cup Configurations \cup Prices \cup Updates \cup Pauses
        \cup Proposals \cup Acceptances \cup Collections \cup Sweeps

Instructions ==
    Deposits \cup Withdrawals \cup Loans \cup Repayments \cup Liquidations
        \cup Administration

-----------------------------------------------------------------------------
Idle == [at |-> "idle"]

Holds(s, state) == tx[s].at = state

TxInit ==
    /\ tx = [s \in Slots |-> Idle]
    /\ lastChange = [u \in Users |-> [by |-> {}, name |-> "none"]]

\* A client signs with the wallets it has and sends.
Send(s, i, by) ==
    /\ Holds(s, "idle")
    /\ tx' = [tx EXCEPT ![s] = [at |-> "sent", i |-> i, by |-> by]]
    /\ UNCHANGED lastChange

\* Two transactions conflict on an account that one of them may write.
Conflict(t1, t2) ==
    \/ t1.writable \cap (t2.writable \cup t2.readonly) # {}
    \/ t2.writable \cap t1.readonly # {}

\* All signatures are there, and the accounts are free.
Start(s) ==
    /\ Holds(s, "sent")
    /\ tx[s].i.takes.signers \subseteq tx[s].by
    /\ \A r \in Slots :
          Holds(r, "running") => ~Conflict(tx[s].i.takes, tx[r].i.takes)
    /\ tx' = [tx EXCEPT ![s].at = "running"]
    /\ UNCHANGED lastChange

\* The handler returns no error: its writes are kept, unless one of them went
\* to an account that was not taken for writing.
Commit(s) ==
    /\ Holds(s, "running")
    /\ IF tx[s].i.writes \subseteq tx[s].i.takes.writable
       THEN /\ tx' = [tx EXCEPT ![s] = Idle]
            /\ lastChange' =
                  [u \in Users |->
                      IF u = tx[s].i.owner
                      THEN [by |-> tx[s].by, name |-> tx[s].i.name]
                      ELSE lastChange[u]]
       ELSE /\ tx' = [tx EXCEPT ![s].at = "refused"]
            /\ UNCHANGED lastChange

\* The handler returns an error: nothing is written.
Abort(s) ==
    /\ Holds(s, "running")
    /\ tx' = [tx EXCEPT ![s] = Idle]
    /\ UNCHANGED lastChange

\* A signature is missing, or the transaction is too old to run.
Drop(s) ==
    /\ Holds(s, "sent")
    /\ tx' = [tx EXCEPT ![s] = Idle]
    /\ UNCHANGED lastChange

TxNext ==
    \E s \in Slots :
        \/ \E i \in Instructions :
              \E by \in {i.takes.signers, {}} : Send(s, i, by)
        \/ Start(s)
        \/ Commit(s)
        \/ Abort(s)
        \/ Drop(s)

TxSpec == TxInit /\ [][TxNext]_txVars

-----------------------------------------------------------------------------
\* Every instruction takes ProtocolState for writing, those too that only read
\* the pause switch there: no two transactions of the program ever run at the
\* same time, for any users and markets.  So a handler is one atomic step, a
\* pause never overtakes a withdrawal that has read the switch, and the totals
\* and the accounts they are totals of change together.
OneAtATime ==
    \A r, s \in Slots :
        (Holds(r, "running") /\ Holds(s, "running")) => r = s

\* No handler writes to an account that its instruction takes for reading:
\* nothing is refused that the handler accepted.
NothingIsRefused == \A s \in Slots : ~Holds(s, "refused")

\* The accounts of a user change only in transactions that the user signed, or
\* by liquidation.
OwnersSigned ==
    \A u \in Users :
        lastChange[u].name \notin {"none", "liquidate"}
            => u \in lastChange[u].by
=============================================================================
