------------------------------ MODULE MCBackend ------------------------------
(***************************************************************************)
(* A small instance of Backend for TLC.                                    *)
(***************************************************************************)
EXTENDS Backend, TLC

CONSTANTS
    Alice, SolMint, Few, Many

Json(action, amount) ==
    [prefix |-> "Program log: ", action |-> action, amount |-> amount]

Emitted(event, amount) ==
    [prefix |-> "Program data: ", event |-> event, amount |-> amount]

\* A transaction with two events of one kind, another between them, and a line
\* that ends the reading of its log; and one whose events the program emitted.
MCLogs ==
    << <<Json("deposit", 1), Json("withdraw", 1), Json("deposit", 2),
         Json("broken", 0), Json("borrow", 1)>>,
       <<Json("unknown", 0), Emitted("borrowEvent", 1)>> >>

\* A user with both kinds of position in one market, and one of each other kind
\* of account.
MCChain ==
    {Collateral(Alice, SolMint, Few), Loan(Alice, SolMint, Many),
     Summary(Alice, Few), VaultData(SolMint, Few),
     State(Alice), FeedData(SolMint), TreasuryData}
=============================================================================
