------------------------------ MODULE Portfolio ------------------------------
(***************************************************************************)
(* How the backend reads the accounts of the program: the raw data of an   *)
(* account, decoded at fixed offsets (services/portfolio-service.ts, the   *)
(* same decoder in services/liquidation-monitor.ts).  What is found at an  *)
(* offset follows from the layouts of module Interface.                    *)
(***************************************************************************)
EXTENDS Interface

CONSTANTS
    Users, Mints,
    Shares,         \* share counts an account may hold
    Junk            \* what is read where no such field begins

\* The data of an account: its type and its fields by name; of the fields only
\* those somebody reads.
Account(type, fields) == [type |-> type, fields |-> fields]

Collateral(u, m, s) ==
    Account("userCollateralAccount", [owner |-> u, assetMint |-> m, shares |-> s])

Loan(u, m, s) ==
    Account("borrowPosition", [owner |-> u, borrowMint |-> m, debtShares |-> s])

Summary(u, s) ==
    Account("userAccount",
            [owner |-> u, collateralShares |-> s, debtShares |-> 0])

VaultData(m, s) == Account("vaultAccount", [assetMint |-> m, totalShares |-> s])

State(k) ==
    Account("protocolState",
            [authority |-> k, proposedAuthority |-> Junk, treasury |-> Treasury])

FeedData(m) == Account("priceFeed", [assetMint |-> m])

TreasuryData == Account("treasuryAccount", [treasuryBump |-> Junk])

\* All the accounts that may exist; the authority is a user like any other.
Accounts ==
    {Collateral(u, m, s) : u \in Users, m \in Mints, s \in Shares}
        \cup {Loan(u, m, s) : u \in Users, m \in Mints, s \in Shares}
        \cup {Summary(u, s) : u \in Users, s \in Shares}
        \cup {VaultData(m, s) : m \in Mints, s \in Shares}
        \cup {State(u) : u \in Users}
        \cup {FeedData(m) : m \in Mints}
        \cup {TreasuryData}

\* The value read at an offset of the data of an account.
At(account, offset) ==
    LET found == FieldsAt(account.type, offset) \cap DOMAIN account.fields
    IN  IF found = {} THEN Junk
        ELSE account.fields[CHOOSE f \in found : TRUE]

\* An address read there.
AddressAt(account, offset) ==
    LET value == At(account, offset)
    IN  IF value \in Mints \cup Users THEN value ELSE Junk

-----------------------------------------------------------------------------
\* The first branch takes any account that is long enough.
Decodes(account) == Size(account.type) - DISCRIMINATOR >= 89

\* tryDecodePosition: whoever decodes gets a deposit, for the branch of loans
\* comes after one that takes longer accounts too.  The health factor of a
\* position is not computed.
tryDecodePosition(account) ==
    [market       |-> AddressAt(account, DISCRIMINATOR + 32),
     deposited    |-> At(account, DISCRIMINATOR + 64),
     borrowed     |-> 0,
     healthFactor |-> 200]

\* The positions among the accounts whose data names the address after the
\* discriminator.
PositionsOf(accounts, u) ==
    {tryDecodePosition(a) :
        a \in {b \in accounts : AddressAt(b, DISCRIMINATOR) = u /\ Decodes(b)}}

\* What fetchPositions may return: if the request fails, no position, and the
\* caller cannot tell.
fetchPositions(accounts, u) == {PositionsOf(accounts, u), {}}
=============================================================================
