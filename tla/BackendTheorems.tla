--------------------------- MODULE BackendTheorems ---------------------------
(***************************************************************************)
(* What is proved about the services of the backend: its indexer and its   *)
(* monitor with the life of the process (module Backend), the requests of  *)
(* a portfolio (module PortfolioApi) and the service of exchange rates     *)
(* (module FxService).                                                     *)
(***************************************************************************)
EXTENDS Backend, FxService, PortfolioApi, TLAPS

(***************************************************************************)
(* What the decoder finds in an account.  A recursive function is a CHOOSE *)
(* of a function that satisfies its equation, and so unfolds as soon as    *)
(* one is shown: each layout has its own.                                  *)
(***************************************************************************)

\* end is where the n fields of an account end.
AddsUp(type, n, end) ==
    end = [i \in 0..n |-> IF i = 0 THEN DISCRIMINATOR
                          ELSE end[i - 1] + Fields[type][i][2]]

LEMMA EndsAddUp ==
    ASSUME NEW type, NEW n \in Nat, NEW end,
           Len(Fields[type]) = n, AddsUp(type, n, end)
    PROVE  /\ Ends(type)[0] = 8
           /\ \A i \in 1..n :
                 Ends(type)[i] = Ends(type)[i - 1] + Fields[type][i][2]
<1> DEFINE Step(f) == [i \in 0..n |-> IF i = 0 THEN DISCRIMINATOR
                                      ELSE f[i - 1] + Fields[type][i][2]]
<1>1. Ends(type) = CHOOSE f : f = Step(f)
  BY DEF Ends
<1>2. Ends(type) = Step(Ends(type))
  BY <1>1 DEF AddsUp
<1> QED
  BY <1>2 DEF DISCRIMINATOR

LEMMA CollateralLayout ==
    /\ Size("userCollateralAccount") = 97
    /\ FieldsAt("userCollateralAccount", 8) = {"owner"}
    /\ FieldsAt("userCollateralAccount", 40) = {"assetMint"}
    /\ FieldsAt("userCollateralAccount", 72) = {"shares"}
<1> DEFINE type == "userCollateralAccount"
<1>1. /\ Len(Fields[type]) = 5
      /\ Fields[type][1] = <<"owner", 32>>
      /\ Fields[type][2] = <<"assetMint", 32>>
      /\ Fields[type][3] = <<"shares", 16>>
      /\ Fields[type][4][2] = 8 /\ Fields[type][5][2] = 1
  BY DEF Fields, UserCollateralFields
<1>2. PICK end : end = [n \in 0..5 |-> IF n = 0 THEN 8 ELSE IF n = 1 THEN 40
                        ELSE IF n = 2 THEN 72 ELSE IF n = 3 THEN 88
                        ELSE IF n = 4 THEN 96 ELSE 97]
  OBVIOUS
<1> HIDE DEF type
<1>3. AddsUp(type, 5, end)
  BY <1>1, <1>2 DEF AddsUp, DISCRIMINATOR
<1>4. /\ Ends(type)[0] = 8
      /\ \A n \in 1..5 : Ends(type)[n] = Ends(type)[n - 1] + Fields[type][n][2]
  BY <1>1, <1>3, EndsAddUp
<1>5. /\ Ends(type)[1] = 40 /\ Ends(type)[2] = 72 /\ Ends(type)[3] = 88
      /\ Ends(type)[4] = 96 /\ Ends(type)[5] = 97
  BY <1>1, <1>4
<1>6. \A i \in 1..5 : /\ (Ends(type)[i - 1] = 8) <=> (i = 1)
                      /\ (Ends(type)[i - 1] = 40) <=> (i = 2)
                      /\ (Ends(type)[i - 1] = 72) <=> (i = 3)
  BY <1>4, <1>5
<1>7. /\ Size(type) = 97
      /\ FieldsAt(type, 8) = {"owner"}
      /\ FieldsAt(type, 40) = {"assetMint"}
      /\ FieldsAt(type, 72) = {"shares"}
  BY <1>1, <1>5, <1>6 DEF Size, FieldsAt
<1> QED
  BY <1>7 DEF type

LEMMA LoanLayout ==
    /\ Size("borrowPosition") = 105
    /\ FieldsAt("borrowPosition", 8) = {"owner"}
    /\ FieldsAt("borrowPosition", 40) = {"borrowMint"}
<1> DEFINE type == "borrowPosition"
<1>1. /\ Len(Fields[type]) = 6
      /\ Fields[type][1] = <<"owner", 32>>
      /\ Fields[type][2] = <<"borrowMint", 32>> /\ Fields[type][3][2] = 16
      /\ Fields[type][4][2] = 8 /\ Fields[type][5][2] = 8
      /\ Fields[type][6][2] = 1
  BY DEF Fields, BorrowPositionFields
<1>2. PICK end : end = [n \in 0..6 |->
                        IF n = 0 THEN 8 ELSE IF n = 1 THEN 40 ELSE
                        IF n = 2 THEN 72 ELSE IF n = 3 THEN 88 ELSE
                        IF n = 4 THEN 96 ELSE IF n = 5 THEN 104 ELSE
                        105]
  OBVIOUS
<1> HIDE DEF type
<1>3. AddsUp(type, 6, end)
  BY <1>1, <1>2 DEF AddsUp, DISCRIMINATOR
<1>4. /\ Ends(type)[0] = 8
      /\ \A n \in 1..6 : Ends(type)[n] = Ends(type)[n - 1] + Fields[type][n][2]
  BY <1>1, <1>3, EndsAddUp
<1>5. /\ Ends(type)[1] = 40 /\ Ends(type)[2] = 72 /\ Ends(type)[3] = 88
      /\ Ends(type)[4] = 96 /\ Ends(type)[5] = 104 /\ Ends(type)[6] = 105
  BY <1>1, <1>4
<1>6. \A i \in 1..6 : /\ (Ends(type)[i - 1] = 8) <=> (i = 1)
                      /\ (Ends(type)[i - 1] = 40) <=> (i = 2)
  BY <1>4, <1>5
<1>7. /\ Size(type) = 105
      /\ FieldsAt(type, 8) = {"owner"}
      /\ FieldsAt(type, 40) = {"borrowMint"}
  BY <1>1, <1>5, <1>6 DEF Size, FieldsAt
<1> QED
  BY <1>7 DEF type

LEMMA SummarySize ==
    Size("userAccount") = 81
<1> DEFINE type == "userAccount"
<1>1. /\ Len(Fields[type]) = 5
      /\ Fields[type][1][2] = 32 /\ Fields[type][2][2] = 16
      /\ Fields[type][3][2] = 16 /\ Fields[type][4][2] = 8
      /\ Fields[type][5][2] = 1
  BY DEF Fields, UserAccountFields
<1>2. PICK end : end = [n \in 0..5 |->
                        IF n = 0 THEN 8 ELSE IF n = 1 THEN 40 ELSE
                        IF n = 2 THEN 56 ELSE IF n = 3 THEN 72 ELSE
                        IF n = 4 THEN 80 ELSE 81]
  OBVIOUS
<1> HIDE DEF type
<1>3. AddsUp(type, 5, end)
  BY <1>1, <1>2 DEF AddsUp, DISCRIMINATOR
<1>4. /\ Ends(type)[0] = 8
      /\ \A n \in 1..5 : Ends(type)[n] = Ends(type)[n - 1] + Fields[type][n][2]
  BY <1>1, <1>3, EndsAddUp
<1>5. /\ Ends(type)[1] = 40 /\ Ends(type)[2] = 56 /\ Ends(type)[3] = 72
      /\ Ends(type)[4] = 80 /\ Ends(type)[5] = 81
  BY <1>1, <1>4
<1>6. Size(type) = 81
  BY <1>1, <1>5 DEF Size
<1> QED
  BY <1>6 DEF type

LEMMA VaultSize ==
    Size("vaultAccount") = 146
<1> DEFINE type == "vaultAccount"
<1>1. /\ Len(Fields[type]) = 9
      /\ Fields[type][1][2] = 32 /\ Fields[type][2][2] = 16
      /\ Fields[type][3][2] = 8 /\ Fields[type][4][2] = 1
      /\ Fields[type][5][2] = 32 /\ Fields[type][6][2] = 32
      /\ Fields[type][7][2] = 8 /\ Fields[type][8][2] = 8
      /\ Fields[type][9][2] = 1
  BY DEF Fields, VaultFields
<1>2. PICK end : end = [n \in 0..9 |->
                        IF n = 0 THEN 8 ELSE IF n = 1 THEN 40 ELSE
                        IF n = 2 THEN 56 ELSE IF n = 3 THEN 64 ELSE
                        IF n = 4 THEN 65 ELSE IF n = 5 THEN 97 ELSE
                        IF n = 6 THEN 129 ELSE IF n = 7 THEN 137 ELSE
                        IF n = 8 THEN 145 ELSE 146]
  OBVIOUS
<1> HIDE DEF type
<1>3. AddsUp(type, 9, end)
  BY <1>1, <1>2 DEF AddsUp, DISCRIMINATOR
<1>4. /\ Ends(type)[0] = 8
      /\ \A n \in 1..9 : Ends(type)[n] = Ends(type)[n - 1] + Fields[type][n][2]
  BY <1>1, <1>3, EndsAddUp
<1>5. /\ Ends(type)[1] = 40 /\ Ends(type)[2] = 56 /\ Ends(type)[3] = 64
      /\ Ends(type)[4] = 65 /\ Ends(type)[5] = 97 /\ Ends(type)[6] = 129
      /\ Ends(type)[7] = 137 /\ Ends(type)[8] = 145 /\ Ends(type)[9] = 146
  BY <1>1, <1>4
<1>6. Size(type) = 146
  BY <1>1, <1>5 DEF Size
<1> QED
  BY <1>6 DEF type

LEMMA StateSize ==
    Size("protocolState") = 219
<1> DEFINE type == "protocolState"
<1>1. /\ Len(Fields[type]) = 13
      /\ Fields[type][1][2] = 32 /\ Fields[type][2][2] = 32
      /\ Fields[type][3][2] = 32 /\ Fields[type][4][2] = 32
      /\ Fields[type][5][2] = 1 /\ Fields[type][6][2] = 1
      /\ Fields[type][7][2] = 16 /\ Fields[type][8][2] = 16
      /\ Fields[type][9][2] = 16 /\ Fields[type][10][2] = 16
      /\ Fields[type][11][2] = 8 /\ Fields[type][12][2] = 8
      /\ Fields[type][13][2] = 1
  BY DEF Fields, ProtocolStateFields
<1>2. PICK end : end = [n \in 0..13 |->
                        IF n = 0 THEN 8 ELSE IF n = 1 THEN 40 ELSE
                        IF n = 2 THEN 72 ELSE IF n = 3 THEN 104 ELSE
                        IF n = 4 THEN 136 ELSE IF n = 5 THEN 137 ELSE
                        IF n = 6 THEN 138 ELSE IF n = 7 THEN 154 ELSE
                        IF n = 8 THEN 170 ELSE IF n = 9 THEN 186 ELSE
                        IF n = 10 THEN 202 ELSE IF n = 11 THEN 210 ELSE
                        IF n = 12 THEN 218 ELSE 219]
  OBVIOUS
<1> HIDE DEF type
<1>3. AddsUp(type, 13, end)
  BY <1>1, <1>2 DEF AddsUp, DISCRIMINATOR
<1>4. /\ Ends(type)[0] = 8
      /\ \A n \in 1..13 : Ends(type)[n] = Ends(type)[n - 1] + Fields[type][n][2]
  BY <1>1, <1>3, EndsAddUp
<1>5. /\ Ends(type)[1] = 40 /\ Ends(type)[2] = 72 /\ Ends(type)[3] = 104
      /\ Ends(type)[4] = 136 /\ Ends(type)[5] = 137 /\ Ends(type)[6] = 138
      /\ Ends(type)[7] = 154 /\ Ends(type)[8] = 170 /\ Ends(type)[9] = 186
      /\ Ends(type)[10] = 202 /\ Ends(type)[11] = 210 /\ Ends(type)[12] = 218
      /\ Ends(type)[13] = 219
  BY <1>1, <1>4
<1>6. Size(type) = 219
  BY <1>1, <1>5 DEF Size
<1> QED
  BY <1>6 DEF type

LEMMA FeedSize ==
    Size("priceFeed") = 76
<1> DEFINE type == "priceFeed"
<1>1. /\ Len(Fields[type]) = 9
      /\ Fields[type][1][2] = 32 /\ Fields[type][2][2] = 8
      /\ Fields[type][3][2] = 1 /\ Fields[type][4][2] = 8
      /\ Fields[type][5][2] = 8 /\ Fields[type][6][2] = 8
      /\ Fields[type][7][2] = 1 /\ Fields[type][8][2] = 1
      /\ Fields[type][9][2] = 1
  BY DEF Fields, PriceFeedFields
<1>2. PICK end : end = [n \in 0..9 |->
                        IF n = 0 THEN 8 ELSE IF n = 1 THEN 40 ELSE
                        IF n = 2 THEN 48 ELSE IF n = 3 THEN 49 ELSE
                        IF n = 4 THEN 57 ELSE IF n = 5 THEN 65 ELSE
                        IF n = 6 THEN 73 ELSE IF n = 7 THEN 74 ELSE
                        IF n = 8 THEN 75 ELSE 76]
  OBVIOUS
<1> HIDE DEF type
<1>3. AddsUp(type, 9, end)
  BY <1>1, <1>2 DEF AddsUp, DISCRIMINATOR
<1>4. /\ Ends(type)[0] = 8
      /\ \A n \in 1..9 : Ends(type)[n] = Ends(type)[n - 1] + Fields[type][n][2]
  BY <1>1, <1>3, EndsAddUp
<1>5. /\ Ends(type)[1] = 40 /\ Ends(type)[2] = 48 /\ Ends(type)[3] = 49
      /\ Ends(type)[4] = 57 /\ Ends(type)[5] = 65 /\ Ends(type)[6] = 73
      /\ Ends(type)[7] = 74 /\ Ends(type)[8] = 75 /\ Ends(type)[9] = 76
  BY <1>1, <1>4
<1>6. Size(type) = 76
  BY <1>1, <1>5 DEF Size
<1> QED
  BY <1>6 DEF type

LEMMA TreasurySize ==
    Size("treasuryAccount") = 41
<1> DEFINE type == "treasuryAccount"
<1>1. /\ Len(Fields[type]) = 5
      /\ Fields[type][1][2] = 1 /\ Fields[type][2][2] = 8
      /\ Fields[type][3][2] = 8 /\ Fields[type][4][2] = 8
      /\ Fields[type][5][2] = 8
  BY DEF Fields, TreasuryFields
<1>2. PICK end : end = [n \in 0..5 |->
                        IF n = 0 THEN 8 ELSE IF n = 1 THEN 9 ELSE
                        IF n = 2 THEN 17 ELSE IF n = 3 THEN 25 ELSE
                        IF n = 4 THEN 33 ELSE 41]
  OBVIOUS
<1> HIDE DEF type
<1>3. AddsUp(type, 5, end)
  BY <1>1, <1>2 DEF AddsUp, DISCRIMINATOR
<1>4. /\ Ends(type)[0] = 8
      /\ \A n \in 1..5 : Ends(type)[n] = Ends(type)[n - 1] + Fields[type][n][2]
  BY <1>1, <1>3, EndsAddUp
<1>5. /\ Ends(type)[1] = 9 /\ Ends(type)[2] = 17 /\ Ends(type)[3] = 25
      /\ Ends(type)[4] = 33 /\ Ends(type)[5] = 41
  BY <1>1, <1>4
<1>6. Size(type) = 41
  BY <1>1, <1>5 DEF Size
<1> QED
  BY <1>6 DEF type

-----------------------------------------------------------------------------
(***************************************************************************)
(* Accounts as the decoder sees them.                                      *)
(***************************************************************************)

\* The address that an account has in its field f, if that field starts at the
\* offset and nothing else does.
LEMMA AddressOfField ==
    ASSUME NEW a, NEW offset, NEW f,
           FieldsAt(a.type, offset) = {f}, f \in DOMAIN a.fields
    PROVE  /\ At(a, offset) = a.fields[f]
           /\ a.fields[f] \in Mints \cup Users =>
                 AddressAt(a, offset) = a.fields[f]
<1>1. FieldsAt(a.type, offset) \cap DOMAIN a.fields = {f}
  OBVIOUS
<1>2. (CHOOSE g \in {f} : TRUE) = f
  OBVIOUS
<1>3. At(a, offset) = a.fields[f]
  BY <1>1, <1>2 DEF At
<1> QED
  BY <1>3 DEF AddressAt

LEMMA CollateralDecoded ==
    ASSUME NEW u \in Users, NEW m \in Mints, NEW s
    PROVE  LET a == Collateral(u, m, s)
           IN  /\ Size(a.type) = 97
               /\ AddressAt(a, 8) = u
               /\ tryDecodePosition(a).market = m
               /\ tryDecodePosition(a).deposited = s
<1> DEFINE a == Collateral(u, m, s)
<1>1. /\ a.type = "userCollateralAccount"
      /\ DOMAIN a.fields = {"owner", "assetMint", "shares"}
      /\ a.fields["owner"] = u /\ a.fields["assetMint"] = m
      /\ a.fields["shares"] = s
  BY DEF Collateral, Account
<1> HIDE DEF a
<1>2. AddressAt(a, 8) = u
  BY <1>1, CollateralLayout, AddressOfField
<1>3. AddressAt(a, 40) = m
  BY <1>1, CollateralLayout, AddressOfField
<1>4. At(a, 72) = s
  BY <1>1, CollateralLayout, AddressOfField
<1>5. /\ tryDecodePosition(a).market = m
      /\ tryDecodePosition(a).deposited = s
  BY <1>3, <1>4 DEF tryDecodePosition, DISCRIMINATOR
<1> QED
  BY <1>1, <1>2, <1>5, CollateralLayout DEF a

LEMMA LoanDecoded ==
    ASSUME NEW u \in Users, NEW m \in Mints, NEW s
    PROVE  tryDecodePosition(Loan(u, m, s)).market = m
<1> DEFINE a == Loan(u, m, s)
<1>1. /\ a.type = "borrowPosition"
      /\ DOMAIN a.fields = {"owner", "borrowMint", "debtShares"}
      /\ a.fields["borrowMint"] = m
  BY DEF Loan, Account
<1> HIDE DEF a
<1>2. AddressAt(a, 40) = m
  BY <1>1, LoanLayout, AddressOfField
<1>3. tryDecodePosition(a).market = m
  BY <1>2 DEF tryDecodePosition, DISCRIMINATOR
<1> QED
  BY <1>3 DEF a

\* A deposit among the accounts is among the positions of its owner: the offsets
\* are those of its fields, whatever other accounts there are.
LEMMA DepositDecoded ==
    ASSUME NEW accounts, NEW a \in accounts, a \in Accounts,
           a.type = "userCollateralAccount"
    PROVE  \E p \in PositionsOf(accounts, a.fields.owner) :
              p.market = a.fields.assetMint /\ p.deposited = a.fields.shares
<1>1. PICK u \in Users, m \in Mints, s \in Shares : a = Collateral(u, m, s)
  BY DEF Accounts, Loan, Summary, VaultData, State, FeedData, TreasuryData,
         Account
<1>2. /\ a.fields.owner = u /\ a.fields.assetMint = m /\ a.fields.shares = s
  BY <1>1 DEF Collateral, Account
<1>3. /\ Size(a.type) = 97 /\ AddressAt(a, 8) = u
      /\ tryDecodePosition(a).market = m
      /\ tryDecodePosition(a).deposited = s
  BY <1>1, CollateralDecoded
<1>4. Decodes(a)
  BY <1>3 DEF Decodes, DISCRIMINATOR
<1>5. tryDecodePosition(a) \in PositionsOf(accounts, u)
  BY <1>3, <1>4 DEF PositionsOf, DISCRIMINATOR
<1> QED
  BY <1>2, <1>3, <1>5

Answers == {tryDecodePosition(a) : a \in Accounts}

ApiRequest ==
    [step : {"idle", "positions", "rates", "answered", "failed"},
     user : Users \cup {Junk}, positions : SUBSET Answers,
     kept : SUBSET Accounts]

\* What is kept of a request is still there when the node answers, and is listed
\* from then on.
KeptListed(q) == q.positions # {} => \A a \in KeptDeposits(q) : Lists(q, a)

ApiInv ==
    /\ ledger \subseteq Accounts
    /\ requests \in [Requests -> ApiRequest]
    /\ \A r \in Requests :
          /\ requests[r].step = "positions" => requests[r].kept \subseteq ledger
          /\ KeptListed(requests[r])

LEMMA WriteKeepsListed ==
    ASSUME NEW account \in Accounts, ApiInv, Write(account)
    PROVE  ApiInv'
<1>1. account \in Accounts
  OBVIOUS
<1>2. ledger' \subseteq Accounts
  BY <1>1 DEF ApiInv, Write, Others
<1>3. ASSUME NEW r \in Requests
      PROVE  /\ requests'[r] \in ApiRequest
             /\ requests'[r].step = "positions"
                   => requests'[r].kept \subseteq ledger'
             /\ KeptListed(requests'[r])
  <2> DEFINE q == requests[r]
  <2>1. /\ q \in ApiRequest
        /\ q.step = "positions" => q.kept \subseteq ledger
        /\ KeptListed(q)
    BY DEF ApiInv
  <2>2. requests'[r] = [q EXCEPT !.kept = Others(q.kept, account)]
    BY DEF Write
  <2> DEFINE n == requests'[r]
  <2>3. /\ n \in ApiRequest
        /\ n.step = q.step /\ n.user = q.user /\ n.positions = q.positions
        /\ n.kept = Others(q.kept, account)
    BY <2>1, <2>2 DEF ApiRequest, Others
  <2> HIDE DEF q, n
  <2>4. n.step = "positions" => n.kept \subseteq ledger'
    BY <2>1, <2>3 DEF Write, Others
  <2>5. KeptDeposits(n) \subseteq KeptDeposits(q)
    BY <2>3 DEF KeptDeposits, Others
  <2>6. KeptListed(n)
    BY <2>1, <2>3, <2>5 DEF KeptListed, Lists
  <2> QED
    BY <2>3, <2>4, <2>6 DEF n
<1>4. requests' \in [Requests -> ApiRequest]
  BY <1>3 DEF Write
<1> QED
  BY <1>2, <1>3, <1>4 DEF ApiInv

LEMMA RequestKeepsListed ==
    ASSUME NEW r \in Requests, ApiInv,
           \/ \E u \in Users : getPortfolio(r, u)
           \/ PositionsFetched(r)
           \/ RatesFetched(r)
    PROVE  ApiInv'
<1> DEFINE q == requests[r]
<1>1. /\ q \in ApiRequest
      /\ q.step = "positions" => q.kept \subseteq ledger
      /\ KeptListed(q)
      /\ ledger \subseteq Accounts
  BY DEF ApiInv
<1> SUFFICES ASSUME NEW n, requests' = [requests EXCEPT ![r] = n],
                    ledger' = ledger,
                    \/ \E u \in Users :
                          n = [step |-> "positions", user |-> u,
                               positions |-> {}, kept |-> ledger]
                    \/ /\ q.step = "positions"
                       /\ \E positions \in fetchPositions(ledger, q.user) :
                             n = [q EXCEPT !.step = "rates",
                                           !.positions = positions]
                    \/ \E step \in {"answered", "failed"} :
                          q.step = "rates" /\ n = [q EXCEPT !.step = step]
             PROVE  ApiInv'
  BY DEF getPortfolio, PositionsFetched, RatesFetched
<1> HIDE DEF q
<1>2. /\ n \in ApiRequest
      /\ n.step = "positions" => n.kept \subseteq ledger
      /\ KeptListed(n)
  <2>1. CASE \E u \in Users : n = [step |-> "positions", user |-> u,
                                   positions |-> {}, kept |-> ledger]
    <3>1. PICK u \in Users : n = [step |-> "positions", user |-> u,
                                  positions |-> {}, kept |-> ledger]
      BY <2>1
    <3>2. {} \in SUBSET Answers /\ ledger \in SUBSET Accounts
      BY <1>1
    <3>3. n \in ApiRequest
      BY <3>1, <3>2 DEF ApiRequest
    <3> QED
      BY <3>1, <3>3 DEF KeptListed
  <2>2. CASE /\ q.step = "positions"
             /\ \E positions \in fetchPositions(ledger, q.user) :
                   n = [q EXCEPT !.step = "rates", !.positions = positions]
    <3>1. PICK positions \in fetchPositions(ledger, q.user) :
                 n = [q EXCEPT !.step = "rates", !.positions = positions]
      BY <2>2
    <3>2. positions \in SUBSET Answers
      BY <1>1 DEF fetchPositions, PositionsOf, Answers
    <3>3. /\ n \in ApiRequest
          /\ n.step = "rates" /\ n.user = q.user /\ n.positions = positions
          /\ n.kept = q.kept
      BY <1>1, <3>1, <3>2 DEF ApiRequest
    <3>4. ASSUME positions # {}, NEW a \in KeptDeposits(n)
          PROVE  Lists(n, a)
      <4>1. /\ a \in ledger /\ a \in Accounts
            /\ a.type = "userCollateralAccount" /\ a.fields.owner = q.user
        BY <1>1, <2>2, <3>3, <3>4 DEF KeptDeposits
      <4>2. positions = PositionsOf(ledger, q.user)
        BY <3>1, <3>4 DEF fetchPositions
      <4>3. \E p \in PositionsOf(ledger, a.fields.owner) :
               p.market = a.fields.assetMint /\ p.deposited = a.fields.shares
        BY <4>1, DepositDecoded
      <4> QED
        BY <3>3, <4>1, <4>2, <4>3 DEF Lists
    <3> QED
      BY <3>3, <3>4 DEF KeptListed
  <2>3. CASE \E step \in {"answered", "failed"} :
                q.step = "rates" /\ n = [q EXCEPT !.step = step]
    <3>1. /\ n \in ApiRequest /\ n.step # "positions"
          /\ n.user = q.user /\ n.positions = q.positions /\ n.kept = q.kept
      BY <1>1, <2>3 DEF ApiRequest
    <3> QED
      BY <1>1, <3>1 DEF KeptListed, KeptDeposits, Lists
  <2> QED
    BY <2>1, <2>2, <2>3
<1> QED
  BY <1>1, <1>2 DEF ApiInv

\* THEOREM: a portfolio that is answered lists every deposit that stood while it
\* was computed, or is empty, whatever accounts the program has and writes.
THEOREM AnswersAlwaysComplete == ApiSpec => []AnswersAreComplete
<1>1. ApiInit => ApiInv
  BY DEF ApiInit, ApiInv, NoRequest, ApiRequest, KeptListed
<1>2. ApiInv /\ [ApiNext]_apiVars => ApiInv'
  <2> SUFFICES ASSUME ApiInv, [ApiNext]_apiVars
               PROVE  ApiInv'
    OBVIOUS
  <2>1. ASSUME NEW a \in Accounts, Write(a)
        PROVE  ApiInv'
    BY <2>1, WriteKeepsListed
  <2>2. ASSUME NEW r \in Requests,
               \/ \E u \in Users : getPortfolio(r, u)
               \/ PositionsFetched(r)
               \/ RatesFetched(r)
        PROVE  ApiInv'
    BY <2>2, RequestKeepsListed
  <2>3. CASE UNCHANGED apiVars
    BY <2>3 DEF apiVars, ApiInv
  <2> QED
    BY <2>1, <2>2, <2>3 DEF ApiNext
<1>3. ApiInv => AnswersAreComplete
  BY DEF ApiInv, AnswersAreComplete, KeptListed
<1> QED
  BY <1>1, <1>2, <1>3, PTL DEF ApiSpec

\* The mints of which somebody has a position.
PositionMints ==
    {a.fields.assetMint :
        a \in {b \in Chain : b.type = "userCollateralAccount"}}
    \cup
    {a.fields.borrowMint : a \in {b \in Chain : b.type = "borrowPosition"}}

\* The filters by size let positions through and nothing else.
LEMMA FetchedArePositions ==
    ASSUME NEW a \in Fetched
    PROVE  tryDecodePosition(a).market \in PositionMints
<1>1. a \in Accounts /\ Size(a.type) \in {97, 105}
  BY ChainAssumption DEF Fetched
<1>2. a.type # "userAccount" /\ a.type # "vaultAccount"
      /\ a.type # "protocolState" /\ a.type # "priceFeed"
      /\ a.type # "treasuryAccount"
  BY <1>1, SummarySize, VaultSize, StateSize, FeedSize, TreasurySize
<1>3. CASE \E u \in Users, m \in Mints, s \in Shares : a = Collateral(u, m, s)
  <2>1. PICK u \in Users, m \in Mints, s \in Shares : a = Collateral(u, m, s)
    BY <1>3
  <2>2. a.type = "userCollateralAccount" /\ a.fields.assetMint = m
    BY <2>1 DEF Collateral, Account
  <2>3. tryDecodePosition(a).market = m
    BY <2>1, CollateralDecoded
  <2> QED
    BY <2>2, <2>3 DEF PositionMints, Fetched
<1>4. CASE \E u \in Users, m \in Mints, s \in Shares : a = Loan(u, m, s)
  <2>1. PICK u \in Users, m \in Mints, s \in Shares : a = Loan(u, m, s)
    BY <1>4
  <2>2. a.type = "borrowPosition" /\ a.fields.borrowMint = m
    BY <2>1 DEF Loan, Account
  <2>3. tryDecodePosition(a).market = m
    BY <2>1, LoanDecoded
  <2> QED
    BY <2>2, <2>3 DEF PositionMints, Fetched
<1> QED
  BY <1>1, <1>2, <1>3, <1>4
     DEF Accounts, Summary, VaultData, State, FeedData, TreasuryData, Account

\* What holds a warning is the mint of somebody's position.
WarningsOk ==
    /\ warnings \in [Markets -> {"none", "critical", "liquidatable"}]
    /\ \A m \in Markets : warnings[m] = "liquidatable" => m \in PositionMints

\* THEOREM: what the route of pending liquidations reports is always the mint
\* of somebody's position, however polls, liquidations and restarts follow.
THEOREM PendingAlwaysPositions == BackendSpec => []PendingArePositions
<1>1. BackendInit => WarningsOk
  BY DEF BackendInit, MonitorInit, WarningsOk
<1>2. WarningsOk /\ [BackendNext]_backendVars => WarningsOk'
  <2> SUFFICES ASSUME WarningsOk, [BackendNext]_backendVars
               PROVE  WarningsOk'
    OBVIOUS
  <2>1. CASE UNCHANGED warnings
    BY <2>1 DEF WarningsOk
  <2>2. CASE PollAnswered
    <3>1. warnings' \in [Markets -> {"none", "critical", "liquidatable"}]
      BY <2>2 DEF PollAnswered
    <3>2. ASSUME NEW m \in Markets, warnings'[m] = "liquidatable"
          PROVE  m \in PositionMints
      <4>1. CASE Positions[m] = {}
        BY <2>2, <3>2, <4>1 DEF PollAnswered, WarningsOk
      <4>2. CASE Positions[m] # {}
        <5>1. PICK a \in Positions[m] : TRUE
          BY <4>2
        <5>2. a \in Fetched /\ Decoded[a].market = m
          BY <5>1 DEF Positions
        <5> QED
          BY <5>2, FetchedArePositions DEF Decoded
      <4> QED
        BY <4>1, <4>2
    <3> QED
      BY <3>1, <3>2 DEF WarningsOk
  <2>3. CASE \E m \in Markets : Executed(m)
    <3>1. PICK m \in Markets : Executed(m)
      BY <2>3
    <3>2. \A n \in Markets : warnings'[n] \in {"none", warnings[n]}
      BY <3>1 DEF Executed, WarningsOk
    <3>3. warnings' \in [Markets -> {"none", "critical", "liquidatable"}]
      BY <3>1, <3>2 DEF Executed, WarningsOk
    <3> QED
      BY <3>2, <3>3 DEF WarningsOk
  <2>4. CASE Exit
    BY <2>4 DEF Exit, EndMonitor, WarningsOk
  <2>5. CASE UNCHANGED backendVars
    BY <2>5 DEF backendVars, monitorVars, WarningsOk
  <2> QED
    BY <2>1, <2>2, <2>3, <2>4, <2>5
       DEF BackendNext, Launch, Start, Crash, Signal, Removed, IndexerStep,
           MonitorStep, Poll, PollFails, monitorVars
<1>3. WarningsOk => PendingArePositions
  BY DEF WarningsOk, PendingArePositions, getPendingLiquidations, PositionMints
<1> QED
  BY <1>1, <1>2, <1>3, PTL DEF BackendSpec

-----------------------------------------------------------------------------
(***************************************************************************)
(* The indexer.                                                            *)
(***************************************************************************)

\* Line i of a transaction is the last of its events with that key.
IsLast(s, i) ==
    i \in Parsed[s] /\ \A j \in Parsed[s] : j > i => Id(s, j) # Id(s, i)

\* A call is under way that has still to save line i.
OnItsWay(s, i) ==
    \E h \in Handlers :
        /\ Saving(h)
        /\ handling[h].signature = s
        /\ handling[h].at <= i

\* A call is at an event of a transaction.
CallsAreAtEvents ==
    /\ handling \in [Handlers -> [signature : Signatures \cup {0}, at : Nat]]
    /\ \A h \in Handlers :
          Saving(h) => /\ handling[h].signature \in Signatures
                       /\ handling[h].at \in Parsed[handling[h].signature]

\* Where a key has a row that is not the last of its events, some call has still
\* to save that last one.
LastIsComing ==
    \A s \in Signatures : \A i \in Parsed[s] :
        (IsLast(s, i) /\ Id(s, i) \in Stored \ lost) =>
            Row(s, i) \in events \/ OnItsWay(s, i)

\* The inductive invariant of the indexer.
IndexerInvariant == CallsAreAtEvents /\ CountedIsStored /\ LastIsComing

\* Lines are numbered, so that an event has a place after another or before.
LEMMA LinesAreNumbers == ASSUME NEW s \in Signatures PROVE Parsed[s] \subseteq Nat \ {0}
<1>1. Len(Logs[s]) \in Nat
  BY LogsAssumption
<1> QED
  BY <1>1 DEF Parsed

\* Two lines with one key are lines of one transaction, and a row belongs to one
\* key.
LEMMA KeysAreOfTransactions ==
    ASSUME NEW s, NEW i, NEW r, NEW j, Id(s, i) = Id(r, j)
    PROVE  s = r
BY DEF Id

\* Where a call goes on to: to the next event, which is not beyond any other that
\* is left, or to none.
LEMMA WhereItGoesOn ==
    ASSUME NEW h \in Handlers, NEW s \in Signatures, NEW i \in Nat,
           handling \in [Handlers -> [signature : Signatures \cup {0}, at : Nat]],
           Continue(h, s, i)
    PROVE  /\ handling' \in [Handlers -> [signature : Signatures \cup {0},
                                          at : Nat]]
           /\ \A g \in Handlers : g # h => handling'[g] = handling[g]
           /\ \/ /\ handling'[h].signature = s
                 /\ handling'[h].at \in Parsed[s]
                 /\ handling'[h].at > i
                 /\ \A k \in Parsed[s] : k > i => handling'[h].at <= k
                 /\ counted' = counted \cup {Id(s, handling'[h].at)}
              \/ /\ handling'[h].at = 0
                 /\ \A k \in Parsed[s] : ~(k > i)
                 /\ counted' = counted
<1> DEFINE rest == {j \in Parsed[s] : j > i}
<1>1. CASE rest = {}
  <2>1. /\ handling' = [handling EXCEPT ![h] = [signature |-> 0, at |-> 0]]
        /\ counted' = counted
    BY <1>1 DEF Continue
  <2> QED
    BY <1>1, <2>1
<1>2. CASE rest # {}
  <2>1. PICK j \in rest :
            /\ \A k \in rest : j <= k
            /\ handling' = [handling EXCEPT ![h] = [signature |-> s, at |-> j]]
            /\ counted' = counted \cup {Id(s, j)}
    BY <1>2 DEF Continue
  <2>2. j \in Nat
    BY LinesAreNumbers
  <2>3. handling'[h].signature = s /\ handling'[h].at = j
    BY <2>1
  <2>4. handling' \in [Handlers -> [signature : Signatures \cup {0}, at : Nat]]
    BY <2>1, <2>2
  <2>5. \A g \in Handlers : g # h => handling'[g] = handling[g]
    BY <2>1
  <2> QED
    BY <2>1, <2>3, <2>4, <2>5
<1> QED
  BY <1>1, <1>2

LEMMA HandleLogsKeeps ==
    ASSUME NEW h \in Handlers, NEW s \in Signatures,
           CallsAreAtEvents, CountedIsStored, LastIsComing, HandleLogs(h, s)
    PROVE  CallsAreAtEvents' /\ CountedIsStored' /\ LastIsComing'
<1>1. /\ handling' \in [Handlers -> [signature : Signatures \cup {0}, at : Nat]]
      /\ \A g \in Handlers : g # h => handling'[g] = handling[g]
      /\ \/ /\ handling'[h].signature = s
            /\ handling'[h].at \in Parsed[s]
            /\ counted' = counted \cup {Id(s, handling'[h].at)}
         \/ /\ handling'[h].at = 0
            /\ counted' = counted
  BY WhereItGoesOn DEF HandleLogs, CallsAreAtEvents
<1>2. ~Saving(h) /\ UNCHANGED <<events, lost>>
  BY DEF HandleLogs
<1>3. CallsAreAtEvents'
  BY <1>1 DEF CallsAreAtEvents, Saving
<1>4. \A g \in Handlers : Saving(g) => Saving(g)' /\ handling'[g] = handling[g]
  BY <1>1, <1>2 DEF Saving
<1>5. CountedIsStored'
  <2>1. CASE counted' = counted
    BY <1>2, <1>4, <2>1 DEF CountedIsStored, Stored, CurrentId
  <2>2. CASE /\ handling'[h].signature = s
             /\ handling'[h].at \in Parsed[s]
             /\ counted' = counted \cup {Id(s, handling'[h].at)}
    <3>1. Saving(h)' /\ CurrentId(h)' = Id(s, handling'[h].at)
      BY <2>2, LinesAreNumbers DEF Saving, CurrentId
    <3>2. \A g \in Handlers : Saving(g) => CurrentId(g)' = CurrentId(g)
      BY <1>4 DEF CurrentId
    <3> QED
      BY <1>2, <1>4, <2>2, <3>1, <3>2 DEF CountedIsStored, Stored
  <2> QED
    BY <1>1, <2>1, <2>2
<1>6. LastIsComing'
  BY <1>2, <1>4 DEF LastIsComing, IsLast, Stored, OnItsWay
<1> QED
  BY <1>3, <1>5, <1>6

LEMMA PersistKeeps ==
    ASSUME NEW h \in Handlers,
           CallsAreAtEvents, CountedIsStored, LastIsComing, Persist(h)
    PROVE  CallsAreAtEvents' /\ CountedIsStored' /\ LastIsComing'
<1> DEFINE s == handling[h].signature
           a == handling[h].at
<1>1. Saving(h) /\ s \in Signatures /\ a \in Parsed[s] /\ a \in Nat
  BY DEF CallsAreAtEvents, Persist
<1>2. /\ handling' \in [Handlers -> [signature : Signatures \cup {0}, at : Nat]]
      /\ \A g \in Handlers : g # h => handling'[g] = handling[g]
      /\ \/ /\ handling'[h].signature = s
            /\ handling'[h].at \in Parsed[s]
            /\ handling'[h].at > a
            /\ \A k \in Parsed[s] : k > a => handling'[h].at <= k
            /\ counted' = counted \cup {Id(s, handling'[h].at)}
         \/ /\ handling'[h].at = 0
            /\ \A k \in Parsed[s] : ~(k > a)
            /\ counted' = counted
  BY <1>1, WhereItGoesOn DEF Persist, CallsAreAtEvents
<1>3. \/ /\ events' = {r \in events : r.id # Id(s, a)} \cup {Row(s, a)}
         /\ lost' = lost
      \/ /\ lost' = lost \cup {Id(s, a)}
         /\ events' = events
  BY DEF Persist, Upsert, Row, CurrentId
<1>4. CallsAreAtEvents'
  <2> SUFFICES ASSUME NEW g \in Handlers, handling'[g].at > 0
               PROVE  /\ handling'[g].signature \in Signatures
                      /\ handling'[g].at \in Parsed[handling'[g].signature]
    BY <1>2 DEF CallsAreAtEvents, Saving
  <2>1. CASE g = h
    BY <1>1, <1>2, <2>1
  <2>2. CASE g # h
    BY <1>2, <2>2 DEF CallsAreAtEvents, Saving
  <2> QED
    BY <2>1, <2>2
<1>5. Row(s, a).id = Id(s, a) /\ CurrentId(h) = Id(s, a)
  BY DEF Row, CurrentId
<1>6. /\ Stored \cup lost \cup {Id(s, a)} = Stored' \cup lost'
      /\ Stored' \ lost' \subseteq (Stored \ lost) \cup {Id(s, a)}
  BY <1>3, <1>5 DEF Stored
<1>7. \A g \in Handlers : g # h => /\ Saving(g)' = Saving(g)
                                   /\ CurrentId(g)' = CurrentId(g)
  BY <1>2 DEF Saving, CurrentId
<1>8. CountedIsStored'
  <2>1. CASE counted' = counted
    BY <1>5, <1>6, <1>7, <2>1 DEF CountedIsStored
  <2>2. CASE /\ handling'[h].signature = s
             /\ handling'[h].at \in Parsed[s]
             /\ counted' = counted \cup {Id(s, handling'[h].at)}
    <3>1. Saving(h)' /\ CurrentId(h)' = Id(s, handling'[h].at)
      BY <1>1, <2>2, LinesAreNumbers DEF Saving, CurrentId
    <3> QED
      BY <1>5, <1>6, <1>7, <2>2, <3>1 DEF CountedIsStored
  <2> QED
    BY <1>2, <2>1, <2>2
<1>9. LastIsComing'
  <2> SUFFICES ASSUME NEW r \in Signatures, NEW i \in Parsed[r],
                      IsLast(r, i), Id(r, i) \in Stored' \ lost'
               PROVE  Row(r, i) \in events' \/ OnItsWay(r, i)'
    BY DEF LastIsComing, IsLast
  <2>1. i \in Nat
    BY LinesAreNumbers
  <2>2. CASE r = s /\ a < i
    <3>1. /\ handling'[h].signature = s /\ handling'[h].at \in Parsed[s]
          /\ handling'[h].at > a /\ handling'[h].at <= i
      BY <1>1, <1>2, <2>1, <2>2
    <3>2. Saving(h)'
      BY <1>1, <3>1, LinesAreNumbers DEF Saving
    <3> QED
      BY <2>2, <3>1, <3>2 DEF OnItsWay
  <2>3. CASE r = s /\ a = i
    BY <1>3, <2>3
  <2>4. CASE r # s \/ i < a
    <3>1. Id(r, i) # Id(s, a)
      BY <1>1, <2>4, KeysAreOfTransactions DEF IsLast
    <3>2. Id(r, i) \in Stored \ lost
      BY <1>6, <3>1
    <3>3. Row(r, i) \in events \/ OnItsWay(r, i)
      BY <3>2 DEF LastIsComing
    <3>4. Row(r, i) \in events => Row(r, i) \in events'
      BY <1>3, <3>1 DEF Row
    <3>5. OnItsWay(r, i) => OnItsWay(r, i)'
      <4>1. SUFFICES ASSUME OnItsWay(r, i) PROVE OnItsWay(r, i)'
        OBVIOUS
      <4>2. PICK g \in Handlers : /\ Saving(g) /\ handling[g].signature = r
                                  /\ handling[g].at <= i
        BY <4>1 DEF OnItsWay
      <4>3. g # h
        BY <1>1, <2>1, <2>4, <4>2
      <4> QED
        BY <1>2, <1>7, <4>2, <4>3 DEF OnItsWay
    <3> QED
      BY <3>3, <3>4, <3>5
  <2> QED
    BY <1>1, <2>1, <2>2, <2>3, <2>4
<1> QED
  BY <1>4, <1>8, <1>9

LEMMA EndIndexerKeeps ==
    ASSUME CallsAreAtEvents, CountedIsStored, LastIsComing, EndIndexer
    PROVE  CallsAreAtEvents' /\ CountedIsStored' /\ LastIsComing'
<1>1. /\ handling' = [h \in Handlers |-> [signature |-> 0, at |-> 0]]
      /\ lost' = lost \cup UNION {Unsaved(h) : h \in {g \in Handlers : Saving(g)}}
      /\ UNCHANGED <<events, counted>>
  BY DEF EndIndexer
<1>2. CallsAreAtEvents'
  BY <1>1 DEF CallsAreAtEvents, Saving
<1>3. \A h \in Handlers : Saving(h) => CurrentId(h) \in Unsaved(h)
  BY DEF CallsAreAtEvents, CurrentId, Unsaved
<1>4. \A h \in Handlers : Saving(h) => Unsaved(h) \subseteq lost'
  BY <1>1
<1>5. CountedIsStored'
  BY <1>1, <1>3, <1>4 DEF CountedIsStored, Stored
<1>6. LastIsComing'
  <2> SUFFICES ASSUME NEW s \in Signatures, NEW i \in Parsed[s],
                      IsLast(s, i), Id(s, i) \in Stored \ lost'
               PROVE  Row(s, i) \in events
    BY <1>1 DEF LastIsComing, IsLast, Stored
  <2>1. ASSUME NEW h \in Handlers, Saving(h), handling[h].signature = s,
               handling[h].at <= i
        PROVE  FALSE
    <3>1. Id(s, i) \in Unsaved(h)
      BY <2>1 DEF Unsaved
    <3> QED
      BY <1>4, <2>1, <3>1
  <2>2. ~OnItsWay(s, i)
    BY <2>1 DEF OnItsWay
  <2> QED
    BY <1>1, <2>2 DEF LastIsComing
<1> QED
  BY <1>2, <1>5, <1>6

LEMMA IndexerInvariantHolds == BackendSpec => []IndexerInvariant
<1>1. BackendInit => IndexerInvariant
  BY DEF BackendInit, IndexerInit, IndexerInvariant, CallsAreAtEvents, Saving,
         CountedIsStored, LastIsComing, Stored
<1>2. IndexerInvariant /\ [BackendNext]_backendVars => IndexerInvariant'
  <2> SUFFICES ASSUME IndexerInvariant, [BackendNext]_backendVars
               PROVE  IndexerInvariant'
    OBVIOUS
  <2>1. CASE UNCHANGED <<handling, events, counted, lost>>
    BY <2>1 DEF IndexerInvariant, CallsAreAtEvents, Saving, CountedIsStored,
                LastIsComing, Stored, OnItsWay, CurrentId
  <2>2. CASE \E h \in Handlers, s \in Signatures : HandleLogs(h, s)
    BY <2>2, HandleLogsKeeps DEF IndexerInvariant
  <2>3. CASE \E h \in Handlers : Persist(h)
    BY <2>3, PersistKeeps DEF IndexerInvariant
  <2>4. CASE EndIndexer
    BY <2>4, EndIndexerKeeps DEF IndexerInvariant
  <2> QED
    BY <2>1, <2>2, <2>3, <2>4
       DEF BackendNext, Launch, Start, Crash, Signal, Removed, Exit,
           IndexerStep, MonitorStep, Land, backendVars, indexerVars
<1> QED
  BY <1>1, <1>2, PTL DEF BackendSpec

\* THEOREM: an event that was counted is in the table, on its way there, or
\* among those that failed to be saved, however many calls interleave.
THEOREM CountedAlwaysStored == BackendSpec => []CountedIsStored
BY IndexerInvariantHolds, PTL DEF IndexerInvariant

\* THEOREM: when nothing is under way, the row of a key holds the last event of
\* that key, however calls, repeated notifications and restarts interleave.
THEOREM LastEventAlwaysWins == BackendSpec => []LastEventWins
<1>1. IndexerInvariant => LastEventWins
  BY DEF IndexerInvariant, LastIsComing, LastEventWins, IsLast, OnItsWay
<1> QED
  BY <1>1, IndexerInvariantHolds, PTL

-----------------------------------------------------------------------------
(***************************************************************************)
(* The service of exchange rates.                                          *)
(***************************************************************************)

\* The longest a caller may have waited before it asks a source.
Budget(url) ==
    IF url = 0 THEN 0 ELSE OracleTimeout + (url - 1) * FallbackTimeout

Entries == [age : 0..Old, data : 0..Old, whole : BOOLEAN]

\* No request waits longer than its timeout.
WaitsAreBounded ==
    \A c \in Calls : Waiting(c) => call[c].waited <= Timeout(call[c].url)

\* The data of an entry is older than the entry by at most one wait.
EntryIsRecent == cache # None => cache.data <= cache.age + OracleTimeout

\* An entry that is there while a caller waits was written in the caller's time:
\* else the call would have found it fresh or have deleted it.
EntryIsOfTheWait ==
    \A c \in Calls :
        (Waiting(c) /\ cache # None) =>
            cache.age <= Budget(call[c].url) + call[c].waited

\* What a caller has heard of while it waits is in the cache.
HeardIsCached == \A c \in Calls : (Waiting(c) /\ c \in heard) => cache # None

\* The inductive invariant.
FxInvariant ==
    /\ FxTypeOK
    /\ WaitsAreBounded
    /\ EntryIsRecent
    /\ EntryIsOfTheWait
    /\ HeardIsCached
    /\ AnswersAreRecent
    /\ FailsOnlyIfNobodyAnswered

LEMMA NoneIsNoEntry == ASSUME NEW e \in Entries PROVE e # None
BY DEF Entries, None

LEMMA Timeouts ==
    ASSUME NEW url \in 0..Urls
    PROVE  /\ Timeout(url) \in Nat /\ Timeout(url) <= OracleTimeout
           /\ Budget(url) \in Nat
           /\ Budget(url) + Timeout(url) <= TTL
           /\ url < Urls => Budget(url) + Timeout(url) <= Budget(url + 1)
<1>1. /\ Urls \in Nat /\ OracleTimeout \in Nat /\ FallbackTimeout \in Nat
      /\ TTL \in Nat /\ FallbackTimeout <= OracleTimeout
      /\ OracleTimeout + Urls * FallbackTimeout <= TTL
  BY UrlsAssumption, TimesAssumption
<1>2. /\ Urls * FallbackTimeout \in Nat
      /\ url * FallbackTimeout \in Nat
      /\ url * FallbackTimeout <= Urls * FallbackTimeout
  BY <1>1
<1>3. CASE url = 0
  <2>1. Timeout(url) = OracleTimeout /\ Budget(url) = 0
    BY <1>3 DEF Timeout, Budget
  <2>2. Budget(url + 1) = OracleTimeout
    BY <1>1, <1>3 DEF Budget
  <2> QED
    BY <1>1, <1>2, <2>1, <2>2
<1>4. CASE url # 0
  <2>1. /\ Timeout(url) = FallbackTimeout
        /\ Budget(url) = OracleTimeout + (url - 1) * FallbackTimeout
    BY <1>4 DEF Timeout, Budget
  <2>2. Budget(url + 1) = OracleTimeout + url * FallbackTimeout
    BY <1>1, <1>4 DEF Budget
  <2>3. /\ (url - 1) * FallbackTimeout \in Nat
        /\ (url - 1) * FallbackTimeout + FallbackTimeout = url * FallbackTimeout
    BY <1>1, <1>4
  <2> QED
    BY <1>1, <1>2, <2>1, <2>2, <2>3
<1> QED
  BY <1>3, <1>4

LEMMA OlderAges ==
    ASSUME NEW age \in 0..Old
    PROVE  Older(age) \in 0..Old /\ Older(age) >= age /\ Older(age) <= age + 1
BY OldAssumption DEF Older

\* A caller that goes somewhere leaves the others where they are.
LEMMA GotoMovesOne ==
    ASSUME FxTypeOK, NEW c \in Calls, NEW place \in Places,
           NEW url \in 0..Urls, Goto(c, place, url)
    PROVE  /\ call' \in [Calls -> [at : Places, url : 0..Urls, waited : Nat]]
           /\ call'[c] = [at |-> place, url |-> url, waited |-> 0]
           /\ \A d \in Calls : d # c => call'[d] = call[d]
BY DEF Goto, FxTypeOK

LEMMA ReplyMovesOne ==
    ASSUME FxTypeOK, NEW c \in Calls, NEW data \in 0..Old, NEW whole,
           Reply(c, data, whole)
    PROVE  /\ call' \in [Calls -> [at : Places, url : 0..Urls, waited : Nat]]
           /\ call'[c].at \in {"done", "refused"}
           /\ \A d \in Calls : d # c => call'[d] = call[d]
           /\ answer' \in [Calls -> 0..Old]
           /\ answer'[c] = data
           /\ \A d \in Calls : d # c => answer'[d] = answer[d]
<1>1. PICK place \in {"done", "refused"} : Goto(c, place, 0)
  BY DEF Reply
<1>2. place \in Places /\ 0 \in 0..Urls
  BY UrlsAssumption DEF Places
<1>3. answer' = [answer EXCEPT ![c] = data] /\ answer \in [Calls -> 0..Old]
  BY DEF Reply, FxTypeOK
<1>4. /\ call' \in [Calls -> [at : Places, url : 0..Urls, waited : Nat]]
      /\ call'[c] = [at |-> place, url |-> 0, waited |-> 0]
      /\ \A d \in Calls : d # c => call'[d] = call[d]
  BY <1>1, <1>2, GotoMovesOne
<1>5. /\ answer' \in [Calls -> 0..Old]
      /\ answer'[c] = data
      /\ \A d \in Calls : d # c => answer'[d] = answer[d]
  BY <1>3
<1> QED
  BY <1>4, <1>5

\* While a caller waits the entry is fresh.
LEMMA EntryOfTheWaitIsFresh ==
    ASSUME FxInvariant, NEW c \in Calls, Waiting(c), cache # None
    PROVE  Fresh /\ cache.data <= TTL + OracleTimeout
<1>1. /\ cache \in Entries
      /\ call[c].url \in 0..Urls /\ call[c].waited \in Nat
      /\ call[c].waited <= Timeout(call[c].url)
      /\ cache.age <= Budget(call[c].url) + call[c].waited
      /\ cache.data <= cache.age + OracleTimeout
  BY DEF FxInvariant, FxTypeOK, Entries, WaitsAreBounded, EntryIsRecent,
         EntryIsOfTheWait
<1>2. cache.age \in Nat /\ cache.data \in Nat
  BY <1>1, OldAssumption DEF Entries
<1> QED
  BY <1>1, <1>2, Timeouts, TimesAssumption DEF Fresh

LEMMA CallFromCacheKeeps ==
    ASSUME FxInvariant, NEW c \in Calls, CallFromCache(c)
    PROVE  FxInvariant'
<1>1. /\ Fresh /\ cache \in Entries /\ cache.data \in 0..Old
      /\ Reply(c, cache.data, cache.whole)
      /\ heard' = heard \ {c} /\ cache' = cache /\ known' = known
      /\ FxTypeOK
  BY DEF CallFromCache, FxInvariant, FxTypeOK, Fresh, Entries
<1>2. /\ call' \in [Calls -> [at : Places, url : 0..Urls, waited : Nat]]
      /\ call'[c].at \in {"done", "refused"}
      /\ \A d \in Calls : d # c => call'[d] = call[d]
      /\ answer' \in [Calls -> 0..Old]
      /\ answer'[c] = cache.data
      /\ \A d \in Calls : d # c => answer'[d] = answer[d]
  BY <1>1, ReplyMovesOne
<1>3. FxTypeOK'
  BY <1>1, <1>2 DEF FxTypeOK
<1>4. cache.data <= TTL + OracleTimeout
  BY <1>1, OldAssumption, TimesAssumption
     DEF Fresh, FxInvariant, EntryIsRecent, Entries
<1>5. ~Waiting(c)'
  BY <1>2 DEF Waiting
<1>6. \A d \in Calls : Waiting(d)' => d # c /\ Waiting(d) /\ call'[d] = call[d]
  BY <1>2, <1>5 DEF Waiting
<1>7. WaitsAreBounded' /\ EntryIsRecent' /\ EntryIsOfTheWait' /\ HeardIsCached'
  BY <1>1, <1>6 DEF FxInvariant, WaitsAreBounded, EntryIsRecent,
                    EntryIsOfTheWait, HeardIsCached
<1>8. AnswersAreRecent'
  BY <1>2, <1>4 DEF FxInvariant, AnswersAreRecent
<1>9. FailsOnlyIfNobodyAnswered'
  BY <1>1, <1>2 DEF FxInvariant, FailsOnlyIfNobodyAnswered
<1> QED
  BY <1>3, <1>7, <1>8, <1>9 DEF FxInvariant

LEMMA CallOracleKeeps ==
    ASSUME FxInvariant, NEW c \in Calls, CallOracle(c)
    PROVE  FxInvariant'
<1>1. /\ ~Fresh /\ cache' = None /\ Goto(c, "waiting", 0)
      /\ heard' = heard \ {c} /\ answer' = answer /\ known' = known
      /\ FxTypeOK
  BY DEF CallOracle, FxInvariant
<1>2. "waiting" \in Places /\ 0 \in 0..Urls
  BY UrlsAssumption DEF Places
<1>3. /\ call' \in [Calls -> [at : Places, url : 0..Urls, waited : Nat]]
      /\ call'[c] = [at |-> "waiting", url |-> 0, waited |-> 0]
      /\ \A d \in Calls : d # c => call'[d] = call[d]
  BY <1>1, <1>2, GotoMovesOne
<1>4. FxTypeOK'
  BY <1>1, <1>3 DEF FxTypeOK
<1>5. WaitsAreBounded'
  BY <1>3, TimesAssumption DEF FxInvariant, WaitsAreBounded, Waiting, Timeout
<1>6. EntryIsRecent' /\ EntryIsOfTheWait'
  BY <1>1 DEF EntryIsRecent, EntryIsOfTheWait
<1>7. HeardIsCached'
  <2>1. ASSUME NEW d \in Calls, Waiting(d)', d \in heard'
        PROVE  FALSE
    <3>1. d # c /\ Waiting(d) /\ d \in heard
      BY <1>1, <1>3, <2>1 DEF Waiting
    <3>2. cache # None
      BY <3>1 DEF FxInvariant, HeardIsCached
    <3> QED
      BY <1>1, <3>1, <3>2, EntryOfTheWaitIsFresh
  <2> QED
    BY <2>1 DEF HeardIsCached
<1>8. AnswersAreRecent' /\ FailsOnlyIfNobodyAnswered'
  BY <1>1, <1>3 DEF FxInvariant, AnswersAreRecent, FailsOnlyIfNobodyAnswered
<1> QED
  BY <1>4, <1>5, <1>6, <1>7, <1>8 DEF FxInvariant

LEMMA AnswerKeeps ==
    ASSUME FxInvariant, NEW c \in Calls, NEW data \in 0..Old,
           NEW whole \in BOOLEAN, Answer(c, data, whole)
    PROVE  FxInvariant'
<1>1. /\ Waiting(c) /\ data <= call[c].waited
      /\ cache' = [age |-> 0, data |-> data, whole |-> whole]
      /\ Reply(c, data, whole)
      /\ heard' = heard \cup {d \in Calls : Waiting(d)} /\ known' = TRUE
      /\ FxTypeOK
  BY DEF Answer, FxInvariant
<1>2. /\ call' \in [Calls -> [at : Places, url : 0..Urls, waited : Nat]]
      /\ call'[c].at \in {"done", "refused"}
      /\ \A d \in Calls : d # c => call'[d] = call[d]
      /\ answer' \in [Calls -> 0..Old]
      /\ answer'[c] = data
      /\ \A d \in Calls : d # c => answer'[d] = answer[d]
  BY <1>1, ReplyMovesOne
<1>3. cache' \in Entries
  BY <1>1, OldAssumption DEF Entries
<1>4. FxTypeOK'
  BY <1>1, <1>2, <1>3 DEF FxTypeOK, Entries
<1>5. data <= OracleTimeout
  <2>1. /\ call[c].url \in 0..Urls /\ call[c].waited \in Nat
        /\ call[c].waited <= Timeout(call[c].url)
    BY <1>1 DEF FxInvariant, FxTypeOK, WaitsAreBounded
  <2> QED
    BY <1>1, <2>1, Timeouts, OldAssumption, TimesAssumption
<1>6. \A d \in Calls : Waiting(d)' => d # c /\ Waiting(d) /\ call'[d] = call[d]
  BY <1>2 DEF Waiting
<1>7. cache'.age = 0 /\ cache'.data = data
  BY <1>1
<1>8. WaitsAreBounded'
  BY <1>6 DEF FxInvariant, WaitsAreBounded
<1>9. EntryIsRecent'
  BY <1>5, <1>7, TimesAssumption DEF EntryIsRecent
<1>10. EntryIsOfTheWait'
  <2>1. SUFFICES ASSUME NEW d \in Calls, Waiting(d)'
                 PROVE  0 <= Budget(call'[d].url) + call'[d].waited
    BY <1>7 DEF EntryIsOfTheWait
  <2>2. call'[d].url \in 0..Urls /\ call'[d].waited \in Nat
    BY <1>2
  <2> QED
    BY <2>2, Timeouts
<1>11. HeardIsCached'
  BY <1>3, NoneIsNoEntry DEF HeardIsCached
<1>12. AnswersAreRecent'
  BY <1>2, <1>5, TimesAssumption DEF FxInvariant, AnswersAreRecent
<1>13. FailsOnlyIfNobodyAnswered'
  <2>1. \A d \in Calls : call'[d].at = "failed" => d # c /\ call[d].at = "failed"
    BY <1>2
  <2> QED
    BY <1>1, <2>1 DEF FxInvariant, FailsOnlyIfNobodyAnswered, Waiting
<1> QED
  BY <1>4, <1>8, <1>9, <1>10, <1>11, <1>12, <1>13 DEF FxInvariant

LEMMA NextUrlKeeps ==
    ASSUME FxInvariant, NEW c \in Calls, NextUrl(c)
    PROVE  FxInvariant'
<1> DEFINE url == call[c].url
<1>1. /\ Waiting(c) /\ url < Urls /\ url \in 0..Urls
      /\ Goto(c, "waiting", url + 1)
      /\ cache' = cache /\ heard' = heard /\ answer' = answer /\ known' = known
      /\ FxTypeOK
  BY DEF NextUrl, FxInvariant, FxTypeOK
<1>2. "waiting" \in Places /\ url + 1 \in 0..Urls
  BY <1>1, UrlsAssumption DEF Places
<1>3. /\ call' \in [Calls -> [at : Places, url : 0..Urls, waited : Nat]]
      /\ call'[c] = [at |-> "waiting", url |-> url + 1, waited |-> 0]
      /\ \A d \in Calls : d # c => call'[d] = call[d]
  BY <1>1, <1>2, GotoMovesOne
<1>4. FxTypeOK'
  BY <1>1, <1>3 DEF FxTypeOK
<1>5. \A d \in Calls : Waiting(d)' = Waiting(d)
  BY <1>1, <1>3 DEF Waiting
<1>6. /\ Timeout(url) \in Nat /\ Budget(url) \in Nat
      /\ Budget(url) + Timeout(url) <= Budget(url + 1)
      /\ Timeout(url + 1) \in Nat /\ Budget(url + 1) \in Nat
  BY <1>1, <1>2, Timeouts
<1>7. WaitsAreBounded'
  <2>1. \A d \in Calls : d # c /\ Waiting(d) =>
            call'[d].waited <= Timeout(call'[d].url)
    BY <1>3 DEF FxInvariant, WaitsAreBounded
  <2>2. call'[c].waited <= Timeout(call'[c].url)
    BY <1>3, <1>6
  <2> QED
    BY <1>5, <2>1, <2>2 DEF WaitsAreBounded
<1>8. EntryIsOfTheWait'
  <2> SUFFICES ASSUME cache # None
               PROVE  \A d \in Calls : Waiting(d) =>
                         cache.age <= Budget(call'[d].url) + call'[d].waited
    BY <1>1, <1>5 DEF EntryIsOfTheWait
  <2>1. /\ cache.age \in Nat
        /\ call[c].waited \in Nat /\ call[c].waited <= Timeout(url)
        /\ cache.age <= Budget(url) + call[c].waited
    BY <1>1, OldAssumption
       DEF FxInvariant, FxTypeOK, WaitsAreBounded, EntryIsOfTheWait
  <2>2. cache.age <= Budget(url + 1)
    BY <1>6, <2>1
  <2>3. cache.age <= Budget(call'[c].url) + call'[c].waited
    BY <1>3, <1>6, <2>1, <2>2
  <2>4. \A d \in Calls : d # c /\ Waiting(d) =>
            cache.age <= Budget(call'[d].url) + call'[d].waited
    BY <1>3 DEF FxInvariant, EntryIsOfTheWait
  <2> QED
    BY <2>3, <2>4
<1>9. EntryIsRecent' /\ HeardIsCached'
  BY <1>1, <1>5 DEF FxInvariant, EntryIsRecent, HeardIsCached
<1>10. AnswersAreRecent' /\ FailsOnlyIfNobodyAnswered'
  BY <1>1, <1>3 DEF FxInvariant, AnswersAreRecent, FailsOnlyIfNobodyAnswered
<1> QED
  BY <1>4, <1>7, <1>8, <1>9, <1>10 DEF FxInvariant

LEMMA ExhaustedKeeps ==
    ASSUME FxInvariant, NEW c \in Calls, Exhausted(c)
    PROVE  FxInvariant'
<1>1. /\ Waiting(c) /\ cache' = cache /\ heard' = heard /\ known' = known
      /\ FxTypeOK
  BY DEF Exhausted, FxInvariant
<1>2. CASE cache # None
  <2>1. Reply(c, cache.data, cache.whole) /\ cache.data \in 0..Old
    BY <1>1, <1>2 DEF Exhausted, FxTypeOK
  <2>2. /\ call' \in [Calls -> [at : Places, url : 0..Urls, waited : Nat]]
        /\ call'[c].at \in {"done", "refused"}
        /\ \A d \in Calls : d # c => call'[d] = call[d]
        /\ answer' \in [Calls -> 0..Old]
        /\ answer'[c] = cache.data
        /\ \A d \in Calls : d # c => answer'[d] = answer[d]
    BY <1>1, <2>1, ReplyMovesOne
  <2>3. cache.data <= TTL + OracleTimeout
    BY <1>1, <1>2, EntryOfTheWaitIsFresh
  <2>4. FxTypeOK'
    BY <1>1, <2>2 DEF FxTypeOK
  <2>5. \A d \in Calls : Waiting(d)' => d # c /\ Waiting(d) /\ call'[d] = call[d]
    BY <2>2 DEF Waiting
  <2>6. WaitsAreBounded' /\ EntryIsRecent' /\ EntryIsOfTheWait' /\ HeardIsCached'
    BY <1>1, <2>5 DEF FxInvariant, WaitsAreBounded, EntryIsRecent,
                      EntryIsOfTheWait, HeardIsCached
  <2>7. AnswersAreRecent'
    BY <2>2, <2>3 DEF FxInvariant, AnswersAreRecent
  <2>8. FailsOnlyIfNobodyAnswered'
    BY <1>1, <2>2 DEF FxInvariant, FailsOnlyIfNobodyAnswered
  <2> QED
    BY <2>4, <2>6, <2>7, <2>8 DEF FxInvariant
<1>3. CASE cache = None
  <2>1. Goto(c, "failed", 0) /\ answer' = answer
    BY <1>3 DEF Exhausted
  <2>2. "failed" \in Places /\ 0 \in 0..Urls
    BY UrlsAssumption DEF Places
  <2>3. /\ call' \in [Calls -> [at : Places, url : 0..Urls, waited : Nat]]
        /\ call'[c] = [at |-> "failed", url |-> 0, waited |-> 0]
        /\ \A d \in Calls : d # c => call'[d] = call[d]
    BY <1>1, <2>1, <2>2, GotoMovesOne
  <2>4. FxTypeOK'
    BY <1>1, <2>1, <2>3 DEF FxTypeOK
  <2>5. c \notin heard
    BY <1>1, <1>3 DEF FxInvariant, HeardIsCached
  <2>6. \A d \in Calls : Waiting(d)' => d # c /\ Waiting(d) /\ call'[d] = call[d]
    BY <2>3 DEF Waiting
  <2>7. WaitsAreBounded' /\ EntryIsRecent' /\ EntryIsOfTheWait' /\ HeardIsCached'
    BY <1>1, <2>6 DEF FxInvariant, WaitsAreBounded, EntryIsRecent,
                      EntryIsOfTheWait, HeardIsCached
  <2>8. AnswersAreRecent' /\ FailsOnlyIfNobodyAnswered'
    BY <1>1, <2>1, <2>3, <2>5
       DEF FxInvariant, AnswersAreRecent, FailsOnlyIfNobodyAnswered
  <2> QED
    BY <2>4, <2>7, <2>8 DEF FxInvariant
<1> QED
  BY <1>2, <1>3

LEMMA TickKeeps == ASSUME FxInvariant, Tick PROVE FxInvariant'
<1>1. /\ \A c \in Calls : Waiting(c) => call[c].waited < Timeout(call[c].url)
      /\ call' = [c \in Calls |->
                     IF Waiting(c) THEN [call[c] EXCEPT !.waited = @ + 1]
                     ELSE call[c]]
      /\ answer' = answer /\ heard' = heard /\ known' = known
      /\ FxTypeOK
  BY DEF Tick, FxInvariant
<1>2. /\ call' \in [Calls -> [at : Places, url : 0..Urls, waited : Nat]]
      /\ \A c \in Calls :
            /\ call'[c].at = call[c].at /\ call'[c].url = call[c].url
            /\ Waiting(c) => call'[c].waited = call[c].waited + 1
  BY <1>1 DEF FxTypeOK, Waiting
<1>3. \A c \in Calls : Waiting(c)' = Waiting(c)
  BY <1>2 DEF Waiting
<1>4. \/ cache = None /\ cache' = None
      \/ /\ cache \in Entries /\ cache' \in Entries
         /\ cache'.age = Older(cache.age) /\ cache'.data = Older(cache.data)
  <2>1. CASE cache = None
    BY <2>1 DEF Tick
  <2>2. CASE cache # None
    <3>1. cache \in Entries
      BY <1>1, <2>2 DEF FxTypeOK, Entries
    <3>2. cache' = [cache EXCEPT !.age = Older(@), !.data = Older(@)]
      BY <2>2 DEF Tick
    <3>3. Older(cache.age) \in 0..Old /\ Older(cache.data) \in 0..Old
      BY <3>1, OlderAges DEF Entries
    <3> QED
      BY <3>1, <3>2, <3>3 DEF Entries
  <2> QED
    BY <2>1, <2>2
<1>5. FxTypeOK'
  BY <1>1, <1>2, <1>4 DEF FxTypeOK, Entries
<1>6. WaitsAreBounded'
  <2> SUFFICES ASSUME NEW c \in Calls, Waiting(c)
               PROVE  call[c].waited + 1 <= Timeout(call[c].url)
    BY <1>2, <1>3 DEF WaitsAreBounded
  <2>1. /\ call[c].url \in 0..Urls /\ call[c].waited \in Nat
        /\ call[c].waited < Timeout(call[c].url)
    BY <1>1 DEF FxTypeOK
  <2> QED
    BY <2>1, Timeouts
<1>7. EntryIsRecent'
  <2> SUFFICES ASSUME cache' # None
               PROVE  cache'.data <= cache'.age + OracleTimeout
    BY DEF EntryIsRecent
  <2>1. /\ cache \in Entries /\ cache # None
        /\ cache'.age = Older(cache.age) /\ cache'.data = Older(cache.data)
    BY <1>4, NoneIsNoEntry
  <2>2. /\ cache.age \in 0..Old /\ cache.data \in 0..Old
        /\ cache.data <= cache.age + OracleTimeout
    BY <2>1 DEF FxInvariant, EntryIsRecent, Entries
  <2> QED
    BY <2>1, <2>2, OldAssumption, TimesAssumption DEF Older
<1>8. EntryIsOfTheWait'
  <2> SUFFICES ASSUME NEW c \in Calls, Waiting(c), cache' # None
               PROVE  cache'.age <= Budget(call[c].url) + (call[c].waited + 1)
    BY <1>2, <1>3 DEF EntryIsOfTheWait
  <2>1. cache \in Entries /\ cache # None /\ cache'.age = Older(cache.age)
    BY <1>4, NoneIsNoEntry
  <2>2. /\ cache.age \in 0..Old /\ call[c].waited \in Nat
        /\ call[c].url \in 0..Urls
        /\ cache.age <= Budget(call[c].url) + call[c].waited
    BY <1>1, <2>1 DEF FxInvariant, FxTypeOK, EntryIsOfTheWait, Entries
  <2>3. Budget(call[c].url) \in Nat
    BY <2>2, Timeouts
  <2>4. cache'.age \in 0..Old /\ cache'.age <= cache.age + 1
    BY <2>1, <2>2, OlderAges
  <2> QED
    BY <2>2, <2>3, <2>4, OldAssumption
<1>9. HeardIsCached'
  <2>1. cache # None => cache' # None
    BY <1>4, NoneIsNoEntry
  <2> QED
    BY <1>1, <1>3, <2>1 DEF FxInvariant, HeardIsCached
<1>10. AnswersAreRecent' /\ FailsOnlyIfNobodyAnswered'
  BY <1>1, <1>2 DEF FxInvariant, AnswersAreRecent, FailsOnlyIfNobodyAnswered
<1> QED
  BY <1>5, <1>6, <1>7, <1>8, <1>9, <1>10 DEF FxInvariant

LEMMA FxInvariantHolds == FxSpec => []FxInvariant
<1>1. FxInit => FxInvariant
  <2> SUFFICES ASSUME FxInit PROVE FxInvariant
    OBVIOUS
  <2>1. FxTypeOK
    <3>1. 0 \in 0..Urls /\ 0 \in 0..Old /\ "idle" \in Places
      BY OldAssumption, UrlsAssumption DEF Places
    <3>2. call \in [Calls -> [at : Places, url : 0..Urls, waited : Nat]]
      BY <3>1 DEF FxInit
    <3>3. answer \in [Calls -> 0..Old]
      BY <3>1 DEF FxInit
    <3> QED
      BY <3>2, <3>3 DEF FxInit, FxTypeOK
  <2>2. \A c \in Calls : ~Waiting(c) /\ call[c].at = "idle"
    BY DEF FxInit, Waiting
  <2> QED
    BY <2>1, <2>2 DEF FxInit, FxInvariant, WaitsAreBounded, EntryIsRecent,
        EntryIsOfTheWait, HeardIsCached, AnswersAreRecent,
        FailsOnlyIfNobodyAnswered
<1>2. FxInvariant /\ [FxNext]_fxVars => FxInvariant'
  <2> SUFFICES ASSUME FxInvariant, [FxNext]_fxVars
               PROVE  FxInvariant'
    OBVIOUS
  <2>1. CASE UNCHANGED fxVars
    BY <2>1 DEF fxVars, FxInvariant, FxTypeOK, WaitsAreBounded, EntryIsRecent,
        EntryIsOfTheWait, HeardIsCached, AnswersAreRecent,
        FailsOnlyIfNobodyAnswered, Waiting
  <2>2. CASE Tick
    BY <2>2, TickKeeps
  <2>3. ASSUME NEW c \in Calls, CallFromCache(c) \/ CallOracle(c)
        PROVE  FxInvariant'
    BY <2>3, CallFromCacheKeeps, CallOracleKeeps
  <2>4. ASSUME NEW c \in Calls, Settle(c)
        PROVE  FxInvariant'
    BY <2>4, AnswerKeeps, NextUrlKeeps, ExhaustedKeeps DEF Settle
  <2> QED
    BY <2>1, <2>2, <2>3, <2>4 DEF FxNext
<1> QED
  BY <1>1, <1>2, PTL DEF FxSpec

\* THEOREM: the types of the service, with ages that stop at their bound.
THEOREM FxTypesHold == FxSpec => []FxTypeOK
BY FxInvariantHolds, PTL DEF FxInvariant

\* THEOREM: no caller gets rates older than the lifetime of an entry and one
\* wait, for any number of callers and of sources whose timeouts, one after the
\* other, end within that lifetime.
THEOREM AnswersAlwaysRecent == FxSpec => []AnswersAreRecent
BY FxInvariantHolds, PTL DEF FxInvariant

\* THEOREM: a call fails only if nobody was answered while it waited.
THEOREM FailsOnlyUnanswered == FxSpec => []FailsOnlyIfNobodyAnswered
BY FxInvariantHolds, PTL DEF FxInvariant
=============================================================================
