---------------------------- MODULE PortfolioApi ----------------------------
(***************************************************************************)
(* The portfolio of a user as the backend answers it (routes/api.ts, the   *)
(* routes portfolio and health, services/portfolio-service.ts): a request  *)
(* reads the accounts of the program from a node, then awaits the exchange *)
(* rates, while the program goes on writing accounts.                      *)
(***************************************************************************)
EXTENDS Portfolio

CONSTANT Requests   \* the requests that are under way at the same time

VARIABLES
    ledger,         \* external: the accounts of the program
    requests        \* what each request has done so far

apiVars == <<ledger, requests>>

\* kept is history: the accounts not written since the request began.
NoRequest == [step |-> "idle", user |-> Junk, positions |-> {}, kept |-> {}]

ApiInit ==
    /\ ledger = {}
    /\ requests = [r \in Requests |-> NoRequest]

\* External: a transaction creates an account, or changes it.
Address(account) ==
    <<account.type,
      [f \in DOMAIN account.fields \cap {"owner", "assetMint", "borrowMint"} |->
          account.fields[f]]>>

Others(accounts, account) == {a \in accounts : Address(a) # Address(account)}

Write(account) ==
    /\ ledger' = Others(ledger, account) \cup {account}
    /\ requests' = [r \in Requests |->
                      [requests[r] EXCEPT !.kept = Others(@, account)]]

\* GET /user/:address/portfolio: getPortfolio asks a node for the positions.
getPortfolio(r, u) ==
    /\ requests[r].step \in {"idle", "answered", "failed"}
    /\ requests' = [requests EXCEPT ![r] =
           [step |-> "positions", user |-> u, positions |-> {},
            kept |-> ledger]]
    /\ UNCHANGED ledger

\* The node has answered, or failed; the rates are asked for.
PositionsFetched(r) ==
    LET q == requests[r]
    IN  /\ q.step = "positions"
        /\ \E positions \in fetchPositions(ledger, q.user) :
              requests' = [requests EXCEPT ![r] =
                  [q EXCEPT !.step = "rates", !.positions = positions]]
        /\ UNCHANGED ledger

\* The rates are there, and the request is answered; or getRates throws, and
\* it fails with 500.
RatesFetched(r) ==
    LET q == requests[r]
    IN  /\ q.step = "rates"
        /\ \E step \in {"answered", "failed"} :
              requests' = [requests EXCEPT ![r] = [q EXCEPT !.step = step]]
        /\ UNCHANGED ledger

ApiNext ==
    \/ \E a \in Accounts : Write(a)
    \/ \E r \in Requests :
          \/ \E u \in Users : getPortfolio(r, u)
          \/ PositionsFetched(r)
          \/ RatesFetched(r)

ApiSpec == ApiInit /\ [][ApiNext]_apiVars

-----------------------------------------------------------------------------
\* The deposits of the user that stood while the request was under way.
KeptDeposits(q) ==
    {a \in q.kept : a.type = "userCollateralAccount" /\ a.fields.owner = q.user}

Lists(q, a) ==
    \E p \in q.positions :
        p.market = a.fields.assetMint /\ p.deposited = a.fields.shares

\* All or nothing: a portfolio that is answered lists every deposit that stood
\* while it was computed, with its mint and its shares, whatever other accounts
\* exist and are written meanwhile; or it is empty, as it is also when the node
\* could not be asked.
AnswersAreComplete ==
    \A r \in Requests :
        (requests[r].step = "answered" /\ requests[r].positions # {})
            => \A a \in KeptDeposits(requests[r]) : Lists(requests[r], a)
=============================================================================
