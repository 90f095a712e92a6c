-------------------------- MODULE LiquidationMonitor --------------------------
(***************************************************************************)
(* The liquidation monitor of the backend (services/                       *)
(* liquidation-monitor.ts): a timer starts a poll of all positions whether *)
(* or not the last one has ended, and a poll starts liquidations that      *)
(* nobody waits for.                                                       *)
(*                                                                         *)
(* External: the node, which may fail to answer, and may accept or refuse  *)
(* the transaction of a liquidation (the code sends one without any        *)
(* instruction or signature, so that it changes nothing on the chain).     *)
(***************************************************************************)
EXTENDS Portfolio

CONSTANTS
    Chain,                  \* the accounts that the program has
    healthFactorWarn,       \* thresholds, in hundredths
    healthFactorLiquidate,
    MaxPolls,               \* bounds on what is under way at the same time
    MaxLiquidations

ASSUME ChainAssumption == Chain \subseteq Accounts
ASSUME ThresholdsAssumption ==
    /\ healthFactorWarn \in Nat /\ healthFactorLiquidate \in Nat
    /\ MaxPolls \in Nat \ {0} /\ MaxLiquidations \in Nat \ {0}

VARIABLES
    pollTimer,      \* whether the timer runs
    polls,          \* how many polls wait for their accounts
    warnings,       \* the level of each market that has a warning
    executing       \* how many liquidations of each market are under way

monitorVars == <<pollTimer, polls, warnings, executing>>

\* What may be taken for a market.
Markets == Mints \cup {Junk}

MonitorInit ==
    /\ pollTimer = FALSE
    /\ polls = 0
    /\ warnings = [m \in Markets |-> "none"]
    /\ executing = [m \in Markets |-> 0]

\* start, on a new process.
StartMonitor == pollTimer' = TRUE

\* The timer fires.
Poll ==
    /\ pollTimer
    /\ polls < MaxPolls
    /\ polls' = polls + 1
    /\ UNCHANGED <<pollTimer, warnings, executing>>

\* Mistake to catch: a poll starts only if none is under way, and one that
\* fails counts as under way.
PollFailsHanging ==
    /\ polls > 0
    /\ pollTimer' = FALSE
    /\ polls' = polls - 1
    /\ UNCHANGED <<warnings, executing>>

\* The accounts do not come: an empty list is evaluated.
PollFails ==
    /\ polls > 0
    /\ polls' = polls - 1
    /\ UNCHANGED <<pollTimer, warnings, executing>>

\* Mistake to catch: a filter that lets the vaults in too.
FetchedWithVaults ==
    {a \in Chain : Size(a.type) \in {97, 105, 146} /\ Decodes(a)}

\* fetchAllActivePositions: accounts of two sizes.
Fetched == {a \in Chain : Size(a.type) \in {97, 105} /\ Decodes(a)}

Level(health) ==
    IF health < healthFactorLiquidate THEN "liquidatable"
    ELSE IF health < healthFactorWarn THEN "critical"
    ELSE "none"

Decoded == [a \in Fetched |-> tryDecodePosition(a)]

\* The positions of each market, and how many of them are to be liquidated.
Positions == [m \in Markets |-> {a \in Fetched : Decoded[a].market = m}]

Liquidatable ==
    [m \in Markets |->
        Cardinality({a \in Positions[m] :
                        Level(Decoded[a].healthFactor) = "liquidatable"})]

\* The accounts arrive and are evaluated one by one: of a market's positions
\* the last decides the warning, and each that is liquidatable starts a
\* liquidation.
PollAnswered ==
    /\ polls > 0
    /\ polls' = polls - 1
    /\ warnings' \in
          {w \in [Markets -> {"none", "critical", "liquidatable"}] :
              \A m \in Markets :
                  IF Positions[m] = {} THEN w[m] = warnings[m]
                  ELSE \E a \in Positions[m] :
                          w[m] = Level(Decoded[a].healthFactor)}
    /\ executing' =
          [m \in Markets |->
              LET n == executing[m] + Liquidatable[m]
              IN  IF n < MaxLiquidations THEN n ELSE MaxLiquidations]
    /\ UNCHANGED pollTimer

\* executeLiquidation ends: if its transaction was confirmed the warning of the
\* market goes, whoever set it and whenever.
Executed(m) ==
    /\ executing[m] > 0
    /\ executing' = [executing EXCEPT ![m] = @ - 1]
    /\ \E success \in BOOLEAN :
          warnings' = [warnings EXCEPT ![m] = IF success THEN "none" ELSE @]
    /\ UNCHANGED <<pollTimer, polls>>

\* What the end of the process takes away.
EndMonitor ==
    /\ pollTimer' = FALSE
    /\ polls' = 0
    /\ warnings' = [m \in Markets |-> "none"]
    /\ executing' = [m \in Markets |-> 0]

-----------------------------------------------------------------------------
\* GET /liquidations/pending.
getPendingLiquidations == {m \in Markets : warnings[m] = "liquidatable"}

\* Markets that have a position below the threshold, as far as the monitor
\* computes it.
Endangered ==
    {tryDecodePosition(a).market :
        a \in {b \in Chain :
                  /\ b.type \in {"userCollateralAccount", "borrowPosition"}
                  /\ tryDecodePosition(b).healthFactor < healthFactorLiquidate}}

\* What is reported as pending is the mint of somebody's position: filters by
\* size and reads at fixed offsets pick no other account and no other field.
PendingArePositions ==
    getPendingLiquidations \subseteq
        {a.fields.assetMint :
            a \in {b \in Chain : b.type = "userCollateralAccount"}}
        \cup
        {a.fields.borrowMint : a \in {b \in Chain : b.type = "borrowPosition"}}
=============================================================================
