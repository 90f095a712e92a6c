------------------------------- MODULE Backend -------------------------------
(***************************************************************************)
(* The backend as a process (index.ts): it starts its services, serves     *)
(* until a signal asks it to stop, may crash at any time, and is started   *)
(* again.  What its services hold in memory ends with it.                  *)
(***************************************************************************)
EXTENDS Indexer, LiquidationMonitor

CONSTANTS
    Signals     \* bound: signals that may be handled at the same time

VARIABLES
    phase,      \* "down", "warming" (main awaits the first rates) or "up"
    stopping    \* the handlers of signals that await the indexer's stop

backendVars == <<indexerVars, monitorVars, phase, stopping>>

BackendInit ==
    /\ IndexerInit
    /\ MonitorInit
    /\ phase = "down"
    /\ stopping = {}

-----------------------------------------------------------------------------
\* Somebody starts the process; main awaits getRates.
Launch ==
    /\ phase = "down"
    /\ phase' = "warming"
    /\ UNCHANGED <<indexerVars, monitorVars, stopping>>

\* The rates are there, or could not be fetched: both services are started and
\* the server listens.
Start ==
    /\ phase = "warming"
    /\ phase' = "up"
    /\ StartIndexer
    /\ StartMonitor
    /\ UNCHANGED <<landed, mail, handling, events, notified, counted,
                   lost, polls, warnings, executing, stopping>>

\* The end of the process.
Exit ==
    /\ phase' = "down"
    /\ stopping' = {}
    /\ EndIndexer
    /\ EndMonitor

\* External: the process is killed, or its host fails.  An exception or a
\* rejection that nobody handles is logged and does not end it.
Crash == phase # "down" /\ Exit

\* A signal, while another may be handled already: with a subscription, its
\* removal is awaited; without one the process ends.
Signal(s) ==
    /\ phase # "down"
    /\ s \notin stopping
    /\ IF subscriptionId
       THEN /\ stopping' = stopping \cup {s}
            /\ UNCHANGED <<indexerVars, monitorVars, phase>>
       ELSE Exit

\* Mistake to catch: the services are stopped and the process stays, kept alive
\* by its server.
RemovedStaying(s) ==
    /\ s \in stopping
    /\ subscriptionId' = FALSE
    /\ isRunning' = FALSE
    /\ pollTimer' = FALSE
    /\ UNCHANGED <<landed, mail, handling, events, notified, counted, lost,
                   polls, warnings, executing, phase, stopping>>

\* The removal is confirmed: the monitor is stopped and the process exits.
Removed(s) == s \in stopping /\ Exit

IndexerStep ==
    /\ \/ \E h \in Handlers :
             \/ \E s \in Signatures : HandleLogs(h, s)
             \/ Persist(h)
       \/ \E s \in Signatures : Land(s)
    /\ UNCHANGED <<monitorVars, phase, stopping>>

MonitorStep ==
    /\ \/ Poll
       \/ PollFails
       \/ PollAnswered
       \/ \E m \in Markets : Executed(m)
    /\ UNCHANGED <<indexerVars, phase, stopping>>

BackendNext ==
    \/ Launch
    \/ Start
    \/ Crash
    \/ \E s \in Signals : Signal(s) \/ Removed(s)
    \/ IndexerStep
    \/ MonitorStep

-----------------------------------------------------------------------------
(* Fairness: the event loop runs what is ready, axios ends the request for   *)
(* rates, the table and the node answer each request in the end; and a node  *)
(* that is asked for the positions again and again does not always fail.     *)
(* Nothing makes a transaction land, a signal come or the process start.     *)

Handled(h) ==
    /\ (\E s \in Signatures : HandleLogs(h, s)) \/ Persist(h)
    /\ UNCHANGED <<monitorVars, phase, stopping>>

PollStep(P) == P /\ UNCHANGED <<indexerVars, phase, stopping>>

Fairness ==
    /\ WF_backendVars(Start)
    /\ \A h \in Handlers : WF_backendVars(Handled(h))
    /\ \A s \in Signals : WF_backendVars(Removed(s))
    /\ WF_backendVars(PollStep(Poll))
    /\ SF_backendVars(PollStep(PollAnswered))

BackendSpec == BackendInit /\ [][BackendNext]_backendVars /\ Fairness

-----------------------------------------------------------------------------
\* A notification does not wait for ever: the events of the transaction are
\* saved or reported as failed, unless the process ends.
NotificationsAreHandled ==
    \A s \in Signatures :
        mail[s] > 0 ~>
            /\ mail[s] = 0
            /\ \A h \in Handlers : handling[h].signature # s

\* A process that is asked to stop ends, whatever is under way, also if it is
\* asked again while it stops.
SignalsStop == (stopping # {}) ~> (phase = "down")

\* As long as the process lives, an endangered market is reported again and
\* again: no liquidation, however late it ends, silences it for good.
EndangeredAreReported ==
    \A m \in Markets :
        (phase = "up" /\ m \in Endangered) ~>
            (m \in getPendingLiquidations \/ phase = "down")

-----------------------------------------------------------------------------
\* README.md:331, "Subscribes to program logs via onLogs, persists events to
\* Supabase": the events that the program emitted in a transaction of which the
\* indexer was notified are in the table, once nothing is under way, unless an
\* upsert failed or the process ended.
EventAction ==
    [depositEvent |-> "deposit", withdrawEvent |-> "withdraw",
     borrowEvent |-> "borrow", repayEvent |-> "repay",
     liquidationEvent |-> "liquidate"]

EmittedAreStored ==
    (lost = {} /\ \A h \in Handlers : ~Saving(h)) =>
        \A s \in notified : \A i \in 1..Len(Logs[s]) :
            LET line == Logs[s][i]
            IN  (/\ line.prefix = "Program data: "
                 /\ line.event \in DOMAIN EventAction)
                => <<s, EventAction[line.event]>> \in Stored
=============================================================================
