------------------------------- MODULE Indexer -------------------------------
(***************************************************************************)
(* The event indexer of the backend (services/indexer.ts): one subscription*)
(* to the logs of the program, one handleLogs call per notification, one   *)
(* upsert per event.                                                       *)
(*                                                                         *)
(* A call runs without interruption up to the await of its upsert, and     *)
(* other notifications are handled meanwhile.  The life of the process is  *)
(* in module Backend.  processBatch, which nobody calls, and the position  *)
(* and the count that only the log sees are left out.                      *)
(*                                                                         *)
(* External: the node, which may lose or repeat a notification; the events *)
(* table, which may refuse an upsert.                                      *)
(***************************************************************************)
EXTENDS Interface

CONSTANTS
    Handlers,       \* bound: handleLogs calls under way at the same time
    Logs            \* of each transaction, by signature, the lines of its log

VARIABLES
    landed,         \* external: the transactions that the chain has
    mail,           \* external: notifications of each still to be delivered
    isRunning,
    subscriptionId, \* whether there is one
    handling,       \* what each call is saving: a line of a transaction's log
    events,         \* external: the rows of the events table
    notified,       \* history: the transactions whose log was handled
    counted,        \* history: the keys of the events that were counted
    lost            \* history: those that an upsert or a call failed to save

indexerVars ==
    <<landed, mail, isRunning, subscriptionId, handling, events, notified,
      counted, lost>>

Signatures == DOMAIN Logs
Actions == {"deposit", "withdraw", "borrow", "repay", "liquidate"}

\* A line is a text that some program logged as JSON, or the data of an event
\* that the program emitted.  Of a text, the parser may throw: JSON that is null,
\* or an action with an amount that is not an integer.
Lines == [prefix : {"Program log: "},
          action : Actions \cup {"unknown", "broken"}, amount : Nat]
         \cup [prefix : {"Program data: "}, event : Events, amount : Nat]

ASSUME LogsAssumption == \A s \in Signatures : Logs[s] \in Seq(Lines)

Saving(h) == handling[h].at > 0

IndexerInit ==
    /\ landed = {}
    /\ mail = [s \in Signatures |-> 0]
    /\ isRunning = FALSE
    /\ subscriptionId = FALSE
    /\ handling = [h \in Handlers |-> [signature |-> 0, at |-> 0]]
    /\ events = {}
    /\ notified = {}
    /\ counted = {}
    /\ lost = {}

-----------------------------------------------------------------------------
\* parseEventLog.
IsEvent(line) == line.prefix = "Program log: " /\ line.action \in Actions

Throws(line) == line.prefix = "Program log: " /\ line.action = "broken"

\* The events of a transaction, by their lines: where a line throws the call ends.
Parsed ==
    [s \in Signatures |->
        {i \in 1..Len(Logs[s]) :
            /\ IsEvent(Logs[s][i])
            /\ \A j \in 1..(i - 1) : ~Throws(Logs[s][j])}]

\* The key of an event, and the row.
Id(s, i) == <<s, Logs[s][i].action>>
Row(s, i) == [id |-> Id(s, i), amount |-> Logs[s][i].amount]

CurrentId(h) == Id(handling[h].signature, handling[h].at)

\* The events that a call has not saved yet.
Unsaved(h) ==
    {Id(handling[h].signature, i) :
        i \in {j \in Parsed[handling[h].signature] : handling[h].at <= j}}

\* start, on a new process.
StartIndexer ==
    /\ isRunning' = TRUE
    /\ subscriptionId' = TRUE

\* A transaction reaches the chain; who is subscribed is told once, twice or
\* not at all.
Land(s) ==
    /\ s \notin landed
    /\ landed' = landed \cup {s}
    /\ \E copies \in (IF subscriptionId THEN 0..2 ELSE {0}) :
          mail' = [mail EXCEPT ![s] = copies]
    /\ UNCHANGED <<isRunning, subscriptionId, handling, events, notified,
                   counted, lost>>

\* handleLogs from one await to the next: the first event after line i is counted
\* and its upsert begins, or there is none left.
Continue(h, s, i) ==
    LET rest == {j \in Parsed[s] : j > i}
    IN  \/ \E j \in rest :
              /\ \A k \in rest : j <= k
              /\ handling' = [handling EXCEPT ![h] = [signature |-> s, at |-> j]]
              /\ counted' = counted \cup {Id(s, j)}
        \/ /\ rest = {}
           /\ handling' = [handling EXCEPT ![h] = [signature |-> 0, at |-> 0]]
           /\ UNCHANGED counted

\* A notification arrives.
HandleLogs(h, s) ==
    /\ ~Saving(h)
    /\ mail[s] > 0
    /\ mail' = [mail EXCEPT ![s] = @ - 1]
    /\ notified' = notified \cup {s}
    /\ Continue(h, s, 0)
    /\ UNCHANGED <<landed, isRunning, subscriptionId, events, lost>>

\* Mistake to catch: a row that is there is kept.
UpsertNew(row) ==
    events' = IF \E r \in events : r.id = row.id THEN events
              ELSE events \cup {row}

\* The upsert of persistEvent: the row replaces the one with its key.
Upsert(row) == events' = {r \in events : r.id # row.id} \cup {row}

\* Mistake to catch: a call ends with its first event.
PersistOne(h) ==
    /\ Saving(h)
    /\ handling' = [handling EXCEPT ![h] = [signature |-> 0, at |-> 0]]
    /\ UNCHANGED <<counted, events, lost, landed, mail, isRunning,
                   subscriptionId, notified>>

\* Mistake to catch: a failed upsert leaves its call hanging.
PersistHanging(h) ==
    /\ Saving(h)
    /\ \/ /\ Upsert(Row(handling[h].signature, handling[h].at))
          /\ UNCHANGED lost
          /\ Continue(h, handling[h].signature, handling[h].at)
       \/ /\ lost' = lost \cup Unsaved(h)
          /\ handling' = [handling EXCEPT ![h].at = 0]
          /\ UNCHANGED <<events, counted>>
    /\ UNCHANGED <<landed, mail, isRunning, subscriptionId, notified>>

\* The table answers, with success or with an error that is only logged.
Persist(h) ==
    /\ Saving(h)
    /\ \/ Upsert(Row(handling[h].signature, handling[h].at)) /\ UNCHANGED lost
       \/ lost' = lost \cup {CurrentId(h)} /\ UNCHANGED events
    /\ Continue(h, handling[h].signature, handling[h].at)
    /\ UNCHANGED <<landed, mail, isRunning, subscriptionId, notified>>

\* What the end of the process takes away.
EndIndexer ==
    /\ isRunning' = FALSE
    /\ subscriptionId' = FALSE
    /\ mail' = [s \in Signatures |-> 0]
    /\ handling' = [h \in Handlers |-> [signature |-> 0, at |-> 0]]
    /\ lost' = lost \cup UNION {Unsaved(h) : h \in {g \in Handlers : Saving(g)}}
    /\ UNCHANGED <<landed, events, notified, counted>>

-----------------------------------------------------------------------------
Stored == {r.id : r \in events}

\* An event that was counted is in the table, or on its way there, unless its
\* own upsert failed or the process ended before it was saved: with any
\* interleaving of calls, none slips through between the count and the table.
CountedIsStored ==
    counted \subseteq
        Stored \cup lost \cup {CurrentId(h) : h \in {g \in Handlers : Saving(g)}}

\* When nothing is under way, the row of a key holds the last event of that key
\* in the transaction, however often the transaction was notified and however
\* the calls interleaved, unless an event of that key failed to be saved.
LastEventWins ==
    (\A h \in Handlers : ~Saving(h)) =>
        \A s \in Signatures : \A i \in Parsed[s] :
            (/\ Id(s, i) \in Stored \ lost
             /\ \A j \in Parsed[s] : j > i => Id(s, j) # Id(s, i))
            => Row(s, i) \in events
=============================================================================
