------------------------------ MODULE FxService ------------------------------
(***************************************************************************)
(* The exchange-rate service of the backend (services/fx-service.ts):      *)
(* concurrent getRates calls over one cache, one oracle and a list of      *)
(* fallback sources.                                                       *)
(*                                                                         *)
(* JavaScript runs a call without interruption until it awaits a response; *)
(* so one action is what runs between two awaits.  Time is kept as ages    *)
(* that grow with Tick: of the cache entry, of the data in it, of each     *)
(* pending request.  An age stops growing at Old, where nothing more is    *)
(* told apart.                                                             *)
(*                                                                         *)
(* A caller wants the rates, or converts between two currencies and is     *)
(* refused if one of them has no rate.  An answer is whole if it has both. *)
(*                                                                         *)
(* External: the sources.  A source may answer, in part or whole, fail, or *)
(* be timed out by axios; its rates were taken some time between request   *)
(* and response.                                                           *)
(***************************************************************************)
EXTENDS Integers

CONSTANTS
    Calls,              \* callers that may be in getRates at the same time
    Urls,               \* how many fallback URLs are configured
    TTL,                \* cacheTtlSeconds
    OracleTimeout,      \* axios timeouts
    FallbackTimeout,
    Old                 \* bound on ages

ASSUME UrlsAssumption == Urls \in Nat
ASSUME TimesAssumption ==
    /\ TTL \in Nat /\ OracleTimeout \in Nat /\ FallbackTimeout \in Nat
    /\ FallbackTimeout <= OracleTimeout
    /\ OracleTimeout + Urls * FallbackTimeout <= TTL
ASSUME OldAssumption ==
    Old \in Nat /\ Old > TTL + OracleTimeout

VARIABLES
    cache,      \* the one entry, or None
    call,       \* where each caller is
    answer,     \* history: the age of the data each caller got last
    heard,      \* history: callers in whose time some source has answered
    known       \* history: whether any source has ever answered

fxVars == <<cache, call, answer, heard, known>>

None == [age |-> -1, data |-> -1, whole |-> FALSE]

\* url 0 is the oracle, 1..Urls are the fallbacks.
Places == {"idle", "waiting", "done", "refused", "failed"}

FxTypeOK ==
    /\ cache = None \/ cache \in [age : 0..Old, data : 0..Old, whole : BOOLEAN]
    /\ call \in [Calls -> [at : Places, url : 0..Urls, waited : Nat]]
    /\ answer \in [Calls -> 0..Old]
    /\ heard \subseteq Calls
    /\ known \in BOOLEAN

FxInit ==
    /\ cache = None
    /\ call = [c \in Calls |-> [at |-> "idle", url |-> 0, waited |-> 0]]
    /\ answer = [c \in Calls |-> 0]
    /\ heard = {}
    /\ known = FALSE

-----------------------------------------------------------------------------
Waiting(c) == call[c].at = "waiting"

Timeout(url) == IF url = 0 THEN OracleTimeout ELSE FallbackTimeout

Older(age) == IF age < Old THEN age + 1 ELSE age

Goto(c, place, url) ==
    call' = [call EXCEPT ![c] = [at |-> place, url |-> url, waited |-> 0]]

\* getRates returns these rates: convert throws if one that it needs is 0.
Reply(c, data, whole) ==
    /\ \/ Goto(c, "done", 0)
       \/ ~whole /\ Goto(c, "refused", 0)
    /\ answer' = [answer EXCEPT ![c] = data]

\* Mistake to catch: an entry never expires.
FreshForever == cache # None

\* The test of fromCache, on the age of the entry.
Fresh == cache # None /\ cache.age <= TTL

\* getRates, up to its first await: a fresh entry is the answer, an expired one
\* is deleted.
CallFromCache(c) ==
    /\ ~Waiting(c)
    /\ Fresh
    /\ Reply(c, cache.data, cache.whole)
    /\ heard' = heard \ {c}
    /\ UNCHANGED <<cache, known>>

CallOracle(c) ==
    /\ ~Waiting(c)
    /\ ~Fresh
    /\ cache' = None
    /\ Goto(c, "waiting", 0)
    /\ heard' = heard \ {c}
    /\ UNCHANGED <<answer, known>>

\* A source answers with data that old: the cache takes it, with 0 for a rate
\* that is missing, and is stamped with the time of arrival.
Answer(c, data, whole) ==
    /\ Waiting(c)
    /\ data <= call[c].waited
    /\ cache' = [age |-> 0, data |-> data, whole |-> whole]
    /\ Reply(c, data, whole)
    /\ heard' = heard \cup {d \in Calls : Waiting(d)}
    /\ known' = TRUE

\* Mistake to catch: the same URL is asked again.
NextUrlSame(c) ==
    /\ Waiting(c)
    /\ call[c].url < Urls
    /\ Goto(c, "waiting", call[c].url)
    /\ UNCHANGED <<cache, answer, heard, known>>

\* Mistake to catch: one URL too many.
NextUrlBeyond(c) ==
    /\ Waiting(c)
    /\ call[c].url <= Urls
    /\ Goto(c, "waiting", call[c].url + 1)
    /\ UNCHANGED <<cache, answer, heard, known>>

\* A request fails, is malformed or is timed out, and a source is left.
NextUrl(c) ==
    /\ Waiting(c)
    /\ call[c].url < Urls
    /\ Goto(c, "waiting", call[c].url + 1)
    /\ UNCHANGED <<cache, answer, heard, known>>

\* Mistake to catch: the cache is not read again.
ExhaustedAtOnce(c) ==
    /\ Waiting(c)
    /\ call[c].url = Urls
    /\ Goto(c, "failed", 0)
    /\ UNCHANGED <<cache, answer, heard, known>>

\* The last source fails: what is in the cache will do, however old.
Exhausted(c) ==
    /\ Waiting(c)
    /\ call[c].url = Urls
    /\ IF cache # None
       THEN Reply(c, cache.data, cache.whole)
       ELSE /\ Goto(c, "failed", 0)
            /\ UNCHANGED answer
    /\ UNCHANGED <<cache, heard, known>>

\* A second passes; no request waits longer than its timeout.
Tick ==
    /\ \A c \in Calls : Waiting(c) => call[c].waited < Timeout(call[c].url)
    /\ cache' = IF cache = None THEN None
                ELSE [cache EXCEPT !.age = Older(@), !.data = Older(@)]
    /\ call' = [c \in Calls |->
                   IF Waiting(c) THEN [call[c] EXCEPT !.waited = @ + 1]
                   ELSE call[c]]
    /\ UNCHANGED <<answer, heard, known>>

\* What ends a wait: axios sees to it that one of these happens.
Settle(c) ==
    \/ \E data \in 0..Old, whole \in BOOLEAN : Answer(c, data, whole)
    \/ NextUrl(c)
    \/ Exhausted(c)

FxNext ==
    \/ \E c \in Calls : CallFromCache(c) \/ CallOracle(c) \/ Settle(c)
    \/ Tick

FxSpec ==
    /\ FxInit /\ [][FxNext]_fxVars
    /\ \A c \in Calls : WF_fxVars(Settle(c))

-----------------------------------------------------------------------------
\* No caller gets data older than the lifetime of an entry and the wait it was
\* fetched in, whoever fetched it, and not even when every source has failed:
\* the entry that is left then was written while the caller waited.  Nor is a
\* conversion refused any longer than that for a rate that was once missing.
AnswersAreRecent ==
    \A c \in Calls :
        call[c].at \in {"done", "refused"} => answer[c] <= TTL + OracleTimeout

\* A call fails only if no source has answered anybody since it began: a rate
\* that arrived for another caller is found in the cache.
FailsOnlyIfNobodyAnswered ==
    \A c \in Calls : call[c].at = "failed" => c \notin heard

\* Every call returns or throws, whatever the sources do.
EveryCallSettles == \A c \in Calls : Waiting(c) ~> ~Waiting(c)

\* fx-service.ts:43-46, `const stale = this.fromCache(true)`, "Returning stale
\* FX cache": when all sources fail, rates that were once fetched are returned.
StaleIsReturned ==
    [][\A c \in Calls :
          (Waiting(c) /\ call'[c].at = "failed") => ~known]_fxVars
=============================================================================
