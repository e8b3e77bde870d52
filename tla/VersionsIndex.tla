---------------------------- MODULE VersionsIndex ----------------------------
(***************************************************************************)
(* The versions index of internal/mirror/handler.go in one process:        *)
(* handleVersions serves the cached index while it is fresh, revalidates   *)
(* it against upstream through the key's coalesced fetch otherwise, and    *)
(* serves the stale copy when that fails.  The cached object is the        *)
(* envelope of internal/freshness: the body and the time it was fetched.   *)
(*                                                                         *)
(* Upstream publishes versions one by one and never takes one back, so an  *)
(* index is the number of versions it lists.  The cache is the object      *)
(* store internal/cache offers: reads and writes may fail, and objects     *)
(* may be evicted.  The module follows one provider.                       *)
(***************************************************************************)
EXTENDS Integers, FiniteSets

CONSTANTS
    Requests,    \* GET index.json requests, each served once
    None,        \* nothing there
    IndexTTL,    \* how long an index is fresh; 0 disables expiry
    MaxTime,     \* bound: the clock stops here
    MaxFetch,    \* bound: clock ticks one upstream fetch may last
    MaxVersions, \* bound: versions upstream publishes
    Faulty,      \* of "read", "write": the cache operations that may fail
    Failing,     \* of "error", "notfound": the ways upstream may fail
    Evicting     \* the cached index may be evicted

ASSUME ClockAssumption == {IndexTTL, MaxTime, MaxFetch, MaxVersions} \subseteq Nat
ASSUME EnvironmentAssumption ==
    /\ Faulty \subseteq {"read", "write"} /\ Failing \subseteq {"error", "notfound"}
    /\ Evicting \in BOOLEAN

Index    == 0..MaxVersions
Envelope == [body: Index, at: 0..MaxTime]

VARIABLES
    now,       \* the clock
    born,      \* born[v]: when upstream published version v, for the versions that exist
    cache,     \* the envelope under the key, or None
    pc,        \* pc[r]: where request r is
    connected, \* connected[r]: r's client has not hung up
    loaded,    \* loaded[r]: the envelope r found in the cache, or None
    led,       \* led[r]: r's closure ran, so r led its fetch
    result,    \* result[r]: what the fetch sent r, or None
    answer,    \* answer[r]: the response to r and the outcome it was counted as
    fpc,       \* where the coalesced fetch is
    fetched,   \* the index it read, or None
    since,     \* when it began
    waiters,   \* the requests it will answer
    \* History, for the properties.
    asked,     \* asked[r]: when r looked into the cache
    failed,    \* upstream has failed
    fetches    \* how many fetches upstream has answered

requests == <<pc, connected, loaded, led, result, answer, asked>>
fetch    == <<fpc, fetched, since, waiters>>
vars     == <<now, born, cache, requests, fetch, failed, fetches>>

Steps      == {"start", "join", "wait", "done"}
FetchSteps == {"none", "list", "store", "finish"}
Results    == [error: {"none", "error", "notfound"}, body: Index \cup {None}]

ASSUME NoneAssumption == None \notin Index \cup Envelope \cup Results

NoAnswer == [xcache |-> "none", body |-> None, outcome |-> "none"]
Answers  == [xcache: {"none", "HIT", "MISS", "STALE", "404", "502"},
             body: Index \cup {None},
             outcome: {"none", "fresh", "revalidated", "coalesced", "stale", "error"}]

List == Cardinality(DOMAIN born)

Init ==
    /\ now = 0
    /\ born = [v \in {} |-> 0]
    /\ cache = None
    /\ pc = [r \in Requests |-> "start"]
    /\ connected = [r \in Requests |-> TRUE]
    /\ loaded = [r \in Requests |-> None]
    /\ led = [r \in Requests |-> FALSE]
    /\ result = [r \in Requests |-> None]
    /\ answer = [r \in Requests |-> NoAnswer]
    /\ fpc = "none"
    /\ fetched = None
    /\ since = 0
    /\ waiters = {}
    /\ asked = [r \in Requests |-> 0]
    /\ failed = FALSE
    /\ fetches = 0

-----------------------------------------------------------------------------
(* handleVersions *)

\* Mutant: an index is fresh for a TTL and one fetch more.
FreshTooLong(at) == IndexTTL = 0 \/ now - at <= IndexTTL

\* A non-positive TTL disables expiry.
VersionsFresh(at) == IndexTTL = 0 \/ now - at < IndexTTL

\* The handler returns; its locals are gone.
Respond(r, xcache, body, outcome) ==
    /\ pc' = [pc EXCEPT ![r] = "done"]
    /\ loaded' = [loaded EXCEPT ![r] = None]
    /\ led' = [led EXCEPT ![r] = FALSE]
    /\ result' = [result EXCEPT ![r] = None]
    /\ answer' = [answer EXCEPT ![r] = [xcache |-> xcache, body |-> body, outcome |-> outcome]]

\* loadVersions, and the answer from a fresh copy; a cache that cannot be read is a miss.
Load(r) ==
    /\ pc[r] = "start"
    /\ asked' = [asked EXCEPT ![r] = now]
    /\ \/ /\ cache # None
          /\ VersionsFresh(cache.at)
          /\ Respond(r, "HIT", cache.body, "fresh")
       \/ /\ cache # None => ~VersionsFresh(cache.at)
          /\ loaded' = [loaded EXCEPT ![r] = cache]
          /\ pc' = [pc EXCEPT ![r] = "join"]
          /\ UNCHANGED <<led, result, answer>>
       \/ /\ "read" \in Faulty
          /\ pc' = [pc EXCEPT ![r] = "join"]
          /\ UNCHANGED <<loaded, led, result, answer>>
    /\ UNCHANGED <<now, born, cache, connected, fetch, failed, fetches>>

\* Mutant: every request that joins a fetch believes it led it.
JoinLeads(r) ==
    /\ pc[r] = "join"
    /\ pc' = [pc EXCEPT ![r] = "wait"]
    /\ waiters' = waiters \cup {r}
    /\ IF fpc = "none" THEN fpc' = "list" /\ since' = now ELSE UNCHANGED <<fpc, since>>
    /\ led' = [led EXCEPT ![r] = TRUE]
    /\ UNCHANGED <<now, born, cache, connected, loaded, result, answer, fetched, asked, failed, fetches>>

\* coalesce: DoChan joins the fetch under way, or starts one and leads it.
Join(r) ==
    /\ pc[r] = "join"
    /\ pc' = [pc EXCEPT ![r] = "wait"]
    /\ waiters' = waiters \cup {r}
    /\ IF fpc = "none"
          THEN /\ fpc' = "list"
               /\ since' = now
               /\ led' = [led EXCEPT ![r] = TRUE]
          ELSE UNCHANGED <<fpc, since, led>>
    /\ UNCHANGED <<now, born, cache, connected, loaded, result, answer, fetched, asked, failed, fetches>>

\* An error, of the fetch or of the request's own context: a stale copy survives anything but
\* a definitive not-found.
FailedAnswer(r, error) ==
    IF error # "notfound" /\ loaded[r] # None
    THEN Respond(r, "STALE", loaded[r].body, "stale")
    ELSE Respond(r, IF error = "notfound" THEN "404" ELSE "502", None, "error")

\* The receive arm of the select in coalesce.
Receive(r) ==
    /\ pc[r] = "wait"
    /\ result[r] # None
    /\ IF result[r].error # "none"
          THEN FailedAnswer(r, result[r].error)
          ELSE Respond(r, "MISS", result[r].body, IF led[r] THEN "revalidated" ELSE "coalesced")
    /\ UNCHANGED <<now, born, cache, connected, fetch, asked, failed, fetches>>

\* Mutant: a client that hangs up ends the fetch the others wait for.
GiveUpForAll(r) ==
    /\ pc[r] = "wait"
    /\ ~connected[r]
    /\ FailedAnswer(r, "error")
    /\ waiters' = waiters \ {r}
    /\ fpc' = "none"
    /\ UNCHANGED <<now, born, cache, connected, fetched, since, asked, failed, fetches>>

\* Its ctx.Done arm: the client hung up; the handler takes the same error path, and
\* what the fetch will send it is never received.
GiveUp(r) ==
    /\ pc[r] = "wait"
    /\ ~connected[r]
    /\ FailedAnswer(r, "error")
    /\ waiters' = waiters \ {r}
    /\ UNCHANGED <<now, born, cache, connected, fpc, fetched, since, asked, failed, fetches>>

-----------------------------------------------------------------------------
(* The coalesced fetch *)

\* fn returns: every waiter gets the result and the key is free, under singleflight's lock.
Finish(error, body) ==
    /\ result' = [r \in Requests |->
                    IF r \in waiters THEN [error |-> error, body |-> body] ELSE result[r]]
    /\ waiters' = {}
    /\ fpc' = "none"
    /\ fetched' = None
    /\ since' = 0

\* Mutant: a failing upstream counts as one that lists nothing.
ListNothing ==
    /\ fpc = "list"
    /\ \/ fetched' = List /\ fetches' = fetches + 1 /\ UNCHANGED failed
       \/ Failing # {} /\ fetched' = 0 /\ failed' = TRUE /\ UNCHANGED fetches
    /\ fpc' = "store"
    /\ UNCHANGED <<now, born, cache, requests, since, waiters>>

\* fetchVersions: upstream lists what it has published by now, or fails.
ListVersions ==
    /\ fpc = "list"
    /\ \/ /\ fetched' = List
          /\ fpc' = "store"
          /\ fetches' = fetches + 1
          /\ UNCHANGED <<result, since, waiters, failed>>
       \/ /\ \E error \in Failing : Finish(error, None)
          /\ failed' = TRUE
          /\ UNCHANGED fetches
    /\ UNCHANGED <<now, born, cache, pc, connected, loaded, led, answer, asked>>

\* storeVersions: the envelope is stamped with the time after the fetch; best-effort.
StoreVersions ==
    /\ fpc = "store"
    /\ \/ cache' = [body |-> fetched, at |-> now]
       \/ "write" \in Faulty /\ UNCHANGED cache
    /\ fpc' = "finish"
    /\ UNCHANGED <<now, born, requests, fetched, since, waiters, failed, fetches>>

EndFetch ==
    /\ fpc = "finish"
    /\ Finish("none", fetched)
    /\ UNCHANGED <<now, born, cache, pc, connected, loaded, led, answer, asked, failed, fetches>>

-----------------------------------------------------------------------------
(* The environment *)

Tick ==
    /\ now < MaxTime
    /\ fpc # "none" => now - since < MaxFetch
    /\ now' = now + 1
    /\ UNCHANGED <<born, cache, requests, fetch, failed, fetches>>

Publish ==
    /\ List < MaxVersions
    /\ born' = [v \in 1..List + 1 |-> IF v <= List THEN born[v] ELSE now]
    /\ UNCHANGED <<now, cache, requests, fetch, failed, fetches>>

\* Mutant: the fetch runs under the context of the request that led it.
HangUpAborts(r) ==
    /\ connected[r] /\ pc[r] # "done"
    /\ connected' = [connected EXCEPT ![r] = FALSE]
    /\ IF led[r] /\ fpc = "list" THEN Finish("error", None) ELSE UNCHANGED <<result, fetch>>
    /\ UNCHANGED <<now, born, cache, pc, loaded, led, answer, asked, failed, fetches>>

\* The request's context is cancelled; the fetch runs under one that is not.
HangUp(r) ==
    /\ connected[r] /\ pc[r] # "done"
    /\ connected' = [connected EXCEPT ![r] = FALSE]
    /\ UNCHANGED <<now, born, cache, pc, loaded, led, result, answer, asked, fetch, failed, fetches>>

Evict ==
    /\ Evicting /\ cache # None
    /\ cache' = None
    /\ UNCHANGED <<now, born, requests, fetch, failed, fetches>>

-----------------------------------------------------------------------------
Handle(r) == Load(r) \/ Join(r) \/ Receive(r) \/ GiveUp(r)

Fetch == ListVersions \/ StoreVersions \/ EndFetch

Next ==
    \/ \E r \in Requests : Handle(r)
    \/ Fetch
    \/ Tick
    \/ Publish
    \/ \E r \in Requests : HangUp(r)
    \/ Evict

Spec == Init /\ [][Next]_vars

-----------------------------------------------------------------------------
(* Properties *)

\* Every variable holds a value of its type.
TypeOK ==
    /\ now \in 0..MaxTime
    /\ DOMAIN born = 1..List /\ \A v \in 1..List : born[v] \in 0..now
    /\ cache \in Envelope \cup {None}
    /\ pc \in [Requests -> Steps]
    /\ connected \in [Requests -> BOOLEAN]
    /\ loaded \in [Requests -> Envelope \cup {None}]
    /\ led \in [Requests -> BOOLEAN]
    /\ result \in [Requests -> Results \cup {None}]
    /\ answer \in [Requests -> Answers]
    /\ fpc \in FetchSteps
    /\ fetched \in Index \cup {None}
    /\ since \in 0..now
    /\ waiters \subseteq Requests
    /\ asked \in [Requests -> 0..now]
    /\ failed \in BOOLEAN
    /\ fetches \in Nat

\* How far an index may lag: a HIT or a MISS lists every version that was published more
\* than the TTL and one fetch before the request looked (docs reference/configuration.md,
\* INDEX_TTL; handler.go, lines 201-205).  Only a STALE answer may lag further.
LagIsBounded ==
    IndexTTL > 0 =>
        \A r \in Requests : answer[r].xcache \in {"HIT", "MISS"} =>
            \A v \in 1..List :
                born[v] < asked[r] - IndexTTL - MaxFetch + 1 => v <= answer[r].body

\* A revalidation never puts an older index, or an older stamp, over a newer one: fetch and
\* store happen inside the coalesced call, so those of one key cannot overlap (lines 226-236).
CacheMovesForward ==
    [][cache # None /\ cache' # None =>
            cache'.body >= cache.body /\ cache'.at >= cache.at]_cache

\* "The revalidated series tracks real upstream fetches": however many requests pile up, no
\* two of them count the same fetch (handler.go, lines 254-256).
RevalidatedTracksFetches ==
    Cardinality({r \in Requests : answer[r].outcome = "revalidated"}) <= fetches

\* A client that stayed is served stale, or refused, only if upstream failed.
DegradedMeansFailed ==
    \A r \in Requests :
        connected[r] /\ answer[r].xcache \in {"STALE", "404", "502"} => failed

\* The coalesced fetch as those who wait for it see it.
Flight == INSTANCE Coalescing WITH
    Callers   <- Requests,
    running   <- fpc # "none",
    waiting   <- {r \in Requests : pc[r] = "wait" /\ result[r] = None},
    sent      <- result,
    cancelled <- {r \in Requests : ~connected[r]}

\* Requests share one fetch and its one result, which no other request's hang-up cuts short:
\* not even that of the request that leads it (handler.go, lines 222-236 and 511-524).
IsCoalesced == Flight!Spec
=============================================================================
