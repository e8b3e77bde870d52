---------------------------- MODULE ModuleVersions ----------------------------
(***************************************************************************)
(* The versions endpoint of the module mirror (internal/modules/handler.go)*)
(* and, under it, the discovery of the registry's module API               *)
(* (internal/modules/upstream.go).                                         *)
(*                                                                         *)
(* Every module has a coalesced fetch of its own, and all of them share    *)
(* the mutex of modulesAPI: the first to take it asks the registry where   *)
(* its API is, holding the mutex meanwhile.  A failed discovery is not     *)
(* repeated before a cooldown is over; until then the default path is      *)
(* assumed, wherever the registry really serves its modules.               *)
(***************************************************************************)
EXTENDS Integers

CONSTANTS
    Requests,    \* GET versions requests, each served once
    Modules,     \* the modules they ask for
    None,        \* nothing there
    Cached,      \* the modules whose documents an earlier process may have cached
    Registry,    \* where it serves modules: "default" or "custom", which it advertises,
                 \* or "none": at the default path, without a discovery document
    VersionsTTL, \* how long a versions document is fresh; 0 disables expiry
    RetryAfter,  \* discoveryRetryAfter
    MaxTime,     \* bound: the clock stops here
    Faulty,      \* of "read", "write" (the cache), "upstream": what may fail
    Evicting     \* cached documents may be evicted

ASSUME EnvironmentAssumption ==
    /\ Cached \subseteq Modules
    /\ Registry \in {"default", "custom", "none"}
    /\ Faulty \subseteq {"read", "write", "upstream"}
    /\ Evicting \in BOOLEAN
ASSUME ClockAssumption == VersionsTTL \in Nat /\ RetryAfter \in Nat /\ MaxTime \in Nat
ASSUME NamesAssumption == None \notin Modules \cup Int \cup {"default", "custom", "ok", "notfound", "error"}

VARIABLES
    now,         \* the clock
    cache,       \* cache[m]: when the cached document of m was fetched, or None
    withdrawn,   \* the modules the registry has removed
    module,      \* module[r]: the module r asks for
    pc,          \* pc[r]: where request r is
    connected,   \* connected[r]: r's client has not hung up
    loaded,      \* loaded[r]: r found a document in the cache
    result,      \* result[r]: what the fetch sent r, or None
    answer,      \* answer[r]: the response to r
    fpc,         \* fpc[m]: where the coalesced fetch of m is
    api,         \* api[m]: the API path it was given, or None
    waiters,     \* waiters[m]: the requests it will answer
    mu,          \* the fetch that holds the mutex, or None
    modulesPath, \* the discovered path, or None
    lastAttempt, \* when discovery last failed, or None
    \* History, for the properties.
    attempts,    \* discoveries begun
    assumed,     \* a discovery has failed, and the default path was assumed
    failed       \* a request to the registry has failed

requests  == <<module, pc, connected, loaded, result, answer>>
fetches   == <<fpc, api, waiters>>
discovery == <<mu, modulesPath, lastAttempt, attempts, assumed>>
vars      == <<now, cache, withdrawn, requests, fetches, discovery, failed>>

Steps      == {"start", "join", "wait", "done"}
FetchSteps == {"none", "api", "discover", "list", "store"}
Paths      == {"default", "custom"}
Results    == {"ok", "notfound", "error"}
Answers    == {"none", "HIT", "MISS", "STALE", "404", "502"}

Init ==
    /\ now = 0
    /\ \E kept \in SUBSET Cached : cache = [m \in Modules |-> IF m \in kept THEN 0 ELSE None]
    /\ withdrawn = {}
    /\ module \in [Requests -> Modules]
    /\ pc = [r \in Requests |-> "start"]
    /\ connected = [r \in Requests |-> TRUE]
    /\ loaded = [r \in Requests |-> FALSE]
    /\ result = [r \in Requests |-> None]
    /\ answer = [r \in Requests |-> "none"]
    /\ fpc = [m \in Modules |-> "none"]
    /\ api = [m \in Modules |-> None]
    /\ waiters = [m \in Modules |-> {}]
    /\ mu = None /\ modulesPath = None /\ lastAttempt = None
    /\ attempts = 0 /\ assumed = FALSE /\ failed = FALSE

-----------------------------------------------------------------------------
(* handleVersions *)

\* A non-positive TTL disables expiry.
VersionsFresh(at) == VersionsTTL = 0 \/ now - at < VersionsTTL

Respond(r, status) ==
    /\ pc' = [pc EXCEPT ![r] = "done"]
    /\ answer' = [answer EXCEPT ![r] = status]

\* loadVersions, and the answer from a fresh document; an unreadable cache is a miss.
Load(r) ==
    /\ pc[r] = "start"
    /\ LET at == cache[module[r]] IN
       \/ at # None /\ VersionsFresh(at) /\ Respond(r, "HIT") /\ UNCHANGED loaded
       \/ /\ at # None => ~VersionsFresh(at)
          /\ loaded' = [loaded EXCEPT ![r] = at # None]
          /\ pc' = [pc EXCEPT ![r] = "join"]
          /\ UNCHANGED answer
       \/ "read" \in Faulty /\ pc' = [pc EXCEPT ![r] = "join"] /\ UNCHANGED <<loaded, answer>>
    /\ UNCHANGED <<now, cache, withdrawn, module, connected, result, fetches, discovery, failed>>

\* Mutant: the key leaves the module out.
JoinAnyModule(r) ==
    LET m == CHOOSE any \in Modules : TRUE IN
        /\ pc[r] = "join"
        /\ pc' = [pc EXCEPT ![r] = "wait"]
        /\ waiters' = [waiters EXCEPT ![m] = @ \cup {r}]
        /\ fpc' = [fpc EXCEPT ![m] = IF @ = "none" THEN "api" ELSE @]
        /\ UNCHANGED <<now, cache, withdrawn, module, connected, loaded, result, answer, api,
                       discovery, failed>>

\* coalesce: DoChan joins the module's fetch under way, or starts one.
Join(r) ==
    /\ pc[r] = "join"
    /\ pc' = [pc EXCEPT ![r] = "wait"]
    /\ waiters' = [waiters EXCEPT ![module[r]] = @ \cup {r}]
    /\ fpc' = [fpc EXCEPT ![module[r]] = IF @ = "none" THEN "api" ELSE @]
    /\ UNCHANGED <<now, cache, withdrawn, module, connected, loaded, result, answer, api,
                   discovery, failed>>

\* A stale document survives any error but a definitive not-found.
FailedAnswer(r, error) ==
    Respond(r, IF error # "notfound" /\ loaded[r] THEN "STALE"
               ELSE IF error = "notfound" THEN "404" ELSE "502")

\* The receive arm of the select in coalesce.
Receive(r) ==
    /\ pc[r] = "wait"
    /\ result[r] # None
    /\ IF result[r] = "ok" THEN Respond(r, "MISS") ELSE FailedAnswer(r, result[r])
    /\ UNCHANGED <<now, cache, withdrawn, module, connected, loaded, result, fetches, discovery,
                   failed>>

\* Its ctx.Done arm: the client hung up; the fetch goes on without it.
GiveUp(r) ==
    /\ pc[r] = "wait"
    /\ ~connected[r]
    /\ FailedAnswer(r, "error")
    /\ waiters' = [waiters EXCEPT ![module[r]] = @ \ {r}]
    /\ UNCHANGED <<now, cache, withdrawn, module, connected, loaded, result, fpc, api, discovery,
                   failed>>

-----------------------------------------------------------------------------
(* The coalesced fetch: modulesAPI, ListVersions, storeVersions *)

\* fn returns: every waiter gets the result and the key is free, under singleflight's lock.
Finish(m, outcome) ==
    /\ result' = [r \in Requests |-> IF r \in waiters[m] THEN outcome ELSE result[r]]
    /\ waiters' = [waiters EXCEPT ![m] = {}]
    /\ fpc' = [fpc EXCEPT ![m] = "none"]
    /\ api' = [api EXCEPT ![m] = None]

\* modulesAPI returns path, and the request for the versions goes there.
UsePath(m, path) ==
    /\ fpc' = [fpc EXCEPT ![m] = "list"]
    /\ api' = [api EXCEPT ![m] = path]

CoolingDown == lastAttempt # None /\ now - lastAttempt < RetryAfter

\* Mutant: the mutex is only taken to write the result.
ModulesAPIUnlocked(m) ==
    /\ fpc[m] = "api"
    /\ \/ modulesPath # None /\ UsePath(m, modulesPath) /\ UNCHANGED <<mu, attempts>>
       \/ modulesPath = None /\ CoolingDown /\ UsePath(m, "default") /\ UNCHANGED <<mu, attempts>>
       \/ /\ modulesPath = None /\ ~CoolingDown
          /\ mu' = m
          /\ fpc' = [fpc EXCEPT ![m] = "discover"]
          /\ attempts' = attempts + 1
          /\ UNCHANGED api
    /\ UNCHANGED <<now, cache, withdrawn, requests, waiters, modulesPath, lastAttempt, assumed, failed>>

\* modulesAPI under the mutex: the discovered path, the default path while the cooldown lasts,
\* or the beginning of a discovery, which keeps the mutex.
ModulesAPI(m) ==
    /\ fpc[m] = "api"
    /\ mu = None
    /\ \/ modulesPath # None /\ UsePath(m, modulesPath) /\ UNCHANGED <<mu, attempts>>
       \/ modulesPath = None /\ CoolingDown /\ UsePath(m, "default") /\ UNCHANGED <<mu, attempts>>
       \/ /\ modulesPath = None /\ ~CoolingDown
          /\ mu' = m
          /\ fpc' = [fpc EXCEPT ![m] = "discover"]
          /\ attempts' = attempts + 1
          /\ UNCHANGED api
    /\ UNCHANGED <<now, cache, withdrawn, requests, waiters, modulesPath, lastAttempt, assumed, failed>>

\* Mutant: a failed discovery returns without unlocking.
DiscoverKeepsLock(m) ==
    /\ fpc[m] = "discover"
    /\ \/ /\ Registry # "none"
          /\ modulesPath' = Registry
          /\ UsePath(m, Registry)
          /\ mu' = None
          /\ UNCHANGED <<lastAttempt, assumed>>
       \/ /\ Registry = "none" \/ "upstream" \in Faulty
          /\ lastAttempt' = now /\ assumed' = TRUE
          /\ UsePath(m, "default")
          /\ UNCHANGED <<mu, modulesPath>>
    /\ UNCHANGED <<now, cache, withdrawn, requests, waiters, attempts, failed>>

\* discoverModulesAPI answers: with the path the registry advertises, kept for good, or with
\* an error, which starts the cooldown.
Discover(m) ==
    /\ fpc[m] = "discover"
    /\ mu' = None
    /\ \/ /\ Registry # "none"
          /\ modulesPath' = Registry
          /\ UsePath(m, Registry)
          /\ UNCHANGED <<lastAttempt, assumed>>
       \/ /\ Registry = "none" \/ "upstream" \in Faulty
          /\ lastAttempt' = now /\ assumed' = TRUE
          /\ UsePath(m, "default")
          /\ UNCHANGED modulesPath
    /\ UNCHANGED <<now, cache, withdrawn, requests, waiters, attempts, failed>>

\* The registry has something other than a 404 to say at this path.
ServedAt(path) == path = IF Registry = "custom" THEN "custom" ELSE "default"

\* ListVersions at the path: a document, a definitive not-found, or any other failure.
ListVersions(m) ==
    /\ fpc[m] = "list"
    /\ \/ /\ ServedAt(api[m]) /\ m \notin withdrawn
          /\ fpc' = [fpc EXCEPT ![m] = "store"]
          /\ UNCHANGED <<result, waiters, api, failed>>
       \/ /\ ~ServedAt(api[m]) \/ m \in withdrawn
          /\ Finish(m, "notfound")
          /\ UNCHANGED failed
       \/ /\ "upstream" \in Faulty
          /\ Finish(m, "error")
          /\ failed' = TRUE
    /\ UNCHANGED <<now, cache, withdrawn, module, pc, connected, loaded, answer, discovery>>

\* storeVersions, best-effort; then fn returns the document.
StoreVersions(m) ==
    /\ fpc[m] = "store"
    /\ \/ cache' = [cache EXCEPT ![m] = now]
       \/ "write" \in Faulty /\ UNCHANGED cache
    /\ Finish(m, "ok")
    /\ UNCHANGED <<now, withdrawn, module, pc, connected, loaded, answer, discovery, failed>>

-----------------------------------------------------------------------------
(* The environment *)

Tick ==
    /\ now < MaxTime
    /\ now' = now + 1
    /\ UNCHANGED <<cache, withdrawn, requests, fetches, discovery, failed>>

\* The registry removes a module.
Withdraw(m) ==
    /\ m \notin withdrawn
    /\ withdrawn' = withdrawn \cup {m}
    /\ UNCHANGED <<now, cache, requests, fetches, discovery, failed>>

\* Mutant: the fetch runs under the context of a request, and not detached from it.
HangUpAborts(r) ==
    /\ connected[r] /\ pc[r] # "done"
    /\ connected' = [connected EXCEPT ![r] = FALSE]
    /\ IF pc[r] = "wait" /\ fpc[module[r]] = "list"
          THEN Finish(module[r], "error")
          ELSE UNCHANGED <<result, fetches>>
    /\ UNCHANGED <<now, cache, withdrawn, module, pc, loaded, answer, discovery, failed>>

\* The request's context is cancelled; the fetch runs under one that is not.
HangUp(r) ==
    /\ connected[r] /\ pc[r] # "done"
    /\ connected' = [connected EXCEPT ![r] = FALSE]
    /\ UNCHANGED <<now, cache, withdrawn, module, pc, loaded, result, answer, fetches, discovery,
                   failed>>

Evict(m) ==
    /\ Evicting /\ cache[m] # None
    /\ cache' = [cache EXCEPT ![m] = None]
    /\ UNCHANGED <<now, withdrawn, requests, fetches, discovery, failed>>

-----------------------------------------------------------------------------
Handle(r) == Load(r) \/ Join(r) \/ Receive(r) \/ GiveUp(r)

Fetch(m) == ModulesAPI(m) \/ Discover(m) \/ ListVersions(m) \/ StoreVersions(m)

Next ==
    \/ \E r \in Requests : Handle(r)
    \/ \E m \in Modules : Fetch(m)
    \/ Tick
    \/ \E m \in Modules : Withdraw(m)
    \/ \E r \in Requests : HangUp(r)
    \/ \E m \in Modules : Evict(m)

Spec == Init /\ [][Next]_vars

\* The Go scheduler runs handlers and fetches, the mutex is handed to a fetch that waits for
\* it, and the registry answers one way or another.
FairSpec ==
    /\ Spec
    /\ \A r \in Requests : WF_vars(Handle(r))
    /\ \A m \in Modules : WF_vars(Fetch(m))

-----------------------------------------------------------------------------
(* Properties *)

\* Every variable holds a value of its type.
TypeOK ==
    /\ now \in Nat
    /\ cache \in [Modules -> Nat \cup {None}]
    /\ withdrawn \subseteq Modules
    /\ module \in [Requests -> Modules]
    /\ pc \in [Requests -> Steps]
    /\ connected \in [Requests -> BOOLEAN]
    /\ loaded \in [Requests -> BOOLEAN]
    /\ result \in [Requests -> Results \cup {None}]
    /\ answer \in [Requests -> Answers]
    /\ fpc \in [Modules -> FetchSteps]
    /\ api \in [Modules -> Paths \cup {None}]
    /\ waiters \in [Modules -> SUBSET Requests]
    /\ mu \in Modules \cup {None}
    /\ modulesPath \in Paths \cup {None}
    /\ lastAttempt \in Nat \cup {None}
    /\ attempts \in Nat /\ assumed \in BOOLEAN /\ failed \in BOOLEAN

\* A registry without a discovery document "costs one extra request every few minutes rather
\* than one per module request", however many fetches of however many modules ask at once
\* (upstream.go, lines 23-26 and 92-116).
DiscoveryIsCheap ==
    RetryAfter > 0 => attempts <= now \div RetryAfter + 1

\* A client that stayed is served stale, or refused, only if a request to the registry failed;
\* it is told "not found" only about a withdrawn module, or after a failed discovery made the
\* mirror ask at a path where the registry does not serve (handler.go, lines 231-247).
RefusalsHaveACause ==
    \A r \in Requests : connected[r] =>
        /\ answer[r] \in {"STALE", "502"} => failed
        /\ answer[r] = "404" => module[r] \in withdrawn \/ (assumed /\ Registry = "custom")

\* "A registry that is briefly unreachable must not stop terrastrata from ... serving what it
\* already has cached" (upstream.go, lines 48-50): a request that found a document is told
\* "not found" only if the registry has withdrawn the module.
CachedSurvivesOutage ==
    \A r \in Requests : loaded[r] /\ answer[r] = "404" => module[r] \in withdrawn

\* Every request is answered, through its module's fetch and the mutex all fetches share.
Answered == \A r \in Requests : <>(pc[r] = "done")

\* The coalesced fetch of m as those who wait for it see it.
Flight(m) == INSTANCE Coalescing WITH
    Callers   <- Requests,
    running   <- fpc[m] # "none",
    waiting   <- {r \in Requests : module[r] = m /\ pc[r] = "wait" /\ result[r] = None},
    sent      <- [r \in Requests |-> IF module[r] = m /\ pc[r] = "wait" THEN result[r] ELSE None],
    cancelled <- {r \in Requests : ~connected[r]}

\* Requests for a module share one fetch and its one result, although the fetches of all modules
\* wait for one mutex; those of other modules get nothing of it (handler.go, lines 224-232 and
\* 533-545).
IsCoalesced ==
    /\ \A m \in Modules : Flight(m)!Init
    /\ [][\A m \in Modules : [Flight(m)!Next]_(Flight(m)!vars)]_vars
=============================================================================
