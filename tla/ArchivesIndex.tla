---------------------------- MODULE ArchivesIndex ----------------------------
(***************************************************************************)
(* The archives index of one provider version: handleArchives and          *)
(* buildArchives of internal/mirror/handler.go with BuildArchivesIndex of  *)
(* internal/mirror/protocol.go.                                            *)
(*                                                                         *)
(* A cold request joins or starts the key's coalesced build.  The build    *)
(* lists the version's platforms and asks upstream about each of them in a *)
(* goroutine of its own, a bounded number at a time.  The first goroutine  *)
(* that records a failure cancels the context of the others; what they     *)
(* report then must neither replace the failure nor be mistaken for an     *)
(* answer.  An index, once cached, is served for ever.                     *)
(***************************************************************************)
EXTENDS Naturals, FiniteSets

CONSTANTS
    Requests,               \* GET <version>.json requests, each served once
    Platforms,              \* the platforms upstream lists for the version
    None,                   \* nothing there
    maxPlatformConcurrency, \* goroutines at a time
    Failing,                \* of "error", "notfound": the ways upstream may fail
    Faulty,                 \* of "read", "write": the cache operations that may fail
    Evicting                \* the cached index may be evicted

ASSUME ConcurrencyAssumption == maxPlatformConcurrency \in Nat \ {0}
ASSUME EnvironmentAssumption ==
    /\ Failing \subseteq {"error", "notfound"} /\ Faulty \subseteq {"read", "write"}
    /\ Evicting \in BOOLEAN

Index    == SUBSET Platforms
Errors   == {"error", "notfound"}
Outcomes == Errors \cup {"ok", "cancelled"}
Results  == [error: Errors \cup {"none"}, body: Index]

ASSUME NoneAssumption == \A value \in Index \cup Results \cup Outcomes : value # None

VARIABLES
    cache,     \* the index under the key (the platforms it lists), or None
    pc,        \* pc[r]: where request r is
    connected, \* connected[r]: r's client has not hung up
    result,    \* result[r]: what the build sent r, or None
    answer,    \* answer[r]: the response to r
    bpc,       \* where the coalesced build is
    waiters,   \* the requests it will answer
    todo,      \* the platforms its loop has not come to yet
    fetch,     \* fetch[p]: where platform p's goroutine is, or what upstream told it
    results,   \* the platforms whose answers are recorded
    firstErr,  \* the failure recorded first, or None; the context is cancelled with it
    \* History, for the properties.
    trouble,   \* upstream has failed
    gone       \* upstream has answered "not found"

requests == <<pc, connected, result, answer>>
fanout   == <<todo, fetch, results, firstErr>>
env      == <<trouble, gone>>
vars     == <<cache, requests, bpc, waiters, fanout, env>>

Steps      == {"start", "join", "wait", "done"}
BuildSteps == {"none", "list", "spawn", "store", "finish"}

NoAnswer == [status |-> 0, body |-> {}, xcache |-> "none"]
Answers  == [status: {0, 200, 404, 502}, body: Index, xcache: {"none", "HIT", "MISS"}]

Idle == [p \in Platforms |-> "none"]

Init ==
    /\ cache = None
    /\ pc = [r \in Requests |-> "start"]
    /\ connected = [r \in Requests |-> TRUE]
    /\ result = [r \in Requests |-> None]
    /\ answer = [r \in Requests |-> NoAnswer]
    /\ bpc = "none"
    /\ waiters = {}
    /\ todo = {}
    /\ fetch = Idle
    /\ results = {}
    /\ firstErr = None
    /\ trouble = FALSE
    /\ gone = FALSE

-----------------------------------------------------------------------------
(* handleArchives *)

Respond(r, status, body, xcache) ==
    /\ pc' = [pc EXCEPT ![r] = "done"]
    /\ result' = [result EXCEPT ![r] = None]
    /\ answer' = [answer EXCEPT ![r] = [status |-> status, body |-> body, xcache |-> xcache]]

\* failUpstream
Refuse(r, error) == Respond(r, IF error = "notfound" THEN 404 ELSE 502, {}, "none")

\* serveFromCache; a cache that cannot be read is a miss.
ServeFromCache(r) ==
    /\ pc[r] = "start"
    /\ \/ cache # None /\ Respond(r, 200, cache, "HIT")
       \/ /\ cache = None \/ "read" \in Faulty
          /\ pc' = [pc EXCEPT ![r] = "join"]
          /\ UNCHANGED <<result, answer>>
    /\ UNCHANGED <<cache, connected, bpc, waiters, fanout, env>>

\* coalesce: DoChan joins the build under way, or starts one.
Join(r) ==
    /\ pc[r] = "join"
    /\ pc' = [pc EXCEPT ![r] = "wait"]
    /\ waiters' = waiters \cup {r}
    /\ bpc' = IF bpc = "none" THEN "list" ELSE bpc
    /\ UNCHANGED <<cache, connected, result, answer, fanout, env>>

\* The receive arm of its select: the body comes from the build, not from the cache.
Receive(r) ==
    /\ pc[r] = "wait"
    /\ result[r] # None
    /\ IF result[r].error = "none"
          THEN Respond(r, 200, result[r].body, "MISS")
          ELSE Refuse(r, result[r].error)
    /\ UNCHANGED <<cache, connected, bpc, waiters, fanout, env>>

\* Mutant: the handler waits for the build whatever its client does.
GiveUpNever(r) == FALSE /\ UNCHANGED vars

\* The ctx.Done arm: the client hung up; what the build sends is never received.
GiveUp(r) ==
    /\ pc[r] = "wait"
    /\ ~connected[r]
    /\ Refuse(r, "error")
    /\ waiters' = waiters \ {r}
    /\ UNCHANGED <<cache, connected, bpc, fanout, env>>

-----------------------------------------------------------------------------
(* buildArchives and BuildArchivesIndex *)

\* Mutant: only one of those who wait gets the result.
FinishOne(error, body) ==
    /\ result' = [r \in Requests |->
                    IF waiters # {} /\ r = CHOOSE w \in waiters : TRUE
                    THEN [error |-> error, body |-> body] ELSE result[r]]
    /\ waiters' = {}
    /\ bpc' = "none"
    /\ todo' = {}
    /\ fetch' = Idle
    /\ results' = {}
    /\ firstErr' = None

\* fn returns: every waiter gets the result and the key is free, under singleflight's lock.
Finish(error, body) ==
    /\ result' = [r \in Requests |->
                    IF r \in waiters THEN [error |-> error, body |-> body] ELSE result[r]]
    /\ waiters' = {}
    /\ bpc' = "none"
    /\ todo' = {}
    /\ fetch' = Idle
    /\ results' = {}
    /\ firstErr' = None

\* Upstream fails in one of its ways.
Fails(error) ==
    /\ error \in Failing
    /\ trouble' = (trouble \/ error = "error")
    /\ gone' = (gone \/ error = "notfound")

\* ListVersions and PlatformsForVersion: a version that is not listed is a not-found.
ListPlatforms ==
    /\ bpc = "list"
    /\ \/ /\ bpc' = "spawn"
          /\ todo' = Platforms
          /\ UNCHANGED <<waiters, result, fetch, results, firstErr, env>>
       \/ \E error \in Errors : Fails(error) /\ Finish(error, {})
    /\ UNCHANGED <<cache, pc, connected, answer>>

\* The loop takes a slot of the semaphore for the next platform, cancelled or not.
Spawn(p) ==
    /\ bpc = "spawn"
    /\ p \in todo
    /\ Cardinality({q \in Platforms : fetch[q] \notin {"none", "done"}}) < maxPlatformConcurrency
    /\ todo' = todo \ {p}
    /\ fetch' = [fetch EXCEPT ![p] = "fetch"]
    /\ UNCHANGED <<cache, requests, bpc, waiters, results, firstErr, env>>

\* GetDownload in p's goroutine, until it asks for the mutex: upstream answers or fails.
GetDownload(p) ==
    /\ fetch[p] = "fetch"
    /\ \/ fetch' = [fetch EXCEPT ![p] = "ok"] /\ UNCHANGED env
       \/ \E error \in Errors : Fails(error) /\ fetch' = [fetch EXCEPT ![p] = error]
    /\ UNCHANGED <<cache, requests, bpc, waiters, todo, results, firstErr>>

\* Mutant: the calls run under the context of the build, which nobody cancels.
AbortNever(p) == FALSE /\ UNCHANGED vars

\* Or its context is cancelled, with the first failure.
Abort(p) ==
    /\ fetch[p] = "fetch"
    /\ firstErr # None
    /\ fetch' = [fetch EXCEPT ![p] = "cancelled"]
    /\ UNCHANGED <<cache, requests, bpc, waiters, todo, results, firstErr, env>>

\* Mutant: the last failure is kept.
RecordLast(p) ==
    /\ fetch[p] \in Outcomes
    /\ results' = IF fetch[p] = "ok" THEN results \cup {p} ELSE results
    /\ firstErr' = IF fetch[p] = "ok" THEN firstErr
                   ELSE IF fetch[p] = "notfound" THEN "notfound" ELSE "error"
    /\ fetch' = [fetch EXCEPT ![p] = "done"]
    /\ UNCHANGED <<cache, requests, bpc, waiters, todo, env>>

\* What the goroutine does under the mutex, and its deferred release of the slot.
Record(p) ==
    /\ fetch[p] \in Outcomes
    /\ results' = IF fetch[p] = "ok" THEN results \cup {p} ELSE results
    /\ firstErr' = IF fetch[p] # "ok" /\ firstErr = None THEN fetch[p] ELSE firstErr
    /\ fetch' = [fetch EXCEPT ![p] = "done"]
    /\ UNCHANGED <<cache, requests, bpc, waiters, todo, env>>

\* Mutant: an index of the platforms that could be had.
CollectPartial ==
    /\ bpc = "spawn"
    /\ todo = {} /\ \A p \in Platforms : fetch[p] = "done"
    /\ bpc' = "store"
    /\ UNCHANGED <<cache, requests, waiters, fanout, env>>

\* wg.Wait, and the test of firstErr.
Collect ==
    /\ bpc = "spawn"
    /\ todo = {} /\ \A p \in Platforms : fetch[p] = "done"
    /\ \/ firstErr # None /\ Finish(firstErr, {})
       \/ firstErr = None /\ bpc' = "store" /\ UNCHANGED <<waiters, result, fanout>>
    /\ UNCHANGED <<cache, pc, connected, answer, env>>

\* store: best-effort.
Store ==
    /\ bpc = "store"
    /\ bpc' = "finish"
    /\ \/ cache' = results
       \/ "write" \in Faulty /\ UNCHANGED cache
    /\ UNCHANGED <<requests, waiters, fanout, env>>

EndBuild ==
    /\ bpc = "finish"
    /\ Finish("none", results)
    /\ UNCHANGED <<cache, pc, connected, answer, env>>

-----------------------------------------------------------------------------
(* The environment *)

HangUp(r) ==
    /\ connected[r] /\ pc[r] # "done"
    /\ connected' = [connected EXCEPT ![r] = FALSE]
    /\ UNCHANGED <<cache, pc, result, answer, bpc, waiters, fanout, env>>

Evict ==
    /\ Evicting /\ cache # None
    /\ cache' = None
    /\ UNCHANGED <<requests, bpc, waiters, fanout, env>>

-----------------------------------------------------------------------------
Handle(r) == ServeFromCache(r) \/ Join(r) \/ Receive(r) \/ GiveUp(r)

\* The build's own steps, which need nothing from upstream.
Build ==
    \/ \E p \in Platforms : Spawn(p) \/ Record(p)
    \/ Collect \/ Store \/ EndBuild

Next ==
    \/ \E r \in Requests : Handle(r)
    \/ ListPlatforms
    \/ \E p \in Platforms : GetDownload(p) \/ Abort(p)
    \/ Build
    \/ \E r \in Requests : HangUp(r)
    \/ Evict

Spec == Init /\ [][Next]_vars

\* The Go scheduler runs whatever can run, and a cancelled call to upstream returns.  Upstream
\* itself may stall: nothing makes ListPlatforms or GetDownload happen.
Fairness ==
    /\ \A r \in Requests : WF_vars(Handle(r))
    /\ WF_vars(Build)
    /\ \A p \in Platforms : WF_vars(Abort(p))

StallSpec == Spec /\ Fairness

-----------------------------------------------------------------------------
(* Properties *)

\* Every variable holds a value of its type.
TypeOK ==
    /\ cache \in {None} \cup Index
    /\ pc \in [Requests -> Steps]
    /\ connected \in [Requests -> BOOLEAN]
    /\ result \in [Requests -> {None} \cup Results]
    /\ answer \in [Requests -> Answers]
    /\ bpc \in BuildSteps
    /\ waiters \subseteq Requests
    /\ todo \subseteq Platforms
    /\ fetch \in [Platforms -> Outcomes \cup {"none", "fetch", "done"}]
    /\ results \subseteq Platforms
    /\ firstErr \in Errors \cup {None}
    /\ trouble \in BOOLEAN /\ gone \in BOOLEAN

\* An index is cached for ever, so one that misses a platform would hide it for ever: however
\* the goroutines interleave and whichever of them fail, only complete indexes are cached or
\* served (protocol.go, lines 107-117; handler.go, lines 363-372).
IndexIsComplete ==
    /\ cache # None => cache = Platforms
    /\ \A r \in Requests : answer[r].status = 200 => answer[r].body = Platforms

\* A client that stayed is refused for what upstream itself answered: the cancellation, which
\* would turn a 404 into a 502, never becomes the reported error (protocol.go, lines 88-96),
\* and neither a cache failure nor another client's hang-up refuses anyone.
RefusalsHaveACause ==
    \A r \in Requests : connected[r] =>
        /\ answer[r].status = 502 => trouble
        /\ answer[r].status = 404 => gone

\* "Stop the remaining fetches" (protocol.go, line 93): once a failure is recorded the build
\* ends, even if every other call to upstream stalls and they hold all the slots.
FailureEndsBuild == firstErr # None ~> bpc = "none"

\* A client that hangs up is let go, even if upstream stalls (handler.go, lines 514-520).
LetGo == \A r \in Requests : ~connected[r] ~> pc[r] = "done"

\* The coalesced build as those who wait for it see it.
Flight == INSTANCE Coalescing WITH
    Callers   <- Requests,
    running   <- bpc # "none",
    waiting   <- {r \in Requests : pc[r] = "wait" /\ result[r] = None},
    sent      <- result,
    cancelled <- {r \in Requests : ~connected[r]}

\* Requests share one build and its one result, an index or an error, however its goroutines
\* end; one that stays waits until then (handler.go, lines 339-349 and 511-524).
IsCoalesced == Flight!Spec
=============================================================================
