------------------------------ MODULE ZipMirror ------------------------------
(***************************************************************************)
(* The provider-archive path of internal/mirror/handler.go in one process: *)
(* handleZip looks in the cache, joins or starts the key's coalesced       *)
(* population (singleflight.DoChan), then streams from the cache, and      *)
(* falls back to a fetch of its own when the cache cannot produce the      *)
(* archive.  The module follows one archive.                               *)
(*                                                                         *)
(* The population runs in a goroutine of its own under a context that no   *)
(* client can cancel; a client may hang up at any time and only its own    *)
(* waiting ends.  The cache is the atomic object store that internal/cache *)
(* offers the handler: reads and writes may fail, objects may be evicted.  *)
(***************************************************************************)
EXTENDS Naturals, FiniteSets

CONSTANTS
    Requests,   \* GET requests for the archive, each served once
    Population, \* names the goroutine of the coalesced population
    Good,       \* the archive whose digest the registry publishes
    Bad,        \* any other bytes
    None,       \* nothing there
    Replies,    \* what the registry may answer to GetDownload
    Downloads,  \* what the download host may send
    Faulty,     \* of "read", "write" (the cache) and "staging": what may fail
    Evicting    \* the cached archive may be evicted

AllReplies   == {"described", "otherfile", "nodigest", "notfound", "error"}
AllDownloads == {Good, Bad, "toobig", "error"}

ASSUME NamesAssumption ==
    /\ Population \notin Requests
    /\ Good # Bad /\ None \notin {Good, Bad} \cup {"partial", "ok", "notfound", "error"}
    /\ {Good, Bad} \cap {"partial", "toobig", "error"} = {}
ASSUME EnvironmentAssumption ==
    /\ Replies \subseteq AllReplies /\ Downloads \subseteq AllDownloads
    /\ Faulty \subseteq {"read", "write", "staging"} /\ Evicting \in BOOLEAN

\* Whoever fetches an archive: the population, and a request that falls back.
Fetchers == Requests \cup {Population}

VARIABLES
    cache,      \* the object under the key, or None
    pc,         \* pc[x]: where request x, or the population, is
    connected,  \* connected[r]: r's client has not hung up
    waiters,    \* the requests whose channel the running population will feed
    result,     \* result[r]: what the population sent r, or None
    staged,     \* staged[x]: the bytes in x's file in the staging directory, "partial", or None
    answer,     \* answer[r]: the response to r
    \* History, for the properties.
    trouble,    \* upstream or the staging directory has failed
    gone        \* upstream has answered "not found"

env  == <<trouble, gone>>
vars == <<cache, pc, connected, waiters, result, staged, answer, env>>

RequestSteps    == {"start", "join", "wait", "stream", "describe", "stage", "copy", "serve", "done"}
PopulationSteps == {"none", "describe", "stage", "copy", "put", "finish"}
Outcomes        == {"ok", "notfound", "error"}

NoAnswer == [status |-> 0, body |-> None, xcache |-> "none"]

Answers == [status: {0, 200, 404, 500, 502}, body: {None, Good, Bad}, xcache: {"none", "HIT", "MISS"}]

Init ==
    /\ cache = None
    /\ pc = [x \in Fetchers |-> IF x = Population THEN "none" ELSE "start"]
    /\ connected = [r \in Requests |-> TRUE]
    /\ waiters = {}
    /\ result = [r \in Requests |-> None]
    /\ staged = [x \in Fetchers |-> None]
    /\ answer = [r \in Requests |-> NoAnswer]
    /\ trouble = FALSE
    /\ gone = FALSE

-----------------------------------------------------------------------------
(* Helpers *)

Goto(x, step) == pc' = [pc EXCEPT ![x] = step]

Respond(r, status, body, xcache) ==
    /\ Goto(r, "done")
    /\ answer' = [answer EXCEPT ![r] = [status |-> status, body |-> body, xcache |-> xcache]]

\* failUpstream: a not-found becomes a 404, everything else a 502.
Refuse(r, outcome) == Respond(r, IF outcome = "notfound" THEN 404 ELSE 502, None, "none")

\* fn returns: the result goes to every waiter and the key is free, under singleflight's lock.
Finish(outcome) ==
    /\ Goto(Population, "none")
    /\ result' = [r \in Requests |-> IF r \in waiters THEN outcome ELSE result[r]]
    /\ waiters' = {}
    /\ UNCHANGED answer

\* A fetch ends without an archive: for the population, or for a request of its own.
FetchFailed(x, outcome) ==
    IF x = Population
    THEN Finish(outcome)
    ELSE Refuse(x, outcome) /\ UNCHANGED <<waiters, result>>

\* Mutant: no digest check.
MatchesAnything(body) == TRUE

\* The digest check of stageVerifiedZip.
MatchesDigest(body) == body = Good

Cancelled(x) == x # Population /\ ~connected[x]

-----------------------------------------------------------------------------
(* handleZip *)

\* serveFromCache: a cache that cannot be read counts as a miss.
ServeFromCache(r) ==
    /\ pc[r] = "start"
    /\ \/ cache # None /\ Respond(r, 200, cache, "HIT")
       \/ (cache = None \/ "read" \in Faulty) /\ Goto(r, "join") /\ UNCHANGED answer
    /\ UNCHANGED <<cache, connected, waiters, result, staged, env>>

\* Mutant: a request that comes late is not added to those the population will answer.
JoinUnheard(r) ==
    /\ pc[r] = "join"
    /\ waiters' = IF pc[Population] = "none" THEN waiters \cup {r} ELSE waiters
    /\ pc' = [pc EXCEPT ![r] = "wait",
                        ![Population] = IF pc[Population] = "none" THEN "describe" ELSE @]
    /\ UNCHANGED <<cache, connected, result, staged, answer, env>>

\* coalesce: DoChan joins the population under way, or starts one.
Join(r) ==
    /\ pc[r] = "join"
    /\ waiters' = waiters \cup {r}
    /\ pc' = [pc EXCEPT ![r] = "wait",
                        ![Population] = IF pc[Population] = "none" THEN "describe" ELSE @]
    /\ UNCHANGED <<cache, connected, result, staged, answer, env>>

\* The receive arm of the select in coalesce.
Receive(r) ==
    /\ pc[r] = "wait"
    /\ result[r] # None
    /\ IF result[r] = "ok"
          THEN Goto(r, "stream") /\ UNCHANGED answer
          ELSE Refuse(r, result[r])
    /\ UNCHANGED <<cache, connected, waiters, result, staged, env>>

\* Its ctx.Done arm: the client hung up, the population goes on without it.
GiveUp(r) ==
    /\ pc[r] = "wait"
    /\ ~connected[r]
    /\ Refuse(r, "error")
    /\ UNCHANGED <<cache, connected, waiters, result, staged, env>>

\* Mutant: an archive the cache cannot produce is an error.
StreamFromCacheOnly(r) ==
    /\ pc[r] = "stream"
    /\ \/ cache # None /\ Respond(r, 200, cache, "MISS")
       \/ (cache = None \/ "read" \in Faulty) /\ Refuse(r, "error")
    /\ UNCHANGED <<cache, connected, waiters, result, staged, env>>

\* Mutant: it is waited for in another population.
StreamFromCacheAgain(r) ==
    /\ pc[r] = "stream"
    /\ \/ cache # None /\ Respond(r, 200, cache, "MISS") /\ UNCHANGED result
       \/ /\ cache = None \/ "read" \in Faulty
          /\ Goto(r, "join")
          /\ result' = [result EXCEPT ![r] = None]
          /\ UNCHANGED answer
    /\ UNCHANGED <<cache, connected, waiters, staged, env>>

\* streamFromCache, after the population; if there is nothing to stream, fetch directly.
StreamFromCache(r) ==
    /\ pc[r] = "stream"
    /\ \/ cache # None /\ Respond(r, 200, cache, "MISS")
       \/ (cache = None \/ "read" \in Faulty) /\ Goto(r, "describe") /\ UNCHANGED answer
    /\ UNCHANGED <<cache, connected, waiters, result, staged, env>>

-----------------------------------------------------------------------------
(* fetchStageZip, in the population or in a request's direct fetch *)

\* GetDownload and the checks of its answer; a file name other than the requested one is
\* a not-found, a missing or malformed digest an error.
Describe(x) ==
    /\ pc[x] = "describe"
    /\ \/ /\ "described" \in Replies
          /\ Goto(x, "stage")
          /\ UNCHANGED <<waiters, result, answer, env>>
       \/ /\ \E reply \in Replies \cap {"otherfile", "notfound"} : FetchFailed(x, "notfound")
          /\ gone' = TRUE
          /\ UNCHANGED trouble
       \/ /\ \E reply \in Replies \cap {"nodigest", "error"} : FetchFailed(x, "error")
          /\ trouble' = TRUE
          /\ UNCHANGED gone
       \/ /\ Cancelled(x)
          /\ FetchFailed(x, "error")
          /\ UNCHANGED env
    /\ UNCHANGED <<cache, connected, staged>>

\* FetchZip, and CreateTemp in stageVerifiedZip: from here on there is a file.
Stage(x) ==
    /\ pc[x] = "stage"
    /\ \/ /\ Goto(x, "copy")
          /\ staged' = [staged EXCEPT ![x] = "partial"]
          /\ UNCHANGED <<waiters, result, answer, env>>
       \/ /\ "error" \in Downloads \/ "staging" \in Faulty
          /\ FetchFailed(x, "error")
          /\ trouble' = TRUE
          /\ UNCHANGED <<staged, gone>>
       \/ /\ Cancelled(x)
          /\ FetchFailed(x, "error")
          /\ UNCHANGED <<staged, env>>
    /\ UNCHANGED <<cache, connected>>

\* The archive is complete, and is what the registry vouches for.
Verify(x) ==
    /\ \E body \in Downloads \cap {Good, Bad} :
            MatchesDigest(body) /\ staged' = [staged EXCEPT ![x] = body]
    /\ Goto(x, IF x = Population THEN "put" ELSE "serve")
    /\ UNCHANGED <<waiters, result, answer, env>>

\* Mutant: the file of an archive that fails verification is not removed.
CopyLeaks(x) ==
    /\ pc[x] = "copy"
    /\ \/ Verify(x)
       \/ /\ {Bad, "toobig"} \cap Downloads # {}
          /\ FetchFailed(x, "error")
          /\ trouble' = TRUE
          /\ UNCHANGED <<staged, gone>>
    /\ UNCHANGED <<cache, connected>>

\* The rest of stageVerifiedZip.  The file stays only if the whole stream is within the cap and
\* matches the digest; if it breaks off, is too long or another archive, or the disk fails,
\* cleanup removes it.
Copy(x) ==
    /\ pc[x] = "copy"
    /\ \/ Verify(x)
       \/ /\ \/ /\ Downloads # {Good} \/ "staging" \in Faulty
                /\ trouble' = TRUE
                /\ UNCHANGED gone
             \/ Cancelled(x) /\ UNCHANGED env
          /\ staged' = [staged EXCEPT ![x] = None]
          /\ FetchFailed(x, "error")
    /\ UNCHANGED <<cache, connected>>

\* populateZip: the cache write is best-effort, and atomic; a staging file that cannot be
\* rewound is an error.
Populate ==
    /\ pc[Population] = "put"
    /\ \/ /\ \/ cache' = staged[Population]
             \/ "write" \in Faulty /\ UNCHANGED cache
          /\ Goto(Population, "finish")
          /\ UNCHANGED <<waiters, result, staged, answer, env>>
       \/ /\ "staging" \in Faulty
          /\ Finish("error")
          /\ staged' = [staged EXCEPT ![Population] = None]
          /\ trouble' = TRUE
          /\ UNCHANGED <<cache, gone>>
    /\ UNCHANGED connected

\* Its deferred removal of the staging file, and the return into singleflight.
EndPopulation ==
    /\ pc[Population] = "finish"
    /\ staged' = [staged EXCEPT ![Population] = None]
    /\ Finish("ok")
    /\ UNCHANGED <<cache, connected, env>>

\* fetchAndServeZip: caches best-effort, serves the staging file and removes it.
ServeStaged(r) ==
    /\ pc[r] = "serve"
    /\ \/ cache' = staged[r]
       \/ Faulty \cap {"write", "staging"} # {} /\ UNCHANGED cache
    /\ \/ Respond(r, 200, staged[r], "MISS") /\ UNCHANGED env
       \/ /\ "staging" \in Faulty
          /\ Respond(r, 500, None, "none")
          /\ trouble' = TRUE
          /\ UNCHANGED gone
    /\ staged' = [staged EXCEPT ![r] = None]
    /\ UNCHANGED <<connected, waiters, result>>

-----------------------------------------------------------------------------
(* The environment *)

HangUp(r) ==
    /\ connected[r] /\ pc[r] # "done"
    /\ connected' = [connected EXCEPT ![r] = FALSE]
    /\ UNCHANGED <<cache, pc, waiters, result, staged, answer, env>>

Evict ==
    /\ Evicting /\ cache # None
    /\ cache' = None
    /\ UNCHANGED <<pc, connected, waiters, result, staged, answer, env>>

-----------------------------------------------------------------------------
\* The steps the process takes by itself once a request is in.
Handle(r) ==
    \/ ServeFromCache(r) \/ Join(r) \/ Receive(r) \/ GiveUp(r)
    \/ StreamFromCache(r) \/ ServeStaged(r)

Fetch(x) == Describe(x) \/ Stage(x) \/ Copy(x)

Next ==
    \/ \E r \in Requests : Handle(r)
    \/ \E x \in Fetchers : Fetch(x)
    \/ Populate
    \/ EndPopulation
    \/ \E r \in Requests : HangUp(r)
    \/ Evict

Spec == Init /\ [][Next]_vars

\* What the Go scheduler and a working disk give: every step but a fetch is taken.
LocalFairness ==
    /\ \A r \in Requests : WF_vars(Handle(r))
    /\ WF_vars(Populate) /\ WF_vars(EndPopulation)

\* A fetch whose request was cancelled ends: the request's context is the fetch's.
CancelFairness == \A r \in Requests : WF_vars(Cancelled(r) /\ Fetch(r))

\* Upstream answers and sends its bodies to the end.
UpstreamFairness == \A x \in Fetchers : WF_vars(Fetch(x))

FairSpec == Spec /\ LocalFairness /\ UpstreamFairness

\* Upstream may stall: nothing but a cancelled context ends a fetch.
StallSpec == Spec /\ LocalFairness /\ CancelFairness

-----------------------------------------------------------------------------
(* Properties *)

\* Every variable holds a value of its type.
TypeOK ==
    /\ cache \in {None, Good, Bad}
    /\ pc \in [Fetchers -> RequestSteps \cup PopulationSteps]
    /\ connected \in [Requests -> BOOLEAN]
    /\ waiters \subseteq Requests
    /\ result \in [Requests -> Outcomes \cup {None}]
    /\ staged \in [Fetchers -> {None, "partial", Good, Bad}]
    /\ answer \in [Requests -> Answers]
    /\ trouble \in BOOLEAN /\ gone \in BOOLEAN

\* "Provider zips are checked against the registry-published SHA-256 before being cached or
\* served" (docs guides/supply-chain.md, line 71): whichever way a request went, through the
\* cache, the population or its own fetch, and whatever the download host sent.
OnlyVerified ==
    /\ cache # Bad
    /\ \A r \in Requests : answer[r].body # Bad

\* A client that stayed is refused only if upstream (or the staging disk) failed, and told
\* "not found" only if upstream said so: a cache that cannot be read or written, an eviction,
\* or another client hanging up never fails it (handler.go, lines 415-417 and 513-514).
RefusalsHaveACause ==
    \A r \in Requests : connected[r] =>
        /\ answer[r].status \in {500, 502} => trouble
        /\ answer[r].status = 404 => gone

\* A file in the staging directory belongs to a fetch that fills it or is about to use it: no
\* path out of a fetch leaves one behind (handler.go, lines 464-468, 487-491 and 535-557).
StagingIsClean ==
    \A x \in Fetchers : staged[x] # None <=> pc[x] \in {"copy", "put", "finish", "serve"}

\* Every request is answered: no waiter is forgotten by the population it joined.
Answered == \A r \in Requests : <>(pc[r] = "done")

\* "The overall deadline is governed by the request context" (upstream.go, lines 55-57):
\* once the clients of all requests that wait for it have hung up, the population ends.
PopulationEndsWithItsRequests ==
    pc[Population] # "none" /\ (\A r \in Requests : ~connected[r]) ~> pc[Population] = "none"

\* The coalesced population as those who wait for it see it.
Flight == INSTANCE Coalescing WITH
    Callers   <- Requests,
    Results   <- Outcomes,
    running   <- pc[Population] # "none",
    waiting   <- {r \in Requests : pc[r] = "wait" /\ result[r] = None},
    sent      <- [r \in Requests |-> IF pc[r] = "wait" THEN result[r] ELSE None],
    cancelled <- {r \in Requests : ~connected[r]}

\* Requests share one population and its one result: whatever goes wrong in it, whoever joins
\* late or hangs up, a request that stays waits until its population ends and is told how
\* (handler.go, lines 402-408 and 511-524).
IsCoalesced == Flight!Spec
=============================================================================
