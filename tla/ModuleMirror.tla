----------------------------- MODULE ModuleMirror -----------------------------
(***************************************************************************)
(* The module mirror of internal/modules/handler.go in one process: the    *)
(* download endpoint resolves where a module's source lies and hands out   *)
(* a link to its own archive endpoint (or upstream's, which it cannot      *)
(* host); the archive endpoint checks the link and serves the archive.     *)
(* The module follows one version of one module.                           *)
(*                                                                         *)
(* Two keys are coalesced, and one population runs inside the other: the   *)
(* population of the archive resolves the location, which may join the     *)
(* population of the location under way for somebody's download request.   *)
(* Links expire (sign.go): the clock counts fractions of a second, and     *)
(* link times are whole seconds.                                           *)
(***************************************************************************)
EXTENDS Integers

CONSTANTS
    Clients,    \* each asks for a download link and may follow it, or comes without one
    Population, \* names the goroutine of the archive's coalesced population
    Resolver,   \* names the goroutine of the location's
    None,       \* nothing there
    Sources,    \* the kinds of X-Terraform-Get upstream may answer with
    AllowHTTP,  \* the upstream registry is itself plain http
    Faulty,     \* of "read", "write" (the cache), "staging", "upstream": what may fail
    Evicting,   \* cached objects may be evicted
    Signed,     \* AUTH_TOKEN is set: links are signed and expire
    Second,     \* clock ticks per second
    LinkTTL,    \* ticks a link is meant to last
    MaxTime     \* bound: the clock stops here

ASSUME NamesAssumption ==
    /\ Population \notin Clients /\ Resolver \notin Clients /\ Population # Resolver
    /\ None \notin {"source", "bypass", "ok", "notfound", "error"} \cup Int
ASSUME EnvironmentAssumption ==
    /\ Sources \subseteq {"https", "http", "github", "opaque"} /\ AllowHTTP \in BOOLEAN
    /\ Faulty \subseteq {"read", "write", "staging", "upstream"}
    /\ Evicting \in BOOLEAN /\ Signed \in BOOLEAN
ASSUME ClockAssumption == Second \in Nat \ {0} /\ LinkTTL \in Nat /\ MaxTime \in Nat

\* Whoever fetches an archive, and with it its location.
Fetchers == Clients \cup {Population}

VARIABLES
    now,       \* the clock
    location,  \* the cached location, or None
    archive,   \* the archive is in the cache
    pc,        \* pc[x]: where client x, the population or the resolver is
    endpoint,  \* endpoint[c]: the endpoint c's request is at, or will be next
    connected, \* connected[c]: c has not hung up
    waiters,   \* waiters[key]: whom the running population of the key will answer
    result,    \* result[x]: what the population x last waited for sent it, or None
    staged,    \* the fetchers that have a file in the staging directory
    link,      \* link[c]: the second the link c is about to follow expires, or None
    answer,    \* answer[c]: the status of the last response of c's session
    \* History, for the properties.
    handed,    \* handed[c]: when c was handed that link, or None
    trouble,   \* upstream or the staging directory has failed
    gone,      \* upstream has answered "not found"
    moved,     \* upstream has answered with a source that cannot be hosted
    degraded   \* the cache has failed, or lost the archive

cache   == <<location, archive>>
flights == <<waiters, result>>
links   == <<link, handed>>
history == <<trouble, gone, moved, degraded>>
vars    == <<now, cache, pc, endpoint, connected, flights, staged, links, answer, history>>

LookupSteps     == {"lookup", "joinlocation", "waitlocation"}
ClientSteps     == LookupSteps \cup {"start", "linked", "join", "wait", "stream",
                                     "open", "copy", "serve", "done"}
PopulationSteps == LookupSteps \cup {"none", "open", "copy", "put", "finish"}
ResolverSteps   == {"none", "ask", "source", "bypass"}
Outcomes        == {"source", "bypass", "ok", "notfound", "error"}
Statuses        == {0, 200, 204, 403, 404, 500, 502}

\* A client begins at the download endpoint, or comes to the archive endpoint unasked.
Init ==
    /\ now = 0
    /\ location = None
    /\ archive = FALSE
    /\ endpoint \in [Clients -> {"download", "archive"}]
    /\ pc = [x \in Fetchers \cup {Resolver} |->
               IF x \notin Clients THEN "none"
               ELSE IF endpoint[x] = "download" THEN "start" ELSE "linked"]
    /\ connected = [c \in Clients |-> TRUE]
    /\ waiters = [location |-> {}, archive |-> {}]
    /\ result = [x \in Fetchers |-> None]
    /\ staged = {}
    /\ link = [c \in Clients |-> None]
    /\ answer = [c \in Clients |-> 0]
    /\ handed = [c \in Clients |-> None]
    /\ trouble = FALSE /\ gone = FALSE /\ moved = FALSE /\ degraded = FALSE

-----------------------------------------------------------------------------
(* Helpers *)

Goto(x, step) == pc' = [pc EXCEPT ![x] = step]

Respond(c, status) == Goto(c, "done") /\ answer' = [answer EXCEPT ![c] = status]

\* failUpstream: a not-found becomes a 404, everything else a 502.
Refuse(c, outcome) == Respond(c, IF outcome = "notfound" THEN 404 ELSE 502)

\* coalesce: DoChan joins the population of the key under way, or starts one.
Coalesce(x, key, step, runner, first) ==
    /\ waiters' = [waiters EXCEPT ![key] = @ \cup {x}]
    /\ result' = [result EXCEPT ![x] = None]
    /\ pc' = [pc EXCEPT ![x] = step, ![runner] = IF @ = "none" THEN first ELSE @]

\* fn returns: the result goes to every waiter and the key is free, under singleflight's lock.
Finish(key, runner, outcome) ==
    /\ Goto(runner, "none")
    /\ result' = [x \in Fetchers |-> IF x \in waiters[key] THEN outcome ELSE result[x]]
    /\ waiters' = [waiters EXCEPT ![key] = {}]

\* A fetch ends without an archive: for the population, or for a client's own request.
Failed(x, outcome) ==
    IF x = Population
    THEN Finish("archive", Population, outcome) /\ UNCHANGED answer
    ELSE Refuse(x, outcome) /\ UNCHANGED flights

Cancelled(x) == x \in Clients /\ ~connected[x]

\* time.Time.Unix truncates to whole seconds.
Unix(t) == t \div Second

\* The second a link handed out now expires (query); it is checked only when links are signed.
LinkExpiry == Unix(now + LinkTTL)

\* Mutant: a link is not good in the second it expires.
ValidBefore(c) == link[c] # None /\ Unix(now) < link[c]

\* verify, of the link c presents.
Valid(c) == link[c] # None /\ ~(Unix(now) > link[c])

-----------------------------------------------------------------------------
(* resolveLocation: in the download endpoint, in the population of the archive, and in a  *)
(* client's own fetch                                                                    *)

\* What its caller does with a location: the download endpoint hands out a link (or the
\* upstream source); a fetch goes on, and a source that cannot be hosted is a not-found.
Resolved(x, loc) ==
    IF x \in Clients /\ endpoint[x] = "download"
    THEN /\ UNCHANGED flights
         /\ IF loc = "source"
               THEN /\ Goto(x, "linked")
                    /\ endpoint' = [endpoint EXCEPT ![x] = "archive"]
                    /\ link' = [link EXCEPT ![x] = LinkExpiry]
                    /\ handed' = [handed EXCEPT ![x] = now]
                    /\ answer' = [answer EXCEPT ![x] = 204]
               ELSE Respond(x, 204) /\ UNCHANGED <<endpoint, links>>
    ELSE /\ UNCHANGED <<endpoint, links>>
         /\ IF loc = "source"
               THEN Goto(x, "open") /\ UNCHANGED <<answer, flights>>
               ELSE Failed(x, "notfound")

\* readCache: a location that cannot be read counts as a miss.
Lookup(x) ==
    /\ pc[x] \in {"start", "lookup"}
    /\ \/ location # None /\ Resolved(x, location)
       \/ /\ location = None \/ "read" \in Faulty
          /\ Goto(x, "joinlocation")
          /\ UNCHANGED <<endpoint, links, answer, flights>>
    /\ UNCHANGED <<now, cache, connected, staged, history>>

\* Mutant: the location is coalesced under the archive's key.
JoinLocationAsArchive(x) ==
    /\ pc[x] = "joinlocation"
    /\ Coalesce(x, "archive", "waitlocation", Population, "lookup")
    /\ UNCHANGED <<now, cache, endpoint, connected, staged, links, answer, history>>

JoinLocation(x) ==
    /\ pc[x] = "joinlocation"
    /\ Coalesce(x, "location", "waitlocation", Resolver, "ask")
    /\ UNCHANGED <<now, cache, endpoint, connected, staged, links, answer, history>>

ReceiveLocation(x) ==
    /\ pc[x] = "waitlocation"
    /\ result[x] # None
    /\ IF result[x] \in {"source", "bypass"}
          THEN Resolved(x, result[x])
          ELSE Failed(x, result[x]) /\ UNCHANGED <<endpoint, links>>
    /\ UNCHANGED <<now, cache, connected, staged, history>>

\* What can be hosted: an archive over https (or http where allowed), and a pinned GitHub
\* repository, as a tarball; the client is sent to upstream for anything else.
ParseSource(raw) ==
    IF raw \in {"https", "github"} \/ (raw = "http" /\ AllowHTTP) THEN "source" ELSE "bypass"

\* Upstream.Location, in the location's population.
Ask ==
    /\ pc[Resolver] = "ask"
    /\ \/ \E raw \in Sources :
             /\ Goto(Resolver, ParseSource(raw))
             /\ moved' = (moved \/ ParseSource(raw) = "bypass")
             /\ UNCHANGED <<flights, trouble, gone>>
       \/ /\ "upstream" \in Faulty
          /\ \E outcome \in {"notfound", "error"} :
                /\ Finish("location", Resolver, outcome)
                /\ gone' = (gone \/ outcome = "notfound")
                /\ trouble' = (trouble \/ outcome = "error")
          /\ UNCHANGED moved
    /\ UNCHANGED <<now, cache, endpoint, connected, staged, links, answer, degraded>>

\* The location is stored best-effort, and for ever; then fn returns it.
StoreLocation ==
    /\ pc[Resolver] \in {"source", "bypass"}
    /\ \/ location' = pc[Resolver]
       \/ "write" \in Faulty /\ UNCHANGED location
    /\ Finish("location", Resolver, pc[Resolver])
    /\ UNCHANGED <<now, archive, endpoint, connected, staged, links, answer, history>>

-----------------------------------------------------------------------------
(* handleArchive *)

\* A client follows its link once; the model then forgets the link.
Used(c) == link' = [link EXCEPT ![c] = None] /\ handed' = [handed EXCEPT ![c] = None]

\* An archive request without a valid link ends before the cache or upstream is asked.
Reject(c) ==
    /\ pc[c] = "linked"
    /\ Signed /\ ~Valid(c)
    /\ Respond(c, 403)
    /\ Used(c)
    /\ UNCHANGED <<now, cache, endpoint, connected, flights, staged, history>>

\* serveFromCache: a cache that cannot be read counts as a miss.
ServeFromCache(c) ==
    /\ pc[c] = "linked"
    /\ Signed => Valid(c)
    /\ \/ archive /\ Respond(c, 200)
       \/ (~archive \/ "read" \in Faulty) /\ Goto(c, "join") /\ UNCHANGED answer
    /\ Used(c)
    /\ UNCHANGED <<now, cache, endpoint, connected, flights, staged, history>>

Join(c) ==
    /\ pc[c] = "join"
    /\ Coalesce(c, "archive", "wait", Population, "lookup")
    /\ UNCHANGED <<now, cache, endpoint, connected, staged, links, answer, history>>

Receive(c) ==
    /\ pc[c] = "wait"
    /\ result[c] # None
    /\ IF result[c] = "ok"
          THEN Goto(c, "stream") /\ UNCHANGED answer
          ELSE Refuse(c, result[c])
    /\ UNCHANGED <<now, cache, endpoint, connected, flights, staged, links, history>>

\* The ctx.Done arm of coalesce, for either key: the client hung up, the population goes on,
\* and what it will send is never received.
GiveUp(c) ==
    /\ pc[c] \in {"wait", "waitlocation"}
    /\ ~connected[c]
    /\ Refuse(c, "error")
    /\ waiters' = [key \in DOMAIN waiters |-> waiters[key] \ {c}]
    /\ result' = [result EXCEPT ![c] = None]
    /\ UNCHANGED <<now, cache, endpoint, connected, staged, links, history>>

\* streamFromCache; if there is nothing to stream, the request fetches for itself.
StreamFromCache(c) ==
    /\ pc[c] = "stream"
    /\ \/ archive /\ Respond(c, 200) /\ UNCHANGED degraded
       \/ ~archive /\ Goto(c, "lookup") /\ UNCHANGED <<answer, degraded>>
       \/ "read" \in Faulty /\ Goto(c, "lookup") /\ degraded' = TRUE /\ UNCHANGED answer
    /\ UNCHANGED <<now, cache, endpoint, connected, flights, staged, links, trouble, gone, moved>>

-----------------------------------------------------------------------------
(* fetchStageArchive, in the population or in a client's own fetch *)

\* FetchArchive and CreateTemp.
Open(x) ==
    /\ pc[x] = "open"
    /\ \/ /\ Goto(x, "copy")
          /\ staged' = staged \cup {x}
          /\ UNCHANGED <<flights, answer, trouble, gone>>
       \/ /\ "upstream" \in Faulty
          /\ Failed(x, "notfound")
          /\ gone' = TRUE
          /\ UNCHANGED <<staged, trouble>>
       \/ /\ Faulty \cap {"upstream", "staging"} # {}
          /\ Failed(x, "error")
          /\ trouble' = TRUE
          /\ UNCHANGED <<staged, gone>>
       \/ /\ Cancelled(x)
          /\ Failed(x, "error")
          /\ UNCHANGED <<staged, trouble, gone>>
    /\ UNCHANGED <<now, cache, endpoint, connected, links, moved, degraded>>

\* Mutant: a copy that fails leaves its file behind.
CopyLeaks(x) ==
    /\ pc[x] = "copy"
    /\ \/ Goto(x, IF x = Population THEN "put" ELSE "serve") /\ UNCHANGED <<flights, answer, trouble>>
       \/ Failed(x, "error") /\ trouble' = TRUE
    /\ UNCHANGED <<now, cache, endpoint, connected, staged, links, gone, moved, degraded>>

\* Copying or repacking up to the cap; an archive that ends early, cannot be repacked or is
\* larger is an error, and its file is removed.
Copy(x) ==
    /\ pc[x] = "copy"
    /\ \/ /\ Goto(x, IF x = Population THEN "put" ELSE "serve")
          /\ UNCHANGED <<flights, staged, answer, trouble>>
       \/ /\ \/ Faulty \cap {"upstream", "staging"} # {} /\ trouble' = TRUE
             \/ Cancelled(x) /\ UNCHANGED trouble
          /\ Failed(x, "error")
          /\ staged' = staged \ {x}
    /\ UNCHANGED <<now, cache, endpoint, connected, links, gone, moved, degraded>>

\* Mutants: a failed cache write fails the population; it is forgotten altogether.
PopulateStrict ==
    /\ pc[Population] = "put"
    /\ \/ archive' = TRUE /\ Goto(Population, "finish") /\ UNCHANGED <<flights, staged>>
       \/ /\ "write" \in Faulty /\ UNCHANGED archive
          /\ Finish("archive", Population, "error") /\ staged' = staged \ {Population}
    /\ UNCHANGED <<now, location, endpoint, connected, links, answer, history>>

PopulateNothing ==
    /\ pc[Population] = "put"
    /\ Goto(Population, "finish")
    /\ UNCHANGED <<now, cache, endpoint, connected, flights, staged, links, answer, history>>

\* populateArchive: rewinds the file and writes it to the cache, best-effort.
Populate ==
    /\ pc[Population] = "put"
    /\ \/ /\ \/ archive' = TRUE /\ UNCHANGED degraded
             \/ "write" \in Faulty /\ degraded' = TRUE /\ UNCHANGED archive
          /\ Goto(Population, "finish")
          /\ UNCHANGED <<flights, staged, trouble>>
       \/ /\ "staging" \in Faulty
          /\ Finish("archive", Population, "error")
          /\ staged' = staged \ {Population}
          /\ trouble' = TRUE
          /\ UNCHANGED <<archive, degraded>>
    /\ UNCHANGED <<now, location, endpoint, connected, links, answer, gone, moved>>

\* Its deferred discard, and the return into singleflight.
EndPopulation ==
    /\ pc[Population] = "finish"
    /\ staged' = staged \ {Population}
    /\ Finish("archive", Population, "ok")
    /\ UNCHANGED <<now, cache, endpoint, connected, links, answer, history>>

\* fetchAndServeArchive: serves the staged file and discards it; the cache stays as it is.
ServeStaged(c) ==
    /\ pc[c] = "serve"
    /\ \/ Respond(c, 200) /\ UNCHANGED trouble
       \/ "staging" \in Faulty /\ Respond(c, 500) /\ trouble' = TRUE
    /\ staged' = staged \ {c}
    /\ UNCHANGED <<now, cache, endpoint, connected, flights, links, gone, moved, degraded>>

-----------------------------------------------------------------------------
(* The environment *)

\* A client has a request under way.
Pending(c) == pc[c] \notin {"start", "linked", "done"}

HangUp(c) ==
    /\ connected[c] /\ Pending(c)
    /\ connected' = [connected EXCEPT ![c] = FALSE]
    /\ UNCHANGED <<now, cache, pc, endpoint, flights, staged, links, answer, history>>

EvictLocation ==
    /\ Evicting /\ location # None
    /\ location' = None
    /\ UNCHANGED <<now, archive, pc, endpoint, connected, flights, staged, links, answer, history>>

EvictArchive ==
    /\ Evicting /\ archive
    /\ archive' = FALSE
    /\ degraded' = TRUE
    /\ UNCHANGED <<now, location, pc, endpoint, connected, flights, staged, links, answer,
                   trouble, gone, moved>>

Tick ==
    /\ now < MaxTime
    /\ now' = now + 1
    /\ UNCHANGED <<cache, pc, endpoint, connected, flights, staged, links, answer, history>>

-----------------------------------------------------------------------------
Locate(x) == Lookup(x) \/ JoinLocation(x) \/ ReceiveLocation(x)

Resolve == Ask \/ StoreLocation

Fetch(x) == Open(x) \/ Copy(x)

Handle(c) ==
    \/ Reject(c) \/ ServeFromCache(c) \/ Join(c) \/ Receive(c) \/ GiveUp(c)
    \/ StreamFromCache(c) \/ ServeStaged(c)

Next ==
    \/ \E x \in Fetchers : Locate(x)
    \/ Resolve
    \/ \E x \in Fetchers : Fetch(x)
    \/ \E c \in Clients : Handle(c)
    \/ Populate
    \/ EndPopulation
    \/ \E c \in Clients : HangUp(c)
    \/ EvictLocation
    \/ EvictArchive
    \/ Tick

Spec == Init /\ [][Next]_vars

\* The Go scheduler runs every goroutine, and upstream answers and sends its bodies to the
\* end, one way or another.  No client has to ask, or to follow its link.
Fairness ==
    /\ \A c \in Clients : WF_vars(Pending(c) /\ (Locate(c) \/ Fetch(c) \/ Handle(c)))
    /\ WF_vars(Resolve)
    /\ WF_vars(Locate(Population) \/ Fetch(Population) \/ Populate \/ EndPopulation)

FairSpec == Spec /\ Fairness

-----------------------------------------------------------------------------
(* Properties *)

\* Every variable holds a value of its type.
TypeOK ==
    /\ now \in Nat
    /\ location \in {None, "source", "bypass"}
    /\ archive \in BOOLEAN
    /\ pc \in [Fetchers \cup {Resolver} -> ClientSteps \cup PopulationSteps \cup ResolverSteps]
    /\ \A c \in Clients : pc[c] \in ClientSteps
    /\ pc[Population] \in PopulationSteps /\ pc[Resolver] \in ResolverSteps
    /\ endpoint \in [Clients -> {"download", "archive"}]
    /\ connected \in [Clients -> BOOLEAN]
    /\ waiters \in [location: SUBSET Fetchers, archive: SUBSET Clients]
    /\ result \in [Fetchers -> Outcomes \cup {None}]
    /\ staged \subseteq Fetchers
    /\ link \in [Clients -> Nat \cup {None}]
    /\ answer \in [Clients -> Statuses]
    /\ handed \in [Clients -> Nat \cup {None}]
    /\ trouble \in BOOLEAN /\ gone \in BOOLEAN /\ moved \in BOOLEAN /\ degraded \in BOOLEAN

\* A client that stayed is refused only if upstream (or the staging disk) failed, and told
\* "not found" only if upstream said so or named a source that cannot be hosted: neither the
\* cache nor another client hanging up ever fails it, though it may wait for two populations
\* (handler.go, lines 404-420, 427-429 and 533-536).
RefusalsHaveACause ==
    \A c \in Clients : connected[c] =>
        /\ answer[c] \in {500, 502} => trouble
        /\ answer[c] = 404 => gone \/ moved

\* A file in the staging directory belongs to a fetch that is about to use it: no path out of
\* a fetch leaves one behind (handler.go, lines 448, 476-479, 493-500 and 512).
StagingIsClean ==
    \A x \in Fetchers : x \in staged <=> pc[x] \in {"copy", "put", "finish", "serve"}

\* A request downloads the archive a second time, outside the coalesced population, only
\* after the cache failed or lost what the population wrote (handler.go, lines 418-419).
SecondDownloadHasACause ==
    \A c \in Clients : endpoint[c] = "archive" /\ pc[c] \in LookupSteps \cup {"open", "copy", "serve"}
        => degraded

\* A link works for as long as it is meant to, and for less than a second more; a client
\* without one never gets past the check.  The expiry and the time are both cut to whole
\* seconds (sign.go, lines 78 and 90).
LinkLifetime ==
    [][\A c \in Clients : Signed /\ pc[c] = "linked" /\ pc'[c] # "linked" =>
        IF answer'[c] = 403
        THEN handed[c] = None \/ now - handed[c] > LinkTTL
        ELSE handed[c] # None /\ now - handed[c] < LinkTTL + Second]_vars

\* Every request is answered: the population of the archive waits for the location's and no
\* other wait closes the circle (handler.go, lines 326, 398, 408 and 431).
Answered == \A c \in Clients : Pending(c) ~> ~Pending(c)

\* The coalesced populations as those who wait for them see them; the population of the archive
\* is itself a caller of the location's.
ArchiveFlight == INSTANCE Coalescing WITH
    Callers   <- Clients,
    Results   <- {"ok", "notfound", "error"},
    running   <- pc[Population] # "none",
    waiting   <- {c \in Clients : pc[c] = "wait" /\ result[c] = None},
    sent      <- [c \in Clients |-> IF pc[c] = "wait" THEN result[c] ELSE None],
    cancelled <- {c \in Clients : ~connected[c]}

LocationFlight == INSTANCE Coalescing WITH
    Callers   <- Fetchers,
    Results   <- {"source", "bypass", "notfound", "error"},
    running   <- pc[Resolver] # "none",
    waiting   <- {x \in Fetchers : pc[x] = "waitlocation" /\ result[x] = None},
    sent      <- [x \in Fetchers |-> IF pc[x] = "waitlocation" THEN result[x] ELSE None],
    cancelled <- {c \in Clients : ~connected[c]}

\* With one population inside the other, those who wait for either share its one result: no
\* result reaches those who wait for the other, and a client that hangs up takes neither with
\* it (handler.go, lines 338-345, 407-413 and 533-545).
IsCoalesced == ArchiveFlight!Spec /\ LocationFlight!Spec
=============================================================================
