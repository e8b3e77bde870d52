------------------------------ MODULE Prewarm ------------------------------
(***************************************************************************)
(* Pre-warming (internal/prewarm/prewarm.go): at start, the provider       *)
(* mirror's own handler is asked for every configured provider, a bounded  *)
(* number at a time: the versions index, then, for an entry with a         *)
(* version, its archives index and the zips of the wanted platforms.       *)
(*                                                                         *)
(* A request is answered from the cache or waits for a coalesced flight    *)
(* (internal/mirror/handler.go), which outlives it when ctx is cancelled.  *)
(* The handler is modelled in detail by VersionsIndex, ArchivesIndex and   *)
(* ZipMirror; here it is as coarse as pre-warming can tell.                *)
(***************************************************************************)
EXTENDS Shared, Sequences, FiniteSets

CONSTANTS
    Entries,       \* the configured providers, in order; None is one that does not parse
    Refused,       \* in an entry: a path whose coordinates the handler refuses
    MaxConcurrency

\* What an entry asks for, by its key in the cache.
Paths == Keys \cup {Refused}

ASSUME EntriesAssumption ==
    /\ Entries \in Seq([versions : Paths, archives : Paths \cup {None}, zips : Seq(Paths)] \cup {None})
    /\ Refused \notin Keys /\ Refused # None
    /\ MaxConcurrency \in Nat \ {0}

VARIABLES
    next,    \* the entry the loop of Run is at
    stage,   \* stage[e]: what entry e is warming
    zip,     \* zip[e]: the position of the zip it warms, in the order of the wanted platforms
    request, \* request[e]: where its request is in the handler
    reply,   \* reply[e]: what the flight has sent it, or None
    flights, \* the coalesced fetches under way
    \* History, for the properties.
    failed,  \* the entries a request of which has failed
    troubled \* those whose requests upstream or the staging disk failed, or the handler refused

prewarm == <<next, stage, zip, request, reply, flights, failed, troubled>>

Index    == DOMAIN Entries
Stages   == {"idle", "versions", "archives", "zips", "done"}
Requests == {"send", "wait", "stale", "direct"} \* "stale": waits, with an expired copy at hand
Replies  == {"ok", "notfound", "error"}

PrewarmInit ==
    /\ next = 1
    /\ stage = [e \in Index |-> "idle"]
    /\ zip = [e \in Index |-> 1]
    /\ request = [e \in Index |-> "send"]
    /\ reply = [e \in Index |-> None]
    /\ flights = {} /\ failed = {} /\ troubled = {}

Running == {e \in Index : stage[e] \in {"versions", "archives", "zips"}}

\* What entry e is warming.
Key(e) ==
    CASE stage[e] = "versions" -> Entries[e].versions
      [] stage[e] = "archives" -> Entries[e].archives
      [] OTHER                 -> Entries[e].zips[zip[e]]

-----------------------------------------------------------------------------
(* Run and warmProvider *)

\* Mutant: the slot is taken inside the goroutine.
LaunchUnbounded ==
    /\ next \in Index
    /\ next' = next + 1
    /\ \/ Entries[next] = None /\ UNCHANGED stage
       \/ Entries[next] # None /\ stage' = [stage EXCEPT ![next] = "versions"]
    /\ UNCHANGED <<shared, zip, request, reply, flights, failed, troubled>>

\* The loop skips an entry that does not parse, and starts any other once it has a slot, for
\* which it waits without watching ctx.
Launch ==
    /\ next \in Index
    /\ next' = next + 1
    /\ \/ Entries[next] = None /\ UNCHANGED stage
       \/ /\ Entries[next] # None
          /\ Cardinality(Running) < MaxConcurrency
          /\ stage' = [stage EXCEPT ![next] = "versions"]
    /\ UNCHANGED <<shared, zip, request, reply, flights, failed, troubled>>

\* The loop over the platforms goes on from a position, past those the index does not list.
WarmZips(e, from) ==
    \E n \in from..Len(Entries[e].zips) + 1 :
        /\ zip' = [zip EXCEPT ![e] = n]
        /\ stage' = [stage EXCEPT ![e] = IF n > Len(Entries[e].zips) THEN "done" ELSE "zips"]

\* e's request is answered.  Without an index there is nothing more to warm; a zip that fails
\* leaves the next.
Answered(e, ok) ==
    /\ failed' = IF ok THEN failed ELSE failed \cup {e}
    /\ request' = [request EXCEPT ![e] = "send"]
    /\ reply' = [reply EXCEPT ![e] = None]
    /\ \/ /\ stage[e] = "versions"
          /\ stage' = [stage EXCEPT ![e] =
                          IF ok /\ Entries[e].archives # None THEN "archives" ELSE "done"]
          /\ UNCHANGED zip
       \/ stage[e] = "archives" /\ ok /\ WarmZips(e, 1)
       \/ /\ stage[e] = "archives" /\ ~ok
          /\ stage' = [stage EXCEPT ![e] = "done"]
          /\ UNCHANGED zip
       \/ stage[e] = "zips" /\ WarmZips(e, zip[e] + 1)
    /\ UNCHANGED next

-----------------------------------------------------------------------------
(* The handler, as pre-warming uses it *)

Waiting(e) == e \in Running /\ request[e] \in {"wait", "stale"}

Coalesce(e, how) ==
    /\ request' = [request EXCEPT ![e] = how]
    /\ flights' = flights \cup {Key(e)}
    /\ UNCHANGED <<next, stage, zip, reply, failed>>

\* A 400 or 404 for coordinates that are malformed or not served, before anything else.
Reject(e) ==
    /\ e \in Running /\ request[e] = "send"
    /\ Key(e) = Refused
    /\ Answered(e, FALSE)
    /\ troubled' = troubled \cup {e}
    /\ UNCHANGED <<shared, flights>>

\* Answered from the cache, or not: the file is missing, unreadable, or a versions index that
\* has expired.
Send(e) ==
    /\ e \in Running /\ request[e] = "send"
    /\ Key(e) # Refused
    /\ \/ Read(Key(e)) /\ Answered(e, TRUE) /\ UNCHANGED flights
       \/ Read(Key(e)) /\ stage[e] = "versions" /\ Coalesce(e, "stale")
       \/ /\ files[Key(e)] = None \/ "read" \in Faulty
          /\ Coalesce(e, "wait")
          /\ UNCHANGED files
    /\ UNCHANGED <<now, fresh, stopping, served, troubled>>

\* Mutant: a zip that was populated but is not in the cache is an error.
ReceiveFromCacheOnly(e) ==
    /\ Waiting(e) /\ reply[e] # None
    /\ \/ /\ reply[e] = "ok" /\ stage[e] # "zips"
          /\ Answered(e, TRUE) /\ UNCHANGED files
       \/ /\ reply[e] = "ok" /\ stage[e] = "zips"
          /\ Read(Key(e)) /\ Answered(e, TRUE)
       \/ /\ reply[e] = "ok" /\ stage[e] = "zips"
          /\ files[Key(e)] = None \/ "read" \in Faulty
          /\ Answered(e, FALSE) /\ UNCHANGED files
       \/ /\ reply[e] # "ok"
          /\ Answered(e, request[e] = "stale" /\ reply[e] = "error") /\ UNCHANGED files
    /\ UNCHANGED <<now, fresh, stopping, served, flights, troubled>>

\* The flight's result.  A zip is then streamed from the cache, or fetched once more, directly.
\* An expired versions index is served instead of an error, but not of a definitive not-found.
Receive(e) ==
    /\ Waiting(e) /\ reply[e] # None
    /\ \/ /\ reply[e] = "ok" /\ stage[e] # "zips"
          /\ Answered(e, TRUE) /\ UNCHANGED files
       \/ /\ reply[e] = "ok" /\ stage[e] = "zips"
          /\ Read(Key(e)) /\ Answered(e, TRUE)
       \/ /\ reply[e] = "ok" /\ stage[e] = "zips"
          /\ files[Key(e)] = None \/ "read" \in Faulty
          /\ request' = [request EXCEPT ![e] = "direct"]
          /\ reply' = [reply EXCEPT ![e] = None]
          /\ UNCHANGED <<files, next, stage, zip, failed>>
       \/ /\ reply[e] # "ok"
          /\ Answered(e, request[e] = "stale" /\ reply[e] = "error") /\ UNCHANGED files
    /\ UNCHANGED <<now, fresh, stopping, served, flights, troubled>>

\* Mutant: the request waits for the flight whatever becomes of ctx.
GiveUpNever(e) == FALSE /\ Answered(e, FALSE)

\* ctx is cancelled: the request waits no longer, the flight goes on.
GiveUp(e) ==
    /\ Waiting(e) /\ stopping
    /\ Answered(e, request[e] = "stale")
    /\ UNCHANGED <<shared, flights, troubled>>

\* fetchAndServeZip, under ctx: it is answered, with an error if the staged file cannot be
\* rewound to be served, although it may have been cached by then; or there is no archive...
FetchDirectly(e) ==
    /\ e \in Running /\ request[e] = "direct"
    /\ \/ TryWrite(Key(e)) /\ Answered(e, TRUE) /\ UNCHANGED troubled
       \/ /\ "staging" \in Faulty
          /\ Write(Key(e)) \/ UNCHANGED <<files, fresh>>
          /\ \/ Answered(e, TRUE) /\ UNCHANGED troubled
             \/ Answered(e, FALSE) /\ troubled' = troubled \cup {e}
       \/ /\ "upstream" \in Faulty
          /\ Answered(e, FALSE)
          /\ troubled' = troubled \cup {e}
          /\ UNCHANGED <<files, fresh>>
    /\ UNCHANGED <<now, stopping, served, flights>>

\* ... or cut short.
CancelDirect(e) ==
    /\ e \in Running /\ request[e] = "direct" /\ stopping
    /\ Answered(e, FALSE)
    /\ UNCHANGED <<shared, flights, troubled>>

\* Only zips are staged on disk.
IsZip(k) ==
    \E e \in Index : Entries[e] # None /\ \E i \in DOMAIN Entries[e].zips : Entries[e].zips[i] = k

\* The entries that wait for k.
Told(k) == {e \in Index : Waiting(e) /\ Key(e) = k /\ reply[e] = None}

\* A flight ends: with the document stored, or at least in hand, or with upstream's failure or
\* the staging disk's.
EndFlight(k) ==
    /\ k \in flights
    /\ flights' = flights \ {k}
    /\ \E outcome \in Replies :
        /\ reply' = [e \in Index |-> IF e \in Told(k) THEN outcome ELSE reply[e]]
        /\ \/ outcome = "ok" /\ TryWrite(k) /\ UNCHANGED troubled
           \/ /\ outcome # "ok"
              /\ \/ "upstream" \in Faulty
                 \/ outcome = "error" /\ IsZip(k) /\ "staging" \in Faulty
              /\ troubled' = troubled \cup Told(k)
              /\ UNCHANGED <<files, fresh>>
    /\ UNCHANGED <<now, stopping, served, next, stage, zip, request, failed>>

-----------------------------------------------------------------------------
Handle(e) == Reject(e) \/ Send(e) \/ Receive(e) \/ GiveUp(e) \/ CancelDirect(e)

Warm ==
    \/ Launch
    \/ \E e \in Index : Handle(e) \/ FetchDirectly(e)
    \/ \E k \in Keys : EndFlight(k)

-----------------------------------------------------------------------------
(* Properties *)

PrewarmTypeOK ==
    /\ next \in 1..Len(Entries) + 1
    /\ stage \in [Index -> Stages]
    /\ zip \in [Index -> Nat]
    /\ request \in [Index -> Requests]
    /\ reply \in [Index -> Replies \cup {None}]
    /\ flights \subseteq Keys /\ failed \subseteq Index /\ troubled \subseteq Index
    /\ Cardinality(Running) <= MaxConcurrency

\* wg.Wait returns.
Returned == next \notin Index /\ Running = {}

\* Pre-warming fails for an entry only when upstream or the staging disk failed it or the handler
\* refuses one of its paths, as long as ctx is not cancelled: files that cannot be read or
\* written, or are evicted between the population and the read, never make it fail
\* (mirror/handler.go, lines 409-419).
WarmFailuresHaveACause == stopping \/ failed \subseteq troubled
=============================================================================
