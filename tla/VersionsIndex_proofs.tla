------------------------- MODULE VersionsIndex_proofs -------------------------
(***************************************************************************)
(* The safety properties of VersionsIndex as theorems, for any number of   *)
(* requests and of versions, any TTL, any duration of a fetch and any      *)
(* faults of upstream and the cache.                                       *)
(***************************************************************************)
EXTENDS VersionsIndex, FiniteSetTheorems, TLAPS

-----------------------------------------------------------------------------
(* Types *)

\* What upstream has published is what it lists.
ListOK ==
    /\ List \in Index
    /\ DOMAIN born = 1..List
    /\ \A v \in 1..List : born[v] \in 0..now

RequestsOK ==
    /\ pc \in [Requests -> Steps]
    /\ loaded \in [Requests -> Envelope \cup {None}]
    /\ led \in [Requests -> BOOLEAN]
    /\ result \in [Requests -> Results \cup {None}]
    /\ answer \in [Requests -> Answers]

RestOK ==
    /\ now \in 0..MaxTime
    /\ cache \in Envelope \cup {None}
    /\ connected \in [Requests -> BOOLEAN]
    /\ fpc \in FetchSteps
    /\ fetched \in Index \cup {None}
    /\ fpc \in {"store", "finish"} => fetched # None
    /\ since \in 0..now
    /\ waiters \subseteq Requests
    /\ asked \in [Requests -> 0..now]
    /\ failed \in BOOLEAN
    /\ fetches \in Nat

TInv == ListOK /\ RequestsOK /\ RestOK

\* The sets of values do not depend on the state.
LEMMA Rigid == UNCHANGED <<Index, Envelope, Results, Answers>>
  BY DEF Index, Envelope, Results, Answers

LEMMA TInvImplies == TInv => TypeOK
  BY DEF TInv, ListOK, RequestsOK, RestOK, TypeOK

LEMMA Clock == IndexTTL \in Nat /\ MaxTime \in Nat /\ MaxFetch \in Nat /\ MaxVersions \in Nat
  BY ClockAssumption

LEMMA TypeInit == Init => TInv
<1> SUFFICES ASSUME Init PROVE TInv
  OBVIOUS
<1>1. DOMAIN born = {} /\ List = 0
  BY FS_EmptySet DEF Init, List
<1>2. ListOK
  BY <1>1, Clock DEF Index, ListOK
<1>3. NoAnswer \in Answers
  BY DEF NoAnswer, Answers
<1>4. RequestsOK
  BY <1>3 DEF Init, RequestsOK, Steps
<1>5. RestOK
  <2>1. asked \in [Requests -> 0..now] /\ since \in 0..now /\ now \in 0..MaxTime
    BY Clock DEF Init
  <2> QED
    BY <2>1 DEF Init, RestOK, FetchSteps
<1> QED
  BY <1>2, <1>4, <1>5 DEF TInv

\* Upstream's list is a function of what it has published.
LEMMA ListStays ==
    ASSUME TInv, UNCHANGED born, now <= now', now' \in 0..MaxTime
    PROVE  UNCHANGED List /\ ListOK'
<1>1. UNCHANGED List
  BY DEF List
<1>2. \A v \in 1..List' : born'[v] \in 0..now'
  BY <1>1, Clock DEF TInv, ListOK, RestOK
<1> QED
  BY <1>1, <1>2 DEF TInv, ListOK

LEMMA ListGrows ==
    ASSUME TInv, Publish
    PROVE  /\ List' = List + 1 /\ ListOK'
           /\ \A v \in 1..List' : born'[v] = IF v <= List THEN born[v] ELSE now
<1>1. List + 1 \in Index /\ DOMAIN born' = 1..List + 1
  BY Clock DEF TInv, ListOK, Publish, Index
<1>2. IsFiniteSet(1..List + 1) /\ Cardinality(1..List + 1) = List + 1
  BY <1>1, FS_Interval DEF Index
<1>3. List' = List + 1
  BY <1>1, <1>2 DEF List
<1>4. \A v \in 1..List' : born'[v] = IF v <= List THEN born[v] ELSE now
  BY <1>3 DEF Publish
<1>5. \A v \in 1..List' : born'[v] \in 0..now'
  BY <1>1, <1>3, <1>4, Clock DEF TInv, ListOK, RestOK, Publish, Index
<1> QED
  BY <1>1, <1>3, <1>4, <1>5 DEF ListOK

LEMMA RespondType ==
    ASSUME RequestsOK, NEW r \in Requests,
           NEW xcache \in {"HIT", "MISS", "STALE", "404", "502"}, NEW body \in Index \cup {None},
           NEW outcome \in {"fresh", "revalidated", "coalesced", "stale", "error"},
           Respond(r, xcache, body, outcome)
    PROVE  RequestsOK'
<1>1. [xcache |-> xcache, body |-> body, outcome |-> outcome] \in Answers
  BY DEF Answers
<1> QED
  BY <1>1, Rigid DEF RequestsOK, Respond, Steps

LEMMA FailedAnswerType ==
    ASSUME RequestsOK, NEW r \in Requests, NEW error, FailedAnswer(r, error)
    PROVE  RequestsOK'
<1>1. CASE error # "notfound" /\ loaded[r] # None
  <2>1. loaded[r].body \in Index
    BY <1>1, Rigid DEF RequestsOK, Envelope
  <2> QED
    BY <1>1, <2>1, RespondType DEF FailedAnswer
<1>2. CASE ~(error # "notfound" /\ loaded[r] # None)
  BY <1>2, RespondType DEF FailedAnswer
<1> QED
  BY <1>1, <1>2

LEMMA TypeOfHandle ==
    ASSUME TInv, NEW r \in Requests, Handle(r)
    PROVE  TInv'
<1>1. UNCHANGED <<now, born>>
  BY DEF Handle, Load, Join, Receive, GiveUp
<1>2. ListOK'
  BY <1>1, ListStays, Rigid DEF TInv, RestOK
<1>3. CASE Load(r)
  <2>1. ASSUME cache # None, Respond(r, "HIT", cache.body, "fresh")
        PROVE  RequestsOK'
    <3>1. cache.body \in Index
      BY <2>1, Rigid DEF TInv, RestOK, Envelope
    <3> QED
      BY <2>1, <3>1, RespondType, Rigid DEF TInv
  <2>2. ASSUME loaded' = [loaded EXCEPT ![r] = cache] \/ UNCHANGED loaded,
               pc' = [pc EXCEPT ![r] = "join"], UNCHANGED <<led, result, answer>>
        PROVE  RequestsOK'
    BY <2>2, Rigid DEF TInv, RequestsOK, RestOK, Steps
  <2>3. RequestsOK'
    BY <1>3, <2>1, <2>2 DEF Load
  <2> QED
    BY <1>2, <1>3, <2>3, Rigid DEF Load, TInv, RestOK, fetch
<1>4. CASE Join(r)
  <2>1. RequestsOK'
    BY <1>4, Rigid DEF Join, TInv, RequestsOK, Steps
  <2> QED
    BY <1>2, <1>4, <2>1, Rigid DEF Join, TInv, RestOK, FetchSteps
<1>5. CASE Receive(r)
  <2>1. ASSUME FailedAnswer(r, result[r].error) PROVE RequestsOK'
    BY <2>1, FailedAnswerType, Rigid DEF TInv
  <2>2. ASSUME Respond(r, "MISS", result[r].body, IF led[r] THEN "revalidated" ELSE "coalesced")
        PROVE  RequestsOK'
    <3>1. result[r].body \in Index \cup {None}
      BY <1>5, Rigid DEF Receive, TInv, RequestsOK, Results
    <3> QED
      BY <2>2, <3>1, RespondType, Rigid DEF TInv
  <2>3. RequestsOK'
    BY <1>5, <2>1, <2>2 DEF Receive
  <2> QED
    BY <1>2, <1>5, <2>3, Rigid DEF Receive, TInv, RestOK, fetch
<1>6. CASE GiveUp(r)
  <2>1. RequestsOK'
    BY <1>6, FailedAnswerType, Rigid DEF GiveUp, TInv
  <2> QED
    BY <1>2, <1>6, <2>1, Rigid DEF GiveUp, TInv, RestOK
<1> QED
  BY <1>3, <1>4, <1>5, <1>6 DEF Handle

LEMMA FinishType ==
    ASSUME TInv, NEW error \in {"none", "error", "notfound"}, NEW body \in Index \cup {None},
           Finish(error, body), UNCHANGED <<now, pc, loaded, led, answer>>
    PROVE  /\ RequestsOK' /\ waiters' \subseteq Requests /\ since' \in 0..now'
           /\ fpc' = "none" /\ fetched' \in Index \cup {None}
<1>1. [error |-> error, body |-> body] \in Results
  BY DEF Results
<1>2. result' \in [Requests -> Results \cup {None}]
  BY <1>1, Rigid DEF Finish, TInv, RequestsOK
<1> QED
  BY <1>2, Rigid DEF Finish, TInv, RequestsOK, RestOK, FetchSteps

LEMMA TypeOfFetch ==
    ASSUME TInv, Fetch
    PROVE  TInv'
<1>1. UNCHANGED <<now, born>>
  BY DEF Fetch, ListVersions, StoreVersions, EndFetch
<1>2. ListOK'
  BY <1>1, ListStays, Rigid DEF TInv, RestOK
<1>3. CASE ListVersions
  <2>1. CASE fetched' = List /\ fpc' = "store" /\ UNCHANGED <<result, since, waiters>>
    <3>1. List \in Index /\ List # None
      BY NoneAssumption DEF TInv, ListOK
    <3>2. failed' \in BOOLEAN
      BY <1>3, Zenon DEF ListVersions, TInv, RestOK
    <3>3. RequestsOK'
      BY <1>3, <2>1, Rigid DEF ListVersions, TInv, RequestsOK
    <3>4. fetches' \in Nat /\ since' \in 0..now' /\ asked' \in [Requests -> 0..now'] /\ now' \in 0..MaxTime
      BY <1>3, <2>1 DEF ListVersions, TInv, RestOK
    <3>5. RestOK'
      BY <1>3, <2>1, <3>1, <3>2, <3>4, Rigid DEF ListVersions, TInv, RestOK, FetchSteps
    <3> QED
      BY <1>2, <3>3, <3>5 DEF TInv
  <2>2. CASE \E error \in Failing : Finish(error, None)
    <3>1. PICK error \in {"error", "notfound"} : Finish(error, None)
      BY <2>2, EnvironmentAssumption
    <3> QED
      BY <1>2, <1>3, <3>1, FinishType, Rigid DEF ListVersions, TInv, RestOK, FetchSteps
  <2> QED
    BY <1>3, <2>1, <2>2 DEF ListVersions
<1>4. CASE StoreVersions
  <2>1. cache' \in Envelope \cup {None}
    BY <1>4 DEF StoreVersions, TInv, RestOK, Envelope
  <2> QED
    BY <1>2, <1>4, <2>1, Rigid DEF StoreVersions, TInv, RequestsOK, RestOK, FetchSteps, requests
<1>5. CASE EndFetch
  BY <1>2, <1>5, FinishType, Rigid DEF EndFetch, TInv, RestOK, FetchSteps
<1> QED
  BY <1>3, <1>4, <1>5 DEF Fetch

LEMMA TypeStep == TInv /\ [Next]_vars => TInv'
<1> SUFFICES ASSUME TInv, [Next]_vars PROVE TInv'
  OBVIOUS
<1>1. CASE \E r \in Requests : Handle(r)
  BY <1>1, TypeOfHandle
<1>2. CASE Fetch
  BY <1>2, TypeOfFetch
<1>3. CASE Tick
  <2>1. ListOK'
    BY <1>3, ListStays, Clock, Rigid DEF Tick, TInv, RestOK
  <2> QED
    BY <1>3, <2>1, Clock, Rigid DEF Tick, TInv, RequestsOK, RestOK, requests, fetch
<1>4. CASE Publish
  BY <1>4, ListGrows, Rigid DEF Publish, TInv, RequestsOK, RestOK, requests, fetch
<1>5. CASE (\E r \in Requests : HangUp(r)) \/ Evict \/ UNCHANGED vars
  <2>1. UNCHANGED <<now, born, pc, loaded, led, result, answer, asked, fetch, failed, fetches>>
    BY <1>5 DEF HangUp, Evict, vars, requests
  <2>2. ListOK'
    BY <2>1, ListStays, Rigid DEF TInv, RestOK
  <2> QED
    BY <1>5, <2>1, <2>2, Rigid DEF TInv, RequestsOK, RestOK, HangUp, Evict, vars, requests, fetch
<1> QED
  BY <1>1, <1>2, <1>3, <1>4, <1>5 DEF Next

\* Every variable holds a value of its type.
THEOREM TypeCorrect == Spec => []TypeOK
  BY TInvImplies, TypeInit, TypeStep, PTL DEF Spec

-----------------------------------------------------------------------------
(* The coalesced call *)

\* Only requests that wait, and have no result yet, are waiters, one of them the leader; a
\* request that has not joined leads nothing, and has neither a result nor an answer.
Coalesced ==
    /\ fpc = "none" => waiters = {}
    /\ \A r \in waiters : pc[r] = "wait" /\ result[r] = None
    /\ \A r, s \in waiters : led[r] /\ led[s] => r = s
    /\ \A r \in Requests : pc[r] \in {"start", "join"} => ~led[r] /\ result[r] = None
    /\ \A r \in Requests : pc[r] # "done" => answer[r] = NoAnswer

CInv == TInv /\ Coalesced

LEMMA CInit == Init => CInv
<1> SUFFICES ASSUME Init PROVE CInv
  OBVIOUS
<1>1. TInv
  BY TypeInit
<1> QED
  BY <1>1 DEF Init, CInv, Coalesced

LEMMA CFinish ==
    ASSUME CInv, NEW error, NEW body, Finish(error, body), UNCHANGED <<pc, led, answer>>
    PROVE  Coalesced'
  BY DEF CInv, TInv, RequestsOK, RestOK, Coalesced, Finish, NoAnswer

LEMMA CRespond ==
    ASSUME CInv, NEW r \in Requests, NEW xcache, NEW body, NEW outcome,
           Respond(r, xcache, body, outcome), waiters' = waiters \ {r}, UNCHANGED fpc
    PROVE  Coalesced'
  BY DEF CInv, TInv, RequestsOK, RestOK, Coalesced, Respond, NoAnswer

\* A request that fails responds somehow.
LEMMA FailedAnswerResponds ==
    ASSUME NEW r \in Requests, NEW error, FailedAnswer(r, error)
    PROVE  \E xcache \in {"STALE", "404", "502"}, outcome \in {"stale", "error"} :
               \E body \in {loaded[r].body, None} : Respond(r, xcache, body, outcome)
  BY DEF FailedAnswer

LEMMA CStep == CInv /\ [Next]_vars => CInv'
<1> SUFFICES ASSUME CInv, [Next]_vars PROVE CInv'
  OBVIOUS
<1>1. TInv'
  BY TypeStep DEF CInv
<1> SUFFICES Coalesced'
  BY <1>1 DEF CInv
<1>2. ASSUME NEW r \in Requests, Load(r) PROVE Coalesced'
  <2>1. r \notin waiters
    BY <1>2 DEF Load, CInv, Coalesced
  <2>2. ASSUME Respond(r, "HIT", cache.body, "fresh") PROVE Coalesced'
    BY <1>2, <2>1, <2>2, CRespond DEF Load, fetch
  <2>3. ASSUME pc' = [pc EXCEPT ![r] = "join"], UNCHANGED <<led, result, answer>>
        PROVE  Coalesced'
    BY <1>2, <2>1, <2>3 DEF Load, CInv, TInv, RequestsOK, Coalesced, fetch, NoAnswer
  <2> QED
    BY <1>2, <2>2, <2>3 DEF Load
<1>3. ASSUME NEW r \in Requests, Join(r) PROVE Coalesced'
  BY <1>3 DEF Join, CInv, TInv, RequestsOK, RestOK, Coalesced, NoAnswer
<1>4. ASSUME NEW r \in Requests, Receive(r) PROVE Coalesced'
  <2>1. waiters' = waiters \ {r} /\ UNCHANGED fpc
    BY <1>4 DEF Receive, CInv, Coalesced, fetch
  <2> QED
    BY <1>4, <2>1, CRespond, FailedAnswerResponds DEF Receive
<1>5. ASSUME NEW r \in Requests, GiveUp(r) PROVE Coalesced'
  BY <1>5, CRespond, FailedAnswerResponds DEF GiveUp
<1>6. CASE ListVersions
  <2>1. ASSUME fpc' = "store", UNCHANGED <<result, waiters>> PROVE Coalesced'
    BY <1>6, <2>1 DEF ListVersions, CInv, Coalesced, NoAnswer
  <2> QED
    BY <1>6, <2>1, CFinish DEF ListVersions
<1>7. CASE StoreVersions
  BY <1>7 DEF StoreVersions, CInv, Coalesced, requests, NoAnswer
<1>8. CASE EndFetch
  BY <1>8, CFinish DEF EndFetch
<1>9. CASE Tick \/ Publish \/ (\E r \in Requests : HangUp(r)) \/ Evict \/ UNCHANGED vars
  BY <1>9 DEF Tick, Publish, HangUp, Evict, vars, requests, fetch, CInv, Coalesced, NoAnswer
<1> QED
  BY <1>2, <1>3, <1>4, <1>5, <1>6, <1>7, <1>8, <1>9 DEF Next, Handle, Fetch

-----------------------------------------------------------------------------
(* Revalidations *)

\* The requests that have counted, or will count, a fetch upstream has answered.
Owed == {r \in Requests :
            \/ answer[r].outcome = "revalidated"
            \/ led[r] /\ result[r] # None /\ result[r].error = "none"
            \/ led[r] /\ r \in waiters /\ fpc \in {"store", "finish"}}

OwedIsCovered == IsFiniteSet(Owed) /\ Cardinality(Owed) <= fetches

OInv == CInv /\ OwedIsCovered

LEMMA OInit == Init => OInv
<1> SUFFICES ASSUME Init PROVE OInv
  OBVIOUS
<1>1. Owed = {}
  BY DEF Init, Owed, NoAnswer
<1>2. OwedIsCovered
  BY <1>1, FS_EmptySet DEF OwedIsCovered, Init
<1> QED
  BY <1>2, CInit DEF OInv

\* If nobody comes to owe a fetch the bound holds.
LEMMA OwedShrinks ==
    ASSUME OInv, Owed' \subseteq Owed, fetches' \in Nat, fetches <= fetches'
    PROVE  OwedIsCovered'
<1>1. IsFiniteSet(Owed') /\ Cardinality(Owed') <= Cardinality(Owed)
  BY FS_Subset DEF OInv, OwedIsCovered
<1>2. Cardinality(Owed') \in Nat /\ Cardinality(Owed) \in Nat
  BY <1>1, FS_CardinalityType DEF OInv, OwedIsCovered
<1> QED
  BY <1>1, <1>2 DEF OInv, OwedIsCovered, CInv, TInv, RestOK

LEMMA OwedOnResponse ==
    ASSUME OInv, NEW r \in Requests, NEW xcache, NEW body, NEW outcome,
           Respond(r, xcache, body, outcome), outcome = "revalidated" => r \in Owed,
           waiters' \subseteq waiters, UNCHANGED fpc
    PROVE  Owed' \subseteq Owed
  BY DEF Respond, Owed, OInv, CInv, TInv, RequestsOK

LEMMA OwedOnFinish ==
    ASSUME OInv, NEW error \in {"none", "error", "notfound"}, NEW body, Finish(error, body),
           error = "none" => fpc = "finish", UNCHANGED <<led, answer>>
    PROVE  Owed' \subseteq Owed
  BY DEF Finish, Owed, OInv, CInv, TInv, RequestsOK

LEMMA OStep == OInv /\ [Next]_vars => OInv'
<1> SUFFICES ASSUME OInv, [Next]_vars PROVE OInv'
  OBVIOUS
<1>1. CInv' /\ fetches' \in Nat
  BY CStep DEF OInv, CInv, TInv, RestOK
<1> SUFFICES OwedIsCovered'
  BY <1>1 DEF OInv
<1>2. ASSUME NEW r \in Requests, Load(r) PROVE Owed' \subseteq Owed /\ UNCHANGED fetches
  <2>1. ASSUME Respond(r, "HIT", cache.body, "fresh") PROVE Owed' \subseteq Owed
    BY <1>2, <2>1, OwedOnResponse DEF Load, fetch
  <2> QED
    BY <1>2, <2>1 DEF Load, fetch, Owed
<1>3. ASSUME NEW r \in Requests, Join(r) PROVE Owed' \subseteq Owed /\ UNCHANGED fetches
  BY <1>3 DEF Join, Owed, OInv, CInv, TInv, RequestsOK, RestOK, Coalesced
<1>4. ASSUME NEW r \in Requests, Receive(r) PROVE Owed' \subseteq Owed /\ UNCHANGED fetches
  <2>1. led[r] /\ result[r].error = "none" => r \in Owed
    BY <1>4 DEF Receive, Owed
  <2> QED
    BY <1>4, <2>1, OwedOnResponse, FailedAnswerResponds DEF Receive, fetch
<1>5. ASSUME NEW r \in Requests, GiveUp(r) PROVE Owed' \subseteq Owed /\ UNCHANGED fetches
  BY <1>5, OwedOnResponse, FailedAnswerResponds DEF GiveUp
<1>6. CASE ListVersions
  <2>1. CASE fpc' = "store" /\ fetches' = fetches + 1 /\ UNCHANGED <<result, waiters>>
    <3>1. CASE \E leader \in waiters : led[leader]
      <4>1. PICK leader \in waiters : led[leader]
        BY <3>1
      <4>2. Owed' \subseteq Owed \cup {leader}
        BY <1>6, <2>1, <4>1 DEF ListVersions, Owed, OInv, CInv, Coalesced
      <4>3. IsFiniteSet(Owed \cup {leader}) /\ Cardinality(Owed \cup {leader}) <= Cardinality(Owed) + 1
        BY FS_AddElement, FS_CardinalityType DEF OInv, OwedIsCovered
      <4>4. IsFiniteSet(Owed') /\ Cardinality(Owed') <= Cardinality(Owed \cup {leader})
        BY <4>2, <4>3, FS_Subset
      <4>5. Cardinality(Owed') \in Nat /\ Cardinality(Owed \cup {leader}) \in Nat /\ Cardinality(Owed) \in Nat
        BY <4>3, <4>4, FS_CardinalityType DEF OInv, OwedIsCovered
      <4> QED
        BY <2>1, <4>3, <4>4, <4>5 DEF OInv, OwedIsCovered, CInv, TInv, RestOK
    <3>2. CASE ~\E leader \in waiters : led[leader]
      <4>1. Owed' \subseteq Owed
        BY <1>6, <2>1, <3>2 DEF ListVersions, Owed
      <4> QED
        BY <1>1, <2>1, <4>1, OwedShrinks DEF OInv, CInv, TInv, RestOK
    <3> QED
      BY <3>1, <3>2
  <2>2. CASE (\E error \in Failing : Finish(error, None)) /\ UNCHANGED fetches
    <3>1. PICK error \in {"error", "notfound"} : Finish(error, None)
      BY <2>2, EnvironmentAssumption
    <3>2. Owed' \subseteq Owed
      BY <1>6, <3>1, OwedOnFinish DEF ListVersions
    <3> QED
      BY <1>1, <2>2, <3>2, OwedShrinks DEF OInv, CInv, TInv, RestOK
  <2> QED
    BY <1>6, <2>1, <2>2 DEF ListVersions
<1>7. CASE StoreVersions
  <2>1. Owed' \subseteq Owed /\ UNCHANGED fetches
    BY <1>7 DEF StoreVersions, Owed, requests
  <2> QED
    BY <1>1, <2>1, OwedShrinks DEF OInv, CInv, TInv, RestOK
<1>8. CASE EndFetch
  <2>1. Owed' \subseteq Owed /\ UNCHANGED fetches
    BY <1>8, OwedOnFinish DEF EndFetch
  <2> QED
    BY <1>1, <2>1, OwedShrinks DEF OInv, CInv, TInv, RestOK
<1>9. CASE Tick \/ Publish \/ (\E r \in Requests : HangUp(r)) \/ Evict \/ UNCHANGED vars
  <2>1. Owed' \subseteq Owed /\ UNCHANGED fetches
    BY <1>9 DEF Tick, Publish, HangUp, Evict, vars, requests, fetch, Owed
  <2> QED
    BY <1>1, <2>1, OwedShrinks DEF OInv, CInv, TInv, RestOK
<1>10. CASE \E r \in Requests : Handle(r)
  <2>1. Owed' \subseteq Owed /\ UNCHANGED fetches
    BY <1>2, <1>3, <1>4, <1>5, <1>10 DEF Handle
  <2> QED
    BY <1>1, <2>1, OwedShrinks DEF OInv, CInv, TInv, RestOK
<1> QED
  BY <1>6, <1>7, <1>8, <1>9, <1>10 DEF Next, Fetch

\* However many requests pile up, no two of them count the same fetch.
THEOREM RevalidatedTheorem == Spec => []RevalidatedTracksFetches
<1>1. OInv => RevalidatedTracksFetches
  <2> SUFFICES ASSUME OInv PROVE RevalidatedTracksFetches
    OBVIOUS
  <2> DEFINE counted == {r \in Requests : answer[r].outcome = "revalidated"}
  <2>1. counted \subseteq Owed
    BY DEF Owed
  <2>2. IsFiniteSet(counted) /\ Cardinality(counted) <= Cardinality(Owed)
    BY <2>1, FS_Subset DEF OInv, OwedIsCovered
  <2>3. Cardinality(counted) \in Nat /\ Cardinality(Owed) \in Nat
    BY <2>2, FS_CardinalityType DEF OInv, OwedIsCovered
  <2> QED
    BY <2>2, <2>3 DEF OInv, OwedIsCovered, RevalidatedTracksFetches, CInv, TInv, RestOK
<1> QED
  BY <1>1, OInit, OStep, PTL DEF Spec

-----------------------------------------------------------------------------
(* Degraded answers *)

\* A fetch reports an error only when upstream failed.
ErrorsMeanFailed == \A r \in Requests : result[r] # None /\ result[r].error # "none" => failed

DInv == TInv /\ ErrorsMeanFailed /\ DegradedMeansFailed

LEMMA DInit == Init => DInv
<1> SUFFICES ASSUME Init PROVE DInv
  OBVIOUS
<1>1. ErrorsMeanFailed /\ DegradedMeansFailed
  BY DEF Init, NoAnswer, ErrorsMeanFailed, DegradedMeansFailed
<1> QED
  BY <1>1, TypeInit DEF DInv

LEMMA DRespond ==
    ASSUME DInv, NEW r \in Requests, NEW xcache, NEW body, NEW outcome,
           Respond(r, xcache, body, outcome), UNCHANGED <<connected, failed>>,
           xcache \in {"HIT", "MISS"} \/ failed \/ ~connected[r]
    PROVE  ErrorsMeanFailed' /\ DegradedMeansFailed'
  BY DEF DInv, TInv, RequestsOK, Respond, ErrorsMeanFailed, DegradedMeansFailed

LEMMA DStep == DInv /\ [Next]_vars => DInv'
<1> SUFFICES ASSUME DInv, [Next]_vars PROVE DInv'
  OBVIOUS
<1>1. TInv'
  BY TypeStep DEF DInv
<1> SUFFICES ErrorsMeanFailed' /\ DegradedMeansFailed'
  BY <1>1 DEF DInv
<1>2. ASSUME NEW r \in Requests, Handle(r) PROVE ErrorsMeanFailed' /\ DegradedMeansFailed'
  <2>1. UNCHANGED <<connected, failed>>
    BY <1>2 DEF Handle, Load, Join, Receive, GiveUp
  <2>2. ASSUME UNCHANGED <<result, answer>> PROVE ErrorsMeanFailed' /\ DegradedMeansFailed'
    BY <2>1, <2>2 DEF DInv, ErrorsMeanFailed, DegradedMeansFailed
  <2>3. ASSUME NEW error, FailedAnswer(r, error), failed \/ ~connected[r]
        PROVE  ErrorsMeanFailed' /\ DegradedMeansFailed'
    BY <2>1, <2>3, DRespond, FailedAnswerResponds
  <2>4. CASE Load(r)
    BY <2>1, <2>2, <2>4, DRespond DEF Load
  <2>5. CASE Join(r)
    BY <2>2, <2>5 DEF Join
  <2>6. CASE Receive(r)
    <3>1. CASE result[r].error # "none"
      BY <2>3, <2>6, <3>1 DEF Receive, DInv, ErrorsMeanFailed
    <3>2. CASE result[r].error = "none"
      BY <2>1, <2>6, <3>2, DRespond DEF Receive
    <3> QED
      BY <3>1, <3>2
  <2>7. CASE GiveUp(r)
    BY <2>3, <2>7 DEF GiveUp
  <2> QED
    BY <1>2, <2>4, <2>5, <2>6, <2>7 DEF Handle
<1>3. CASE Fetch
  <2>1. UNCHANGED <<connected, answer>>
    BY <1>3 DEF Fetch, ListVersions, StoreVersions, EndFetch, requests
  <2>2. CASE failed' = TRUE
    BY <2>2 DEF ErrorsMeanFailed, DegradedMeansFailed
  <2>3. CASE UNCHANGED failed /\ (UNCHANGED result \/ Finish("none", fetched))
    <3>1. ErrorsMeanFailed'
      BY <2>3 DEF DInv, ErrorsMeanFailed, Finish
    <3> QED
      BY <2>1, <2>3, <3>1 DEF DInv, DegradedMeansFailed
  <2> QED
    BY <1>3, <2>2, <2>3 DEF Fetch, ListVersions, StoreVersions, EndFetch, requests
<1>4. CASE Tick \/ Publish \/ (\E r \in Requests : HangUp(r)) \/ Evict \/ UNCHANGED vars
  <2>1. UNCHANGED <<result, answer, failed>> /\ \A r \in Requests : connected'[r] => connected[r]
    BY <1>4 DEF Tick, Publish, HangUp, Evict, vars, requests, DInv, TInv, RestOK
  <2> QED
    BY <2>1 DEF DInv, ErrorsMeanFailed, DegradedMeansFailed
<1> QED
  BY <1>2, <1>3, <1>4 DEF Next

\* A client that stayed is served stale, or refused, only if upstream failed.
THEOREM DegradedTheorem == Spec => []DegradedMeansFailed
<1>1. DInv => DegradedMeansFailed
  BY DEF DInv
<1> QED
  BY <1>1, DInit, DStep, PTL DEF Spec

-----------------------------------------------------------------------------
(* Freshness *)

\* What is under way is recent: a fetch does not outlast MaxFetch, its waiters asked before
\* it was that old, and what it read lists everything published before it began.
FetchIsRecent ==
    /\ fpc # "none" => now - since <= MaxFetch
    /\ \A r \in waiters : asked[r] <= since + MaxFetch
    /\ fetched # None => /\ fpc \in {"store", "finish"}
                         /\ fetched <= List
                         /\ \A v \in 1..List : v > fetched => born[v] >= since

\* The envelope lists everything published a fetch before its stamp, and the fetch under way
\* read as much at least.
CacheIsRecent ==
    cache # None =>
        /\ cache.at <= now /\ cache.body <= List
        /\ fetched # None => cache.body <= fetched
        /\ \A v \in 1..List : v > cache.body => born[v] >= cache.at - MaxFetch

\* So does a result, of what was published a fetch before its request looked.
ResultsAreRecent ==
    \A r \in Requests : result[r] # None /\ result[r].error = "none" =>
        /\ result[r].body \in Index
        /\ \A v \in 1..List : v > result[r].body => born[v] >= asked[r] - MaxFetch

AnswersAreRecent ==
    \A r \in Requests : answer[r].xcache \in {"HIT", "MISS"} =>
        /\ answer[r].body \in Index
        /\ IndexTTL > 0 => \A v \in 1..List : v > answer[r].body =>
                               born[v] >= asked[r] - IndexTTL - MaxFetch + 1

FInv == CInv /\ FetchIsRecent /\ CacheIsRecent /\ ResultsAreRecent /\ AnswersAreRecent

LEMMA FInit == Init => FInv
<1> SUFFICES ASSUME Init PROVE FInv
  OBVIOUS
<1>1. FetchIsRecent /\ CacheIsRecent /\ ResultsAreRecent /\ AnswersAreRecent
  BY DEF Init, NoAnswer, FetchIsRecent, CacheIsRecent, ResultsAreRecent, AnswersAreRecent
<1> QED
  BY <1>1, CInit DEF FInv

\* What the invariant needs to know of the types.
LEMMA Numbers ==
    ASSUME TInv
    PROVE  /\ now \in Nat /\ since \in Nat /\ List \in Nat /\ IndexTTL \in Nat /\ MaxFetch \in Nat
           /\ \A v \in 1..List : born[v] \in Nat
           /\ \A r \in Requests : asked[r] \in Nat /\ asked[r] <= now
           /\ cache # None => cache.at \in Nat /\ cache.body \in Nat /\ cache.body \in Index
           /\ fetched # None => fetched \in Nat /\ fetched \in Index
  BY Clock DEF TInv, ListOK, RestOK, Envelope, Index

\* Nothing is published, and of upstream and the cache r sees nothing new.
LEMMA FRespond ==
    ASSUME FInv, NEW r \in Requests, NEW xcache, NEW body, NEW outcome,
           Respond(r, xcache, body, outcome), UNCHANGED <<now, born, cache, fpc, fetched, since, asked>>,
           waiters' \subseteq waiters,
           xcache \in {"HIT", "MISS"} =>
               /\ body \in Index
               /\ IndexTTL > 0 => \A v \in 1..List : v > body =>
                                      born[v] >= asked[r] - IndexTTL - MaxFetch + 1
    PROVE  FetchIsRecent' /\ CacheIsRecent' /\ ResultsAreRecent' /\ AnswersAreRecent'
<1>1. UNCHANGED List
  BY DEF List
<1>2. FetchIsRecent'
  BY <1>1 DEF FInv, FetchIsRecent
<1>3. CacheIsRecent'
  BY <1>1 DEF FInv, CacheIsRecent
<1>4. ResultsAreRecent'
  BY <1>1, Rigid DEF FInv, CInv, TInv, RequestsOK, ResultsAreRecent, Respond
<1>5. AnswersAreRecent'
  BY <1>1, Rigid DEF FInv, CInv, TInv, RequestsOK, AnswersAreRecent, Respond
<1> QED
  BY <1>2, <1>3, <1>4, <1>5

LEMMA FLoad ==
    ASSUME FInv, NEW r \in Requests, Load(r)
    PROVE  FetchIsRecent' /\ CacheIsRecent' /\ ResultsAreRecent' /\ AnswersAreRecent'
<1>1. UNCHANGED List /\ r \notin waiters /\ result[r] = None /\ answer[r] = NoAnswer
  BY DEF Load, List, FInv, CInv, Coalesced
<1>2. asked' \in [Requests -> Nat] /\ asked'[r] = now /\ \A q \in Requests \ {r} : asked'[q] = asked[q]
  BY Numbers DEF Load, FInv, CInv, TInv, RestOK
<1>3. FetchIsRecent'
  BY <1>1, <1>2 DEF FInv, CInv, TInv, RestOK, FetchIsRecent, Load, fetch
<1>4. CacheIsRecent'
  BY <1>1 DEF FInv, CacheIsRecent, Load, fetch
<1>5. ResultsAreRecent'
  <2>1. \A q \in Requests : result'[q] # None => q # r /\ result'[q] = result[q]
    BY <1>1 DEF Load, Respond, FInv, CInv, TInv, RequestsOK
  <2> QED
    BY <1>1, <1>2, <2>1, Rigid DEF FInv, ResultsAreRecent, Load
<1>6. AnswersAreRecent'
  <2>1. \A q \in Requests \ {r} : answer'[q] = answer[q]
    BY DEF Load, Respond, FInv, CInv, TInv, RequestsOK
  <2>2. ASSUME answer'[r].xcache \in {"HIT", "MISS"}
        PROVE  /\ answer'[r].body \in Index
               /\ IndexTTL > 0 => \A v \in 1..List : v > answer'[r].body =>
                                      born[v] >= now - IndexTTL - MaxFetch + 1
    <3>1. cache # None /\ VersionsFresh(cache.at) /\ answer'[r].body = cache.body
      BY <1>1, <2>2 DEF Load, Respond, FInv, CInv, TInv, RequestsOK, NoAnswer
    <3>2. ASSUME IndexTTL > 0, NEW v \in 1..List, v > cache.body
          PROVE  born[v] >= now - IndexTTL - MaxFetch + 1
      BY <3>1, <3>2, Numbers DEF FInv, CInv, CacheIsRecent, VersionsFresh
    <3> QED
      BY <3>1, <3>2, Numbers DEF FInv, CInv
  <2> QED
    BY <1>1, <1>2, <2>1, <2>2, Rigid DEF FInv, AnswersAreRecent, Load
<1> QED
  BY <1>3, <1>4, <1>5, <1>6

LEMMA FHandle ==
    ASSUME FInv, NEW r \in Requests, Join(r) \/ Receive(r) \/ GiveUp(r)
    PROVE  FetchIsRecent' /\ CacheIsRecent' /\ ResultsAreRecent' /\ AnswersAreRecent'
<1>1. CASE Join(r)
  <2>1. UNCHANGED List
    BY <1>1 DEF Join, List
  <2>2. FetchIsRecent'
    BY <1>1, <2>1, Numbers DEF FInv, CInv, Coalesced, FetchIsRecent, Join
  <2>3. CacheIsRecent' /\ ResultsAreRecent' /\ AnswersAreRecent'
    BY <1>1, <2>1, Rigid DEF FInv, CacheIsRecent, ResultsAreRecent, AnswersAreRecent, Join
  <2> QED
    BY <2>2, <2>3
<1>2. CASE Receive(r)
  <2>1. UNCHANGED <<now, born, cache, fpc, fetched, since, waiters, asked>>
    BY <1>2 DEF Receive, fetch
  <2>2. CASE result[r].error # "none"
    BY <1>2, <2>1, <2>2, FRespond, FailedAnswerResponds DEF Receive
  <2>3. CASE result[r].error = "none"
    <3>1. result[r].body \in Index
      BY <1>2, <2>3 DEF Receive, FInv, ResultsAreRecent
    <3>2. ASSUME IndexTTL > 0, NEW v \in 1..List, v > result[r].body
          PROVE  born[v] >= asked[r] - IndexTTL - MaxFetch + 1
      BY <1>2, <2>3, <3>1, <3>2, Numbers DEF Receive, FInv, CInv, ResultsAreRecent
    <3> QED
      BY <1>2, <2>1, <2>3, <3>1, <3>2, FRespond DEF Receive
  <2> QED
    BY <2>2, <2>3
<1>3. CASE GiveUp(r)
  BY <1>3, FRespond, FailedAnswerResponds DEF GiveUp
<1> QED
  BY <1>1, <1>2, <1>3

\* The end of a fetch: its waiters are sent an error, or what it read.
LEMMA FFinish ==
    ASSUME FInv, NEW error, NEW body, Finish(error, body),
           UNCHANGED <<now, born, cache, answer, asked>>,
           error = "none" => body = fetched /\ fetched # None
    PROVE  FetchIsRecent' /\ CacheIsRecent' /\ ResultsAreRecent' /\ AnswersAreRecent'
<1>1. UNCHANGED List
  BY DEF List
<1>2. FetchIsRecent'
  BY DEF Finish, FetchIsRecent
<1>3. CacheIsRecent'
  BY <1>1 DEF Finish, FInv, CacheIsRecent
<1>4. AnswersAreRecent'
  BY <1>1, Rigid DEF FInv, AnswersAreRecent
<1>5. ASSUME NEW r \in Requests, result'[r] # None, result'[r].error = "none"
      PROVE  /\ result'[r].body \in Index
             /\ \A v \in 1..List : v > result'[r].body => born[v] >= asked[r] - MaxFetch
  <2>1. CASE r \in waiters
    <3>1. result'[r].body = fetched /\ fetched # None
      BY <1>5, <2>1 DEF Finish
    <3>2. ASSUME NEW v \in 1..List, v > fetched PROVE born[v] >= asked[r] - MaxFetch
      BY <2>1, <3>1, <3>2, Numbers DEF FInv, CInv, FetchIsRecent
    <3> QED
      BY <3>1, <3>2, Numbers DEF FInv, CInv
  <2>2. CASE r \notin waiters
    BY <1>5, <2>2 DEF Finish, FInv, ResultsAreRecent
  <2> QED
    BY <2>1, <2>2
<1>6. ResultsAreRecent'
  BY <1>1, <1>5, Rigid DEF ResultsAreRecent
<1> QED
  BY <1>2, <1>3, <1>4, <1>6

LEMMA FFetch ==
    ASSUME FInv, Fetch
    PROVE  FetchIsRecent' /\ CacheIsRecent' /\ ResultsAreRecent' /\ AnswersAreRecent'
<1>1. UNCHANGED List
  BY DEF Fetch, ListVersions, StoreVersions, EndFetch, List
<1>2. CASE ListVersions
  <2>1. ASSUME fetched' = List, fpc' = "store", UNCHANGED <<result, since, waiters>>
        PROVE  FetchIsRecent' /\ CacheIsRecent' /\ ResultsAreRecent' /\ AnswersAreRecent'
    <3>1. FetchIsRecent'
      BY <1>1, <1>2, <2>1, Numbers DEF ListVersions, FInv, CInv, FetchIsRecent
    <3>2. CacheIsRecent'
      BY <1>1, <1>2, <2>1, Numbers DEF ListVersions, FInv, CInv, CacheIsRecent
    <3>3. ResultsAreRecent' /\ AnswersAreRecent'
      BY <1>1, <1>2, <2>1, Rigid DEF ListVersions, FInv, ResultsAreRecent, AnswersAreRecent
    <3> QED
      BY <3>1, <3>2, <3>3
  <2>2. ASSUME \E error \in Failing : Finish(error, None)
        PROVE  FetchIsRecent' /\ CacheIsRecent' /\ ResultsAreRecent' /\ AnswersAreRecent'
    <3>1. PICK error \in {"error", "notfound"} : Finish(error, None)
      BY <2>2, EnvironmentAssumption
    <3> QED
      BY <1>2, <3>1, FFinish DEF ListVersions
  <2> QED
    BY <1>2, <2>1, <2>2 DEF ListVersions
<1>3. CASE StoreVersions
  <2>1. fetched # None /\ fetched \in Nat /\ fetched \in Index /\ now - since <= MaxFetch
    BY <1>3, Numbers DEF StoreVersions, FInv, CInv, TInv, RestOK, FetchIsRecent
  <2>2. FetchIsRecent'
    BY <1>1, <1>3 DEF StoreVersions, FInv, FetchIsRecent, requests
  <2>3. CacheIsRecent'
    <3>1. CASE cache' = [body |-> fetched, at |-> now]
      <4>1. fetched <= List
        BY <2>1 DEF FInv, FetchIsRecent
      <4> QED
        BY <1>1, <1>3, <2>1, <3>1, <4>1, Numbers DEF StoreVersions, FInv, CInv, CacheIsRecent, FetchIsRecent
    <3>2. CASE UNCHANGED cache
      BY <1>1, <1>3, <3>2 DEF StoreVersions, FInv, CacheIsRecent
    <3> QED
      BY <1>3, <3>1, <3>2 DEF StoreVersions
  <2>4. ResultsAreRecent' /\ AnswersAreRecent'
    BY <1>1, <1>3, Rigid DEF StoreVersions, FInv, ResultsAreRecent, AnswersAreRecent, requests
  <2> QED
    BY <2>2, <2>3, <2>4
<1>4. CASE EndFetch
  <2>1. fetched # None
    BY <1>4 DEF EndFetch, FInv, CInv, TInv, RestOK
  <2> QED
    BY <1>4, <2>1, FFinish DEF EndFetch
<1> QED
  BY <1>2, <1>3, <1>4 DEF Fetch

LEMMA FEnvironment ==
    ASSUME FInv, TInv', Tick \/ Publish \/ Evict \/ UNCHANGED <<now, born, cache, fetch, result, answer, asked>>
    PROVE  FetchIsRecent' /\ CacheIsRecent' /\ ResultsAreRecent' /\ AnswersAreRecent'
<1>1. UNCHANGED <<fetch, result, answer, asked>> /\ now <= now'
  BY Numbers DEF Tick, Publish, Evict, requests, FInv, CInv
<1>2. UNCHANGED cache \/ cache' = None
  BY DEF Tick, Publish, Evict
<1>3. /\ List' \in Nat /\ List <= List'
      /\ \A v \in 1..List' : born'[v] = IF v <= List THEN born[v] ELSE now
  <2>1. CASE Publish
    BY <2>1, ListGrows, Numbers DEF FInv, CInv
  <2>2. CASE UNCHANGED born
    BY <2>2, Numbers DEF List, FInv, CInv
  <2> QED
    BY <2>1, <2>2 DEF Tick, Evict
<1>4. FetchIsRecent'
  <2>1. fpc' # "none" => now' - since' <= MaxFetch
    BY <1>1, Numbers DEF Tick, Publish, Evict, FInv, CInv, FetchIsRecent, fetch
  <2>2. fetched # None => \A v \in 1..List' : v > fetched => born'[v] >= since
    BY <1>3, Numbers DEF FInv, CInv, TInv, RestOK, FetchIsRecent
  <2> QED
    BY <1>1, <1>3, <2>1, <2>2, Numbers DEF FInv, CInv, FetchIsRecent, fetch
<1>5. CacheIsRecent'
  <2>1. cache # None => \A v \in 1..List' : v > cache.body => born'[v] >= cache.at - MaxFetch
    BY <1>3, Numbers DEF FInv, CInv, CacheIsRecent
  <2>2. now' \in Nat
    BY Clock DEF TInv, RestOK
  <2>3. cache # None => cache.at <= now' /\ cache.body <= List'
    BY <1>1, <1>3, <2>2, Numbers DEF FInv, CInv, CacheIsRecent
  <2>4. fetched' = fetched
    BY <1>1 DEF fetch
  <2> QED
    BY <1>2, <2>1, <2>3, <2>4 DEF FInv, CacheIsRecent
<1>6. ResultsAreRecent'
  <2>1. ASSUME NEW r \in Requests, result[r] # None, result[r].error = "none",
               NEW v \in 1..List', v > result[r].body
        PROVE  born'[v] >= asked[r] - MaxFetch
    <3>1. result[r].body \in Nat
      BY <2>1 DEF FInv, ResultsAreRecent, Index
    <3> QED
      BY <1>3, <2>1, <3>1, Numbers DEF FInv, CInv, ResultsAreRecent
  <2> QED
    BY <1>1, <2>1, Rigid DEF FInv, ResultsAreRecent
<1>7. AnswersAreRecent'
  <2>1. ASSUME NEW r \in Requests, answer[r].xcache \in {"HIT", "MISS"}, IndexTTL > 0,
               NEW v \in 1..List', v > answer[r].body
        PROVE  born'[v] >= asked[r] - IndexTTL - MaxFetch + 1
    <3>1. answer[r].body \in Nat
      BY <2>1 DEF FInv, AnswersAreRecent, Index
    <3> QED
      BY <1>3, <2>1, <3>1, Numbers DEF FInv, CInv, AnswersAreRecent
  <2> QED
    BY <1>1, <2>1, Rigid DEF FInv, AnswersAreRecent
<1> QED
  BY <1>4, <1>5, <1>6, <1>7

LEMMA FStep == FInv /\ [Next]_vars => FInv'
<1> SUFFICES ASSUME FInv, [Next]_vars PROVE FInv'
  OBVIOUS
<1>1. CInv' /\ TInv'
  BY CStep DEF FInv, CInv
<1>2. CASE \E r \in Requests : Handle(r)
  BY <1>1, <1>2, FLoad, FHandle DEF Handle, FInv
<1>3. CASE Fetch
  BY <1>1, <1>3, FFetch DEF FInv
<1>4. CASE Tick \/ Publish \/ Evict
  BY <1>1, <1>4, FEnvironment DEF FInv
<1>5. CASE (\E r \in Requests : HangUp(r)) \/ UNCHANGED vars
  <2>1. UNCHANGED <<now, born, cache, fetch, result, answer, asked>>
    BY <1>5 DEF HangUp, vars, requests
  <2> QED
    BY <1>1, <2>1, FEnvironment DEF FInv
<1> QED
  BY <1>2, <1>3, <1>4, <1>5 DEF Next

\* An index that counts as current lists every version published a TTL and a fetch before the
\* request looked.
THEOREM LagTheorem == Spec => []LagIsBounded
<1>1. FInv => LagIsBounded
  <2> SUFFICES ASSUME FInv, IndexTTL > 0, NEW r \in Requests, answer[r].xcache \in {"HIT", "MISS"},
                      NEW v \in 1..List, born[v] < asked[r] - IndexTTL - MaxFetch + 1
               PROVE  v <= answer[r].body
    BY DEF LagIsBounded
  <2>1. answer[r].body \in Nat
    BY DEF FInv, AnswersAreRecent, Index
  <2> QED
    BY <2>1, Numbers DEF FInv, CInv, AnswersAreRecent
<1> QED
  BY <1>1, FInit, FStep, PTL DEF Spec

\* No step puts an older index, or an older stamp, over a newer one.
THEOREM CacheTheorem == Spec => CacheMovesForward
<1>1. FInv /\ [Next]_vars =>
          [cache # None /\ cache' # None => cache'.body >= cache.body /\ cache'.at >= cache.at]_cache
  <2> SUFFICES ASSUME FInv, [Next]_vars, cache' # cache, cache # None, cache' # None
               PROVE  cache'.body >= cache.body /\ cache'.at >= cache.at
    OBVIOUS
  <2>1. StoreVersions
    BY DEF Next, Handle, Load, Join, Receive, GiveUp, Fetch, ListVersions, EndFetch, Tick, Publish,
           HangUp, Evict, vars
  <2>2. cache' = [body |-> fetched, at |-> now] /\ fetched # None
    BY <2>1 DEF StoreVersions, FInv, CInv, TInv, RestOK
  <2> QED
    BY <2>2 DEF FInv, CacheIsRecent
<1> QED
  BY <1>1, FInit, FStep, PTL DEF Spec, CacheMovesForward

-----------------------------------------------------------------------------
(* The refinement of Coalescing *)

\* Whoever waits has a result or has one coming, and whoever is done has taken it.
Awaited ==
    \A r \in Requests :
        /\ pc[r] = "wait" /\ result[r] = None => r \in waiters
        /\ pc[r] = "done" => result[r] = None

JInv == CInv /\ Awaited

Shares == Awaited' /\ [Flight!Next]_(Flight!vars)

\* A step that those who wait do not notice.
LEMMA Unnoticed ==
    ASSUME JInv, UNCHANGED <<connected, result, waiters>>, (fpc' # "none") = (fpc # "none"),
           \A r \in Requests :
               pc'[r] = pc[r] \/ (pc[r] \in {"start", "join"} /\ pc'[r] \in {"join", "done"})
    PROVE  Shares
<1>1. \A r \in Requests : (pc'[r] = "wait") = (pc[r] = "wait")
  OBVIOUS
<1>2. Awaited'
  BY DEF JInv, Awaited, CInv, Coalesced
<1>3. UNCHANGED Flight!vars
  BY <1>1 DEF Flight!vars
<1> QED
  BY <1>2, <1>3 DEF Shares

\* The end of the fetch is the return of what they share.
LEMMA ReturnIsShared ==
    ASSUME JInv, fpc # "none", NEW error \in {"none", "error", "notfound"}, NEW body \in Index \cup {None},
           Finish(error, body), UNCHANGED <<pc, connected>>
    PROVE  Shares
<1> DEFINE v == [error |-> error, body |-> body]
<1>1. v \in Results /\ v # None
  BY NoneAssumption DEF Results
<1>2. /\ result' = [r \in Requests |-> IF r \in waiters THEN v ELSE result[r]]
      /\ waiters' = {} /\ fpc' = "none"
  BY DEF Finish
<1> HIDE DEF v
<1>3. \A r \in Requests : r \in waiters <=> pc[r] = "wait" /\ result[r] = None
  BY DEF JInv, CInv, Coalesced, Awaited
<1>4. Awaited'
  BY <1>1, <1>2, <1>3 DEF JInv, Awaited
<1>5. Flight!Return(v)
  BY <1>1, <1>2, <1>3 DEF Flight!Return
<1> QED
  BY <1>1, <1>4, <1>5 DEF Shares, Flight!Next

\* What a request's end does to its wait.
LEMMA RespondIs ==
    ASSUME TInv, NEW r \in Requests, NEW xcache, NEW body, NEW outcome,
           Respond(r, xcache, body, outcome)
    PROVE  /\ pc'[r] = "done" /\ \A q \in Requests \ {r} : pc'[q] = pc[q]
           /\ result' = [result EXCEPT ![r] = None]
  BY DEF Respond, TInv, RequestsOK

LEMMA HandleIsShared ==
    ASSUME JInv, NEW r \in Requests, Handle(r)
    PROVE  Shares
<1> DEFINE Ends == /\ pc'[r] = "done" /\ \A q \in Requests \ {r} : pc'[q] = pc[q]
                   /\ result' = [result EXCEPT ![r] = None]
<1>1. result \in [Requests -> Results \cup {None}] /\ pc \in [Requests -> Steps] /\ TInv
  BY DEF JInv, CInv, TInv, RequestsOK
<1>2. CASE Load(r)
  <2>1. pc[r] = "start" /\ result[r] = None /\ UNCHANGED <<connected, fpc, waiters>>
    BY <1>2 DEF Load, JInv, CInv, Coalesced, fetch
  <2>2. CASE Respond(r, "HIT", cache.body, "fresh")
    <3>1. Ends
      BY <1>1, <2>2, RespondIs
    <3>2. UNCHANGED result
      BY <1>1, <2>1, <3>1
    <3> QED
      BY <2>1, <3>1, <3>2, Unnoticed
  <2>3. CASE pc' = [pc EXCEPT ![r] = "join"] /\ UNCHANGED result
    BY <1>1, <2>1, <2>3, Unnoticed
  <2> QED
    BY <1>2, <2>2, <2>3 DEF Load
<1>3. CASE Join(r)
  <2>1. /\ pc[r] = "join" /\ pc' = [pc EXCEPT ![r] = "wait"] /\ waiters' = waiters \cup {r}
        /\ fpc' # "none" /\ UNCHANGED <<connected, result>>
    BY <1>3 DEF Join
  <2>2. result[r] = None
    BY <2>1 DEF JInv, CInv, Coalesced
  <2>3. Awaited'
    BY <1>1, <2>1, <2>2 DEF JInv, Awaited
  <2>4. Flight!Join(r)
    BY <1>1, <2>1, <2>2 DEF Flight!Join
  <2> QED
    BY <2>3, <2>4 DEF Shares, Flight!Next
<1>4. CASE Receive(r)
  <2>1. pc[r] = "wait" /\ result[r] # None /\ UNCHANGED <<connected, fpc, waiters>>
    BY <1>4 DEF Receive, fetch
  <2>2. Ends
    BY <1>1, <1>4, FailedAnswerResponds, RespondIs DEF Receive
  <2>3. Awaited'
    BY <1>1, <2>1, <2>2 DEF JInv, Awaited
  <2>4. Flight!Receive(r)
    BY <1>1, <2>1, <2>2 DEF Flight!Receive
  <2> QED
    BY <2>3, <2>4 DEF Shares, Flight!Next
<1>5. CASE GiveUp(r)
  <2>1. pc[r] = "wait" /\ ~connected[r] /\ waiters' = waiters \ {r} /\ UNCHANGED <<connected, fpc>>
    BY <1>5 DEF GiveUp
  <2>2. Ends
    BY <1>1, <1>5, FailedAnswerResponds, RespondIs DEF GiveUp
  <2>3. Awaited'
    BY <1>1, <2>1, <2>2 DEF JInv, Awaited
  <2>4. Flight!Leave(r)
    BY <1>1, <2>1, <2>2 DEF Flight!Leave
  <2> QED
    BY <2>3, <2>4 DEF Shares, Flight!Next
<1> QED
  BY <1>2, <1>3, <1>4, <1>5 DEF Handle

LEMMA FetchIsShared == ASSUME JInv, Fetch PROVE Shares
<1>1. CASE ListVersions
  <2>1. ASSUME NEW error \in Failing, Finish(error, None) PROVE Shares
    BY <1>1, <2>1, ReturnIsShared, EnvironmentAssumption DEF ListVersions
  <2> QED
    BY <1>1, <2>1, Unnoticed DEF ListVersions
<1>2. CASE StoreVersions
  BY <1>2, Unnoticed DEF StoreVersions, requests
<1>3. CASE EndFetch
  BY <1>3, ReturnIsShared DEF EndFetch, JInv, CInv, TInv, RestOK
<1> QED
  BY <1>1, <1>2, <1>3 DEF Fetch

LEMMA EnvironmentIsShared ==
    ASSUME JInv, Tick \/ Publish \/ (\E r \in Requests : HangUp(r)) \/ Evict \/ UNCHANGED vars
    PROVE  Shares
<1>1. ASSUME NEW r \in Requests, HangUp(r) PROVE Shares
  <2>1. connected' = [connected EXCEPT ![r] = FALSE] /\ UNCHANGED <<pc, result, fpc, waiters>>
    BY <1>1 DEF HangUp, fetch
  <2>2. Awaited'
    BY <2>1 DEF JInv, Awaited
  <2>3. Flight!Cancel(r)
    BY <2>1 DEF Flight!Cancel, JInv, CInv, TInv, RestOK
  <2> QED
    BY <2>2, <2>3 DEF Shares, Flight!Next
<1>2. CASE Tick \/ Publish \/ Evict \/ UNCHANGED vars
  BY <1>2, Unnoticed DEF Tick, Publish, Evict, vars, requests, fetch
<1> QED
  BY <1>1, <1>2

LEMMA JInit == Init => JInv /\ Flight!Init
  BY CInit DEF Init, JInv, Awaited, Flight!Init

LEMMA JStep == JInv /\ [Next]_vars => JInv' /\ [Flight!Next]_(Flight!vars)
<1> SUFFICES ASSUME JInv, [Next]_vars PROVE JInv' /\ [Flight!Next]_(Flight!vars)
  OBVIOUS
<1>1. CInv'
  BY CStep DEF JInv
<1>2. Shares
  BY HandleIsShared, FetchIsShared, EnvironmentIsShared DEF Next
<1> QED
  BY <1>1, <1>2 DEF Shares, JInv

\* The fetch is coalesced as it should be: every step is one of Coalescing, for any number of
\* requests, whoever of them hangs up and however long the fetch takes.
THEOREM CoalescingTheorem == Spec => IsCoalesced
  BY JInit, JStep, PTL DEF Spec, IsCoalesced, Flight!Spec

\* So no request waits for a fetch that has ended without telling it anything.
THEOREM NobodyIsForgottenTheorem == Spec => []Flight!NobodyIsForgotten
<1>1. Flight!Init => Flight!NobodyIsForgotten
  BY DEF Flight!Init, Flight!NobodyIsForgotten
<1>2. Flight!NobodyIsForgotten /\ [Flight!Next]_(Flight!vars) => Flight!NobodyIsForgotten'
  BY DEF Flight!NobodyIsForgotten, Flight!Next, Flight!vars, Flight!Join, Flight!Return,
         Flight!Receive, Flight!Leave, Flight!Cancel
<1> QED
  BY <1>1, <1>2, CoalescingTheorem, PTL DEF IsCoalesced, Flight!Spec
=============================================================================
