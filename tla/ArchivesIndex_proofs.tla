------------------------ MODULE ArchivesIndex_proofs ------------------------
(***************************************************************************)
(* The safety properties of ArchivesIndex as theorems, for any platforms,  *)
(* any bound on the goroutines and any number of requests.                 *)
(***************************************************************************)
EXTENDS ArchivesIndex, TLAPS

\* Only a recorded failure cancels.
CancelledAfterFailure == \A p \in Platforms : fetch[p] = "cancelled" => firstErr # None

\* Unless one failed, every goroutine that ended has left its result; past wg.Wait that is
\* every platform.
ResultsAreRecorded ==
    /\ \A p \in Platforms : fetch[p] = "done" /\ firstErr = None => p \in results
    /\ bpc \in {"store", "finish"} => results = Platforms

\* What the goroutines report, and what is reported for all of them, upstream has answered.
FailuresHaveACause ==
    /\ \A p \in Platforms : (fetch[p] = "error" => trouble) /\ (fetch[p] = "notfound" => gone)
    /\ firstErr = "error" => trouble
    /\ firstErr = "notfound" => gone

\* What the build sends to its waiters is a complete index or such a failure.
ResultsAreSound ==
    \A r \in Requests : result[r] # None =>
        /\ result[r].error = "none" => result[r].body = Platforms
        /\ result[r].error = "error" => trouble
        /\ result[r].error = "notfound" => gone

IInv ==
    /\ TypeOK
    /\ CancelledAfterFailure
    /\ ResultsAreRecorded
    /\ FailuresHaveACause
    /\ ResultsAreSound
    /\ IndexIsComplete
    /\ RefusalsHaveACause

-----------------------------------------------------------------------------
LEMMA NoneIsNoOutcome == None \notin Outcomes
  BY NoneAssumption

LEMMA InvInit == Init => IInv
<1> SUFFICES ASSUME Init PROVE IInv
  OBVIOUS
<1>1. NoAnswer \in Answers
  BY DEF NoAnswer, Answers, Index
<1>2. TypeOK
  BY <1>1 DEF Init, TypeOK, Idle, Steps, BuildSteps
<1>3. CancelledAfterFailure /\ ResultsAreRecorded /\ FailuresHaveACause
  BY NoneIsNoOutcome DEF Init, Idle, CancelledAfterFailure, ResultsAreRecorded, FailuresHaveACause,
     Outcomes, Errors
<1>4. ResultsAreSound /\ IndexIsComplete /\ RefusalsHaveACause
  BY DEF Init, ResultsAreSound, IndexIsComplete, RefusalsHaveACause, NoAnswer
<1> QED
  BY <1>2, <1>3, <1>4 DEF IInv

\* Upstream's failures are not forgotten.
EnvGrows ==
    /\ trouble' \in BOOLEAN /\ gone' \in BOOLEAN
    /\ trouble => trouble'
    /\ gone => gone'

LEMMA FailsGrows ==
    ASSUME TypeOK, NEW error \in Errors, Fails(error)
    PROVE  EnvGrows /\ (error = "error" => trouble') /\ (error = "notfound" => gone')
  BY DEF TypeOK, Fails, EnvGrows

-----------------------------------------------------------------------------
\* Answering r with a complete index is safe.
LEMMA ServeStep ==
    ASSUME IInv, NEW r \in Requests, NEW xcache \in {"HIT", "MISS"},
           Respond(r, 200, Platforms, xcache),
           UNCHANGED <<cache, connected, bpc, waiters, fanout, env>>
    PROVE  IInv'
<1> DEFINE a == [status |-> 200, body |-> Platforms, xcache |-> xcache]
<1>1. /\ pc' = [pc EXCEPT ![r] = "done"]
      /\ result' = [result EXCEPT ![r] = None]
      /\ answer' = [answer EXCEPT ![r] = a]
      /\ UNCHANGED <<todo, fetch, results, firstErr, trouble, gone>>
  BY DEF Respond, fanout, env
<1>2. a \in Answers
  BY DEF Answers, Index
<1>3. TypeOK'
  BY <1>1, <1>2 DEF IInv, TypeOK, Steps
<1>4. CancelledAfterFailure' /\ ResultsAreRecorded' /\ FailuresHaveACause'
  BY <1>1 DEF IInv, CancelledAfterFailure, ResultsAreRecorded, FailuresHaveACause
<1>5. ResultsAreSound'
  BY <1>1 DEF IInv, TypeOK, ResultsAreSound
<1>6. IndexIsComplete' /\ RefusalsHaveACause'
  BY <1>1 DEF IInv, TypeOK, IndexIsComplete, RefusalsHaveACause
<1> QED
  BY <1>3, <1>4, <1>5, <1>6 DEF IInv

\* Refusing r is safe if there is a cause, or nobody to tell.
LEMMA RefuseStep ==
    ASSUME IInv, NEW r \in Requests, NEW error \in Errors, Refuse(r, error),
           connected[r] => (error = "error" => trouble) /\ (error = "notfound" => gone),
           waiters' \subseteq waiters,
           UNCHANGED <<cache, connected, bpc, fanout, env>>
    PROVE  IInv'
<1> DEFINE status == IF error = "notfound" THEN 404 ELSE 502
           a == [status |-> status, body |-> {}, xcache |-> "none"]
<1>1. /\ pc' = [pc EXCEPT ![r] = "done"]
      /\ result' = [result EXCEPT ![r] = None]
      /\ answer' = [answer EXCEPT ![r] = a]
      /\ UNCHANGED <<todo, fetch, results, firstErr, trouble, gone>>
  BY DEF Refuse, Respond, fanout, env
<1>2. a \in Answers
  BY DEF Answers, Index
<1>3. TypeOK'
  BY <1>1, <1>2 DEF IInv, TypeOK, Steps
<1>4. CancelledAfterFailure' /\ ResultsAreRecorded' /\ FailuresHaveACause'
  BY <1>1 DEF IInv, CancelledAfterFailure, ResultsAreRecorded, FailuresHaveACause
<1>5. ResultsAreSound'
  BY <1>1 DEF IInv, TypeOK, ResultsAreSound
<1>6. IndexIsComplete' /\ RefusalsHaveACause'
  BY <1>1 DEF IInv, TypeOK, IndexIsComplete, RefusalsHaveACause, Errors
<1> QED
  BY <1>3, <1>4, <1>5, <1>6 DEF IInv

\* So is ending the build with a complete index, or with a failure that has a cause.
LEMMA FinishStep ==
    ASSUME IInv, NEW error \in Errors \cup {"none"}, NEW body \in Index, Finish(error, body), EnvGrows,
           error = "none" => body = Platforms,
           error = "error" => trouble', error = "notfound" => gone',
           UNCHANGED <<cache, pc, connected, answer>>
    PROVE  IInv'
<1> DEFINE sent == [error |-> error, body |-> body]
<1>1. /\ result' = [r \in Requests |-> IF r \in waiters THEN sent ELSE result[r]]
      /\ waiters' = {} /\ bpc' = "none" /\ todo' = {}
      /\ fetch' = Idle /\ results' = {} /\ firstErr' = None
  BY DEF Finish
<1>2. sent \in Results
  BY DEF Results
<1>3. TypeOK'
  BY <1>1, <1>2 DEF IInv, TypeOK, EnvGrows, Idle, BuildSteps
<1>4. CancelledAfterFailure' /\ ResultsAreRecorded' /\ FailuresHaveACause'
  BY <1>1, NoneIsNoOutcome DEF CancelledAfterFailure, ResultsAreRecorded, FailuresHaveACause, Idle,
     Outcomes, Errors
<1>5. ResultsAreSound'
  <2> SUFFICES ASSUME NEW r \in Requests, result'[r] # None
               PROVE  /\ result'[r].error = "none" => result'[r].body = Platforms
                      /\ result'[r].error = "error" => trouble'
                      /\ result'[r].error = "notfound" => gone'
    BY DEF ResultsAreSound
  <2>1. CASE r \in waiters
    BY <1>1, <2>1
  <2>2. CASE r \notin waiters
    BY <1>1, <2>2 DEF IInv, ResultsAreSound, EnvGrows
  <2> QED
    BY <2>1, <2>2
<1>6. IndexIsComplete' /\ RefusalsHaveACause'
  BY DEF IInv, IndexIsComplete, RefusalsHaveACause, EnvGrows
<1> QED
  BY <1>3, <1>4, <1>5, <1>6 DEF IInv

-----------------------------------------------------------------------------
LEMMA HandleSafe == ASSUME IInv, NEW r \in Requests, Handle(r) PROVE IInv'
<1>1. CASE ServeFromCache(r)
  <2>1. CASE cache # None /\ Respond(r, 200, cache, "HIT")
    <3>1. cache = Platforms
      BY <2>1 DEF IInv, IndexIsComplete
    <3> QED
      BY <1>1, <2>1, <3>1, ServeStep DEF ServeFromCache
  <2>2. CASE pc' = [pc EXCEPT ![r] = "join"] /\ UNCHANGED <<result, answer>>
    <3>1. TypeOK'
      BY <1>1, <2>2 DEF ServeFromCache, IInv, TypeOK, Steps, fanout, env
    <3> QED
      BY <1>1, <2>2, <3>1 DEF ServeFromCache, IInv, fanout, env, CancelledAfterFailure,
         ResultsAreRecorded, FailuresHaveACause, ResultsAreSound, IndexIsComplete, RefusalsHaveACause
  <2> QED
    BY <1>1, <2>1, <2>2 DEF ServeFromCache
<1>2. CASE Join(r)
  <2>1. TypeOK'
    BY <1>2 DEF Join, IInv, TypeOK, Steps, BuildSteps, fanout, env
  <2>2. ResultsAreRecorded'
    BY <1>2 DEF Join, IInv, ResultsAreRecorded, fanout, env
  <2> QED
    BY <1>2, <2>1, <2>2 DEF Join, IInv, fanout, env, CancelledAfterFailure,
       FailuresHaveACause, ResultsAreSound, IndexIsComplete, RefusalsHaveACause
<1>3. CASE Receive(r)
  <2>1. result[r] \in Results
    BY <1>3 DEF Receive, IInv, TypeOK
  <2>2. CASE result[r].error = "none"
    <3>1. result[r].body = Platforms
      BY <1>3, <2>2 DEF Receive, IInv, ResultsAreSound
    <3> QED
      BY <1>3, <2>2, <3>1, ServeStep DEF Receive
  <2>3. CASE result[r].error # "none"
    <3> DEFINE error == result[r].error
    <3>1. error \in Errors
      BY <2>1, <2>3 DEF Results
    <3>2. (error = "error" => trouble) /\ (error = "notfound" => gone)
      BY <1>3 DEF Receive, IInv, ResultsAreSound
    <3>3. Refuse(r, error) /\ UNCHANGED <<cache, connected, bpc, waiters, fanout, env>>
      BY <1>3, <2>3 DEF Receive
    <3> HIDE DEF error
    <3> QED
      BY <3>1, <3>2, <3>3, RefuseStep
  <2> QED
    BY <2>2, <2>3
<1>4. CASE GiveUp(r)
  <2>1. /\ Refuse(r, "error") /\ ~connected[r] /\ waiters' \subseteq waiters
        /\ UNCHANGED <<cache, connected, bpc, fanout, env>>
    BY <1>4 DEF GiveUp
  <2>2. "error" \in Errors
    BY DEF Errors
  <2> QED
    BY <2>1, <2>2, RefuseStep
<1> QED
  BY <1>1, <1>2, <1>3, <1>4 DEF Handle

LEMMA ListPlatformsSafe == ASSUME IInv, ListPlatforms PROVE IInv'
<1>1. CASE /\ bpc' = "spawn"
           /\ todo' = Platforms
           /\ UNCHANGED <<waiters, result, fetch, results, firstErr, env>>
  <2>1. TypeOK'
    BY <1>1 DEF ListPlatforms, IInv, TypeOK, BuildSteps, env
  <2> QED
    BY <1>1, <2>1 DEF ListPlatforms, IInv, env, CancelledAfterFailure, ResultsAreRecorded,
       FailuresHaveACause, ResultsAreSound, IndexIsComplete, RefusalsHaveACause
<1>2. ASSUME NEW error \in Errors, Fails(error), Finish(error, {})
      PROVE  IInv'
  <2>1. EnvGrows /\ (error = "error" => trouble') /\ (error = "notfound" => gone')
    BY <1>2, FailsGrows DEF IInv
  <2>2. error # "none" /\ {} \in Index /\ UNCHANGED <<cache, pc, connected, answer>>
    BY DEF Errors, Index, ListPlatforms
  <2> QED
    BY <1>2, <2>1, <2>2, FinishStep
<1> QED
  BY <1>1, <1>2 DEF ListPlatforms

LEMMA GetDownloadSafe == ASSUME IInv, NEW p \in Platforms, GetDownload(p) \/ Abort(p) PROVE IInv'
<1> DEFINE Told(outcome) ==
              /\ fetch' = [fetch EXCEPT ![p] = outcome]
              /\ outcome = "cancelled" => firstErr # None
              /\ outcome = "error" => trouble'
              /\ outcome = "notfound" => gone'
              /\ EnvGrows
<1>1. PICK outcome \in Outcomes : Told(outcome)
  <2>1. CASE fetch' = [fetch EXCEPT ![p] = "ok"] /\ UNCHANGED env
    <3>1. Told("ok") /\ "ok" \in Outcomes
      BY <2>1 DEF Outcomes, EnvGrows, env, IInv, TypeOK
    <3> QED
      BY <3>1
  <2>2. ASSUME NEW error \in Errors, Fails(error), fetch' = [fetch EXCEPT ![p] = error]
        PROVE  \E outcome \in Outcomes : Told(outcome)
    <3>1. EnvGrows /\ (error = "error" => trouble') /\ (error = "notfound" => gone')
      BY <2>2, FailsGrows DEF IInv
    <3>2. Told(error) /\ error \in Outcomes
      BY <2>2, <3>1 DEF Outcomes, Errors
    <3> QED
      BY <3>2
  <2>3. CASE firstErr # None /\ fetch' = [fetch EXCEPT ![p] = "cancelled"] /\ UNCHANGED env
    <3>1. Told("cancelled") /\ "cancelled" \in Outcomes
      BY <2>3 DEF Outcomes, EnvGrows, env, IInv, TypeOK
    <3> QED
      BY <3>1
  <2> QED
    BY <2>1, <2>2, <2>3 DEF GetDownload, Abort
<1>2. UNCHANGED <<cache, pc, connected, result, answer, bpc, waiters, todo, results, firstErr>>
  BY DEF GetDownload, Abort, requests
<1>3. TypeOK'
  BY <1>1, <1>2 DEF IInv, TypeOK, EnvGrows
<1>4. CancelledAfterFailure'
  BY <1>1, <1>2 DEF IInv, TypeOK, CancelledAfterFailure
<1>5. ResultsAreRecorded'
  BY <1>1, <1>2 DEF IInv, TypeOK, ResultsAreRecorded, Outcomes, Errors
<1>6. FailuresHaveACause'
  BY <1>1, <1>2 DEF IInv, TypeOK, FailuresHaveACause, EnvGrows
<1>7. ResultsAreSound' /\ IndexIsComplete' /\ RefusalsHaveACause'
  BY <1>1, <1>2 DEF IInv, ResultsAreSound, IndexIsComplete, RefusalsHaveACause, EnvGrows
<1> QED
  BY <1>3, <1>4, <1>5, <1>6, <1>7 DEF IInv

LEMMA SpawnSafe == ASSUME IInv, NEW p \in Platforms, Spawn(p) PROVE IInv'
<1>1. /\ todo' = todo \ {p} /\ fetch' = [fetch EXCEPT ![p] = "fetch"]
      /\ UNCHANGED <<cache, pc, connected, result, answer, bpc, waiters, results, firstErr, trouble, gone>>
  BY DEF Spawn, requests, env
<1>2. TypeOK'
  BY <1>1 DEF IInv, TypeOK
<1>3. CancelledAfterFailure' /\ ResultsAreRecorded' /\ FailuresHaveACause'
  BY <1>1 DEF IInv, TypeOK, CancelledAfterFailure, ResultsAreRecorded, FailuresHaveACause
<1>4. ResultsAreSound' /\ IndexIsComplete' /\ RefusalsHaveACause'
  BY <1>1 DEF IInv, ResultsAreSound, IndexIsComplete, RefusalsHaveACause
<1> QED
  BY <1>2, <1>3, <1>4 DEF IInv

LEMMA RecordSafe == ASSUME IInv, NEW p \in Platforms, Record(p) PROVE IInv'
<1>1. /\ fetch[p] \in Outcomes
      /\ results' = IF fetch[p] = "ok" THEN results \cup {p} ELSE results
      /\ firstErr' = IF fetch[p] # "ok" /\ firstErr = None THEN fetch[p] ELSE firstErr
      /\ fetch' = [fetch EXCEPT ![p] = "done"]
      /\ UNCHANGED <<cache, pc, connected, result, answer, bpc, waiters, todo, trouble, gone>>
  BY DEF Record, requests, env
<1>2. firstErr' \in Errors \cup {None} /\ (firstErr # None => firstErr' = firstErr)
  BY <1>1 DEF IInv, TypeOK, CancelledAfterFailure, Outcomes
<1>3. TypeOK'
  BY <1>1, <1>2 DEF IInv, TypeOK
<1>4. CancelledAfterFailure'
  BY <1>1, <1>2 DEF IInv, TypeOK, CancelledAfterFailure
<1>5. ResultsAreRecorded'
  <2>1. ASSUME NEW q \in Platforms, fetch'[q] = "done", firstErr' = None
        PROVE  q \in results'
    <3>1. firstErr = None
      BY <1>2, <2>1
    <3>2. CASE q = p
      <4>1. fetch[p] = "ok"
        BY <1>1, <2>1, <3>1, NoneIsNoOutcome
      <4> QED
        BY <1>1, <3>2, <4>1
    <3>3. CASE q # p
      BY <1>1, <2>1, <3>1, <3>3 DEF IInv, TypeOK, ResultsAreRecorded
    <3> QED
      BY <3>2, <3>3
  <2>2. bpc' \in {"store", "finish"} => results' = Platforms
    BY <1>1 DEF IInv, ResultsAreRecorded
  <2> QED
    BY <2>1, <2>2 DEF ResultsAreRecorded
<1>6. FailuresHaveACause'
  BY <1>1 DEF IInv, TypeOK, FailuresHaveACause
<1>7. ResultsAreSound' /\ IndexIsComplete' /\ RefusalsHaveACause'
  BY <1>1 DEF IInv, ResultsAreSound, IndexIsComplete, RefusalsHaveACause
<1> QED
  BY <1>3, <1>4, <1>5, <1>6, <1>7 DEF IInv

LEMMA CollectSafe == ASSUME IInv, Collect PROVE IInv'
<1>1. CASE firstErr # None /\ Finish(firstErr, {})
  <2>1. firstErr \in Errors /\ firstErr # "none" /\ {} \in Index
    BY <1>1 DEF IInv, TypeOK, Errors, Index
  <2>2. EnvGrows /\ UNCHANGED <<cache, pc, connected, answer, trouble, gone>>
    BY DEF Collect, EnvGrows, env, IInv, TypeOK
  <2>3. (firstErr = "error" => trouble') /\ (firstErr = "notfound" => gone')
    BY <2>2 DEF IInv, FailuresHaveACause
  <2> QED
    BY <1>1, <2>1, <2>2, <2>3, FinishStep
<1>2. CASE firstErr = None /\ bpc' = "store" /\ UNCHANGED <<waiters, result, fanout>>
  <2>1. /\ \A p \in Platforms : fetch[p] = "done"
        /\ UNCHANGED <<cache, pc, connected, result, answer, waiters, todo, fetch, results, firstErr, trouble, gone>>
    BY <1>2 DEF Collect, fanout, env
  <2>2. results = Platforms
    BY <1>2, <2>1 DEF IInv, TypeOK, ResultsAreRecorded
  <2>3. TypeOK' /\ ResultsAreRecorded'
    BY <1>2, <2>1, <2>2 DEF IInv, TypeOK, ResultsAreRecorded, BuildSteps
  <2> QED
    BY <2>1, <2>3 DEF IInv, CancelledAfterFailure, FailuresHaveACause, ResultsAreSound,
       IndexIsComplete, RefusalsHaveACause
<1> QED
  BY <1>1, <1>2 DEF Collect

LEMMA StoreSafe == ASSUME IInv, Store PROVE IInv'
<1>1. /\ bpc' = "finish" /\ cache' \in {cache, results} /\ results = Platforms
      /\ UNCHANGED <<pc, connected, result, answer, waiters, todo, fetch, results, firstErr, trouble, gone>>
  BY DEF Store, requests, fanout, env, IInv, ResultsAreRecorded
<1>2. TypeOK'
  BY <1>1 DEF IInv, TypeOK, BuildSteps, Index
<1>3. CancelledAfterFailure' /\ ResultsAreRecorded' /\ FailuresHaveACause'
  BY <1>1 DEF IInv, CancelledAfterFailure, ResultsAreRecorded, FailuresHaveACause
<1>4. ResultsAreSound' /\ IndexIsComplete' /\ RefusalsHaveACause'
  BY <1>1 DEF IInv, ResultsAreSound, IndexIsComplete, RefusalsHaveACause
<1> QED
  BY <1>2, <1>3, <1>4 DEF IInv

LEMMA EndBuildSafe == ASSUME IInv, EndBuild PROVE IInv'
<1>1. results = Platforms /\ results \in Index
  BY DEF EndBuild, IInv, ResultsAreRecorded, Index
<1>2. Finish("none", results) /\ EnvGrows /\ UNCHANGED <<cache, pc, connected, answer>>
  BY DEF EndBuild, EnvGrows, env, IInv, TypeOK
<1> QED
  BY <1>1, <1>2, FinishStep

LEMMA EnvironmentSafe ==
    ASSUME IInv, (\E r \in Requests : HangUp(r)) \/ Evict \/ UNCHANGED vars
    PROVE  IInv'
<1>1. ASSUME NEW r \in Requests, HangUp(r)
      PROVE  IInv'
  <2>1. /\ connected' = [connected EXCEPT ![r] = FALSE]
        /\ UNCHANGED <<cache, pc, result, answer, bpc, waiters, todo, fetch, results, firstErr, trouble, gone>>
    BY <1>1 DEF HangUp, fanout, env
  <2>2. TypeOK' /\ RefusalsHaveACause'
    BY <2>1 DEF IInv, TypeOK, RefusalsHaveACause
  <2> QED
    BY <2>1, <2>2 DEF IInv, CancelledAfterFailure, ResultsAreRecorded, FailuresHaveACause,
       ResultsAreSound, IndexIsComplete
<1>2. CASE Evict
  <2>1. /\ cache' = None
        /\ UNCHANGED <<pc, connected, result, answer, bpc, waiters, todo, fetch, results, firstErr, trouble, gone>>
    BY <1>2 DEF Evict, requests, fanout, env
  <2> QED
    BY <2>1 DEF IInv, TypeOK, CancelledAfterFailure, ResultsAreRecorded, FailuresHaveACause,
       ResultsAreSound, IndexIsComplete, RefusalsHaveACause
<1>3. CASE UNCHANGED vars
  BY <1>3 DEF vars, requests, fanout, env, IInv, TypeOK, CancelledAfterFailure, ResultsAreRecorded,
     FailuresHaveACause, ResultsAreSound, IndexIsComplete, RefusalsHaveACause
<1> QED
  BY <1>1, <1>2, <1>3

LEMMA InvNext == IInv /\ [Next]_vars => IInv'
<1> SUFFICES ASSUME IInv, [Next]_vars PROVE IInv'
  OBVIOUS
<1>1. ASSUME NEW r \in Requests, Handle(r) PROVE IInv'
  BY <1>1, HandleSafe
<1>2. CASE ListPlatforms
  BY <1>2, ListPlatformsSafe
<1>3. ASSUME NEW p \in Platforms, GetDownload(p) \/ Abort(p) PROVE IInv'
  BY <1>3, GetDownloadSafe
<1>4. ASSUME NEW p \in Platforms, Spawn(p) \/ Record(p) PROVE IInv'
  BY <1>4, SpawnSafe, RecordSafe
<1>5. CASE Collect \/ Store \/ EndBuild
  BY <1>5, CollectSafe, StoreSafe, EndBuildSafe
<1>6. CASE (\E r \in Requests : HangUp(r)) \/ Evict \/ UNCHANGED vars
  BY <1>6, EnvironmentSafe
<1> QED
  BY <1>1, <1>2, <1>3, <1>4, <1>5, <1>6 DEF Next, Build

LEMMA Invariance == Spec => []IInv
  BY InvInit, InvNext, PTL DEF Spec

-----------------------------------------------------------------------------
\* Every variable keeps its type.
THEOREM TypeCorrect == Spec => []TypeOK
  BY Invariance, PTL DEF IInv

\* Only complete indexes are cached or served, however many platforms there are and however
\* many goroutines ask for them.
THEOREM IndexIsCompleteTheorem == Spec => []IndexIsComplete
  BY Invariance, PTL DEF IInv

\* The reported failure is one of upstream's, never the cancellation that followed it.
THEOREM RefusalsTheorem == Spec => []RefusalsHaveACause
  BY Invariance, PTL DEF IInv

-----------------------------------------------------------------------------
(* Coalescing *)

\* The build has a result coming for exactly those who wait without one, and runs while it has;
\* nobody else has anything of it.
Joined ==
    /\ waiters # {} => bpc # "none"
    /\ \A r \in Requests :
        /\ pc[r] = "wait" => (r \in waiters <=> result[r] = None)
        /\ pc[r] # "wait" => r \notin waiters /\ result[r] = None

Shares == Joined' /\ [Flight!Next]_(Flight!vars)

\* A step that those who wait do not notice.
LEMMA Unnoticed ==
    ASSUME Joined, UNCHANGED <<pc, connected, result, waiters>>, (bpc' # "none") = (bpc # "none")
    PROVE  Shares
  BY DEF Shares, Joined, Flight!vars

\* The end of the build is the return of what they share.
LEMMA ReturnIsShared ==
    ASSUME TypeOK, Joined, bpc # "none", NEW error \in Errors \cup {"none"}, NEW body \in Index,
           Finish(error, body), UNCHANGED <<pc, connected>>
    PROVE  Shares
<1> DEFINE v == [error |-> error, body |-> body]
<1>1. v \in Results /\ v # None
  BY NoneAssumption DEF Results
<1>2. /\ result' = [r \in Requests |-> IF r \in waiters THEN v ELSE result[r]]
      /\ waiters' = {} /\ bpc' = "none"
  BY DEF Finish
<1> HIDE DEF v
<1>3. Joined'
  BY <1>1, <1>2 DEF Joined
<1>4. \A r \in Requests : r \in waiters <=> pc[r] = "wait" /\ result[r] = None
  BY DEF Joined
<1>5. Flight!Return(v)
  BY <1>1, <1>2, <1>4 DEF Flight!Return
<1> QED
  BY <1>1, <1>3, <1>5 DEF Shares, Flight!Next

LEMMA HandleIsShared ==
    ASSUME TypeOK, Joined, NEW r \in Requests, Handle(r)
    PROVE  Shares
<1>1. CASE ServeFromCache(r)
  <2>1. result[r] = None /\ r \notin waiters /\ result \in [Requests -> {None} \cup Results]
    BY <1>1 DEF ServeFromCache, Joined, TypeOK
  <2>2. /\ pc[r] = "start" /\ UNCHANGED <<connected, bpc, waiters, result>>
        /\ pc' = [pc EXCEPT ![r] = "done"] \/ pc' = [pc EXCEPT ![r] = "join"]
    BY <1>1, <2>1 DEF ServeFromCache, Respond
  <2>3. \A q \in Requests : (pc'[q] = "wait") = (pc[q] = "wait")
    BY <2>2 DEF TypeOK
  <2>4. Joined'
    BY <2>2, <2>3 DEF Joined
  <2>5. UNCHANGED Flight!vars
    BY <2>2, <2>3 DEF Flight!vars
  <2> QED
    BY <2>4, <2>5 DEF Shares
<1>2. CASE Join(r)
  <2>1. /\ pc[r] = "join" /\ pc' = [pc EXCEPT ![r] = "wait"] /\ waiters' = waiters \cup {r}
        /\ bpc' # "none" /\ UNCHANGED <<connected, result>>
    BY <1>2 DEF Join
  <2>2. result[r] = None /\ pc \in [Requests -> Steps]
    BY <2>1 DEF Joined, TypeOK
  <2>3. Joined'
    BY <2>1, <2>2 DEF Joined
  <2>4. Flight!Join(r)
    BY <2>1, <2>2 DEF Flight!Join
  <2> QED
    BY <2>3, <2>4 DEF Shares, Flight!Next
<1>3. CASE Receive(r)
  <2>1. /\ pc[r] = "wait" /\ result[r] # None
        /\ pc' = [pc EXCEPT ![r] = "done"] /\ result' = [result EXCEPT ![r] = None]
        /\ UNCHANGED <<connected, bpc, waiters>>
    BY <1>3 DEF Receive, Refuse, Respond
  <2>2. pc \in [Requests -> Steps] /\ result \in [Requests -> {None} \cup Results]
    BY DEF TypeOK
  <2>3. Joined'
    BY <2>1, <2>2 DEF Joined
  <2>4. Flight!Receive(r)
    BY <2>1, <2>2 DEF Flight!Receive
  <2> QED
    BY <2>3, <2>4 DEF Shares, Flight!Next
<1>4. CASE GiveUp(r)
  <2>1. /\ pc[r] = "wait" /\ ~connected[r]
        /\ pc' = [pc EXCEPT ![r] = "done"] /\ result' = [result EXCEPT ![r] = None]
        /\ waiters' = waiters \ {r} /\ UNCHANGED <<connected, bpc>>
    BY <1>4 DEF GiveUp, Refuse, Respond
  <2>2. pc \in [Requests -> Steps] /\ result \in [Requests -> {None} \cup Results]
    BY DEF TypeOK
  <2>3. Joined'
    BY <2>1, <2>2 DEF Joined
  <2>4. Flight!Leave(r)
    BY <2>1, <2>2 DEF Flight!Leave
  <2> QED
    BY <2>3, <2>4 DEF Shares, Flight!Next
<1> QED
  BY <1>1, <1>2, <1>3, <1>4 DEF Handle

LEMMA BuildIsShared ==
    ASSUME IInv, Joined, ListPlatforms \/ Build \/ \E p \in Platforms : GetDownload(p) \/ Abort(p)
    PROVE  Shares
<1>1. ASSUME NEW p \in Platforms, GetDownload(p) \/ Abort(p) \/ Spawn(p) \/ Record(p)
      PROVE  Shares
  BY <1>1, Unnoticed DEF GetDownload, Abort, Spawn, Record, requests
<1>2. CASE ListPlatforms
  <2>1. ASSUME NEW error \in Errors, Finish(error, {}) PROVE Shares
    BY <1>2, <2>1, ReturnIsShared DEF ListPlatforms, IInv, Index
  <2> QED
    BY <1>2, <2>1, Unnoticed DEF ListPlatforms
<1>3. CASE Collect
  <2>1. CASE firstErr # None /\ Finish(firstErr, {})
    BY <1>3, <2>1, ReturnIsShared DEF Collect, IInv, TypeOK, Index
  <2> QED
    BY <1>3, <2>1, Unnoticed DEF Collect
<1>4. CASE Store
  BY <1>4, Unnoticed DEF Store, requests
<1>5. CASE EndBuild
  BY <1>5, ReturnIsShared DEF EndBuild, IInv, TypeOK, Index
<1> QED
  BY <1>1, <1>2, <1>3, <1>4, <1>5 DEF Build

LEMMA EnvironmentIsShared ==
    ASSUME TypeOK, Joined, (\E r \in Requests : HangUp(r)) \/ Evict \/ UNCHANGED vars
    PROVE  Shares
<1>1. ASSUME NEW r \in Requests, HangUp(r) PROVE Shares
  <2>1. connected' = [connected EXCEPT ![r] = FALSE] /\ UNCHANGED <<pc, result, bpc, waiters>>
    BY <1>1 DEF HangUp
  <2>2. Joined'
    BY <2>1 DEF Joined
  <2>3. Flight!Cancel(r)
    BY <2>1 DEF Flight!Cancel, TypeOK
  <2> QED
    BY <2>2, <2>3 DEF Shares, Flight!Next
<1>2. CASE Evict \/ UNCHANGED vars
  BY <1>2, Unnoticed DEF Evict, vars, requests
<1> QED
  BY <1>1, <1>2

LEMMA JoinedInit == Init => Joined /\ Flight!Init
  BY DEF Init, Joined, Flight!Init

LEMMA JoinedStep == IInv /\ Joined /\ [Next]_vars => Shares
  BY HandleIsShared, BuildIsShared, EnvironmentIsShared DEF Next, IInv

\* The build is coalesced as it should be: every step of it is one of Coalescing, for any number
\* of requests, platforms and goroutines and whatever fails.
THEOREM CoalescingTheorem == Spec => IsCoalesced
<1>1. Init => Joined /\ Flight!Init
  BY JoinedInit
<1>2. IInv /\ Joined /\ [Next]_vars => Joined' /\ [Flight!Next]_(Flight!vars)
  BY JoinedStep DEF Shares
<1> QED
  BY <1>1, <1>2, Invariance, PTL DEF Spec, IsCoalesced, Flight!Spec

\* So no request waits for a build that has ended without telling it anything.
THEOREM NobodyIsForgottenTheorem == Spec => []Flight!NobodyIsForgotten
<1>1. Flight!Init => Flight!NobodyIsForgotten
  BY DEF Flight!Init, Flight!NobodyIsForgotten
<1>2. Flight!NobodyIsForgotten /\ [Flight!Next]_(Flight!vars) => Flight!NobodyIsForgotten'
  BY DEF Flight!NobodyIsForgotten, Flight!Next, Flight!vars, Flight!Join, Flight!Return,
         Flight!Receive, Flight!Leave, Flight!Cancel
<1> QED
  BY <1>1, <1>2, CoalescingTheorem, PTL DEF IsCoalesced, Flight!Spec
=============================================================================
