-------------------------- MODULE ZipMirror_proofs --------------------------
(***************************************************************************)
(* The safety properties of ZipMirror as theorems, for any number of       *)
(* requests, whatever upstream answers and whatever fails.                 *)
(***************************************************************************)
EXTENDS ZipMirror, TLAPS

USE NamesAssumption, EnvironmentAssumption

\* What waits in the staging directory has passed the digest check, or is still being filled.
StagedIsVerified ==
    \A x \in Fetchers : staged[x] # Bad /\ (staged[x] = "partial" => pc[x] = "copy")

\* A population reports an error or a not-found to its waiters only after it met one: the
\* cancellation of a client is no reason for it.
ResultsHaveACause ==
    \A r \in Requests :
        /\ result[r] = "error"    => trouble
        /\ result[r] = "notfound" => gone

IInv ==
    /\ TypeOK
    /\ OnlyVerified
    /\ StagedIsVerified
    /\ StagingIsClean
    /\ ResultsHaveACause
    /\ RefusalsHaveACause

-----------------------------------------------------------------------------
LEMMA InvInit == Init => IInv
<1> SUFFICES ASSUME Init PROVE IInv
  OBVIOUS
<1>1. TypeOK
  BY DEF Init, TypeOK, Fetchers, RequestSteps, PopulationSteps, Outcomes, Answers, NoAnswer
<1>2. OnlyVerified /\ StagedIsVerified /\ StagingIsClean
  BY DEF Init, OnlyVerified, StagedIsVerified, StagingIsClean, NoAnswer
<1>3. ResultsHaveACause /\ RefusalsHaveACause
  BY DEF Init, ResultsHaveACause, RefusalsHaveACause, NoAnswer
<1> QED
  BY <1>1, <1>2, <1>3 DEF IInv

\* Upstream's failures are not forgotten.
EnvGrows ==
    /\ trouble' \in BOOLEAN /\ gone' \in BOOLEAN
    /\ trouble => trouble'
    /\ gone => gone'

\* A reason to refuse r, or nobody to tell.
Caused(r, outcome) ==
    connected[r] => IF outcome = "notfound" THEN gone' ELSE trouble'

\* Serving r verified bytes is safe.
LEMMA ServeStep ==
    ASSUME IInv, NEW r \in Requests, NEW xcache \in {"HIT", "MISS"},
           Respond(r, 200, Good, xcache),
           pc[r] \notin {"copy", "put", "finish"},
           cache' \in {cache, Good},
           staged' = [staged EXCEPT ![r] = None],
           UNCHANGED <<connected, waiters, result, env>>
    PROVE  IInv'
<1>1. r \in Fetchers /\ pc' = [pc EXCEPT ![r] = "done"] /\ UNCHANGED <<trouble, gone>>
  BY DEF Fetchers, Respond, Goto, env
<1>2. answer' = [answer EXCEPT ![r] = [status |-> 200, body |-> Good, xcache |-> xcache]]
  BY DEF Respond
<1>3. [status |-> 200, body |-> Good, xcache |-> xcache] \in Answers
  BY DEF Answers
<1>4. TypeOK'
  BY <1>1, <1>2, <1>3 DEF IInv, TypeOK, RequestSteps, PopulationSteps
<1>5. OnlyVerified'
  BY <1>2 DEF IInv, OnlyVerified, TypeOK
<1>6. StagedIsVerified' /\ StagingIsClean'
  BY <1>1 DEF IInv, StagedIsVerified, StagingIsClean, TypeOK
<1>7. ResultsHaveACause' /\ RefusalsHaveACause'
  BY <1>1, <1>2 DEF IInv, ResultsHaveACause, RefusalsHaveACause, TypeOK
<1> QED
  BY <1>4, <1>5, <1>6, <1>7 DEF IInv

\* Refusing r for a reason is safe.
LEMMA RefuseStep ==
    ASSUME IInv, NEW r \in Requests, NEW outcome \in {"notfound", "error"},
           Refuse(r, outcome), Caused(r, outcome), EnvGrows,
           pc[r] \notin {"put", "finish", "serve"},
           staged' = [staged EXCEPT ![r] = None],
           UNCHANGED <<cache, connected, waiters, result>>
    PROVE  IInv'
<1>1. r \in Fetchers /\ pc' = [pc EXCEPT ![r] = "done"]
  BY DEF Fetchers, Refuse, Respond, Goto
<1> DEFINE status == IF outcome = "notfound" THEN 404 ELSE 502
<1>2. answer' = [answer EXCEPT ![r] = [status |-> status, body |-> None, xcache |-> "none"]]
  BY DEF Refuse, Respond
<1>3. [status |-> status, body |-> None, xcache |-> "none"] \in Answers
  BY DEF Answers
<1>4. TypeOK'
  BY <1>1, <1>2, <1>3 DEF IInv, TypeOK, RequestSteps, PopulationSteps, EnvGrows
<1>5. OnlyVerified'
  BY <1>2 DEF IInv, OnlyVerified, TypeOK
<1>6. StagedIsVerified' /\ StagingIsClean'
  BY <1>1 DEF IInv, StagedIsVerified, StagingIsClean, TypeOK
<1>7. ResultsHaveACause'
  BY DEF IInv, ResultsHaveACause, EnvGrows
<1>8. RefusalsHaveACause'
  <2> SUFFICES ASSUME NEW q \in Requests, connected[q]
               PROVE  /\ answer'[q].status \in {500, 502} => trouble'
                      /\ answer'[q].status = 404 => gone'
    BY DEF RefusalsHaveACause
  <2>1. CASE q = r
    <3>1. answer'[q].status = status
      BY <1>2, <2>1 DEF IInv, TypeOK
    <3> QED
      BY <2>1, <3>1 DEF Caused
  <2>2. CASE q # r
    <3>1. answer'[q] = answer[q]
      BY <1>2, <2>2 DEF IInv, TypeOK
    <3> QED
      BY <3>1 DEF IInv, RefusalsHaveACause, EnvGrows
  <2> QED
    BY <2>1, <2>2
<1> QED
  BY <1>4, <1>5, <1>6, <1>7, <1>8 DEF IInv

\* So is an internal error when the staging file cannot be read back.
LEMMA ServeFailedStep ==
    ASSUME IInv, NEW r \in Requests, Respond(r, 500, None, "none"),
           pc[r] = "serve",
           cache' \in {cache, Good},
           staged' = [staged EXCEPT ![r] = None],
           trouble' = TRUE,
           UNCHANGED <<connected, waiters, result, gone>>
    PROVE  IInv'
<1>1. r \in Fetchers /\ pc' = [pc EXCEPT ![r] = "done"]
  BY DEF Fetchers, Respond, Goto
<1>2. answer' = [answer EXCEPT ![r] = [status |-> 500, body |-> None, xcache |-> "none"]]
  BY DEF Respond
<1>3. [status |-> 500, body |-> None, xcache |-> "none"] \in Answers
  BY DEF Answers
<1>4. TypeOK'
  BY <1>1, <1>2, <1>3 DEF IInv, TypeOK, RequestSteps, PopulationSteps
<1>5. OnlyVerified'
  BY <1>2 DEF IInv, OnlyVerified, TypeOK
<1>6. StagedIsVerified' /\ StagingIsClean'
  BY <1>1 DEF IInv, StagedIsVerified, StagingIsClean, TypeOK
<1>7. ResultsHaveACause' /\ RefusalsHaveACause'
  BY <1>2 DEF IInv, ResultsHaveACause, RefusalsHaveACause, TypeOK
<1> QED
  BY <1>4, <1>5, <1>6, <1>7 DEF IInv

\* So is moving on to a step at which nothing is staged.
LEMMA MoveStep ==
    ASSUME IInv, NEW x \in Fetchers, NEW step \in RequestSteps \cup PopulationSteps,
           step \notin {"copy", "put", "finish", "serve"}, pc[x] \notin {"copy", "put", "finish", "serve"},
           Goto(x, step),
           UNCHANGED <<cache, connected, waiters, result, staged, answer, env>>
    PROVE  IInv'
<1>1. TypeOK'
  BY DEF IInv, TypeOK, Goto, env
<1>2. OnlyVerified' /\ StagedIsVerified' /\ StagingIsClean'
  BY DEF IInv, OnlyVerified, StagedIsVerified, StagingIsClean, TypeOK, Goto
<1>3. ResultsHaveACause' /\ RefusalsHaveACause'
  BY DEF IInv, ResultsHaveACause, RefusalsHaveACause, env
<1> QED
  BY <1>1, <1>2, <1>3 DEF IInv

\* A population that ends with a cause for its outcome, and nothing staged, is safe.
LEMMA FinishStep ==
    ASSUME IInv, NEW outcome \in Outcomes, Finish(outcome),
           outcome = "error" => trouble', outcome = "notfound" => gone',
           trouble => trouble', gone => gone',
           trouble' \in BOOLEAN, gone' \in BOOLEAN,
           staged' = [staged EXCEPT ![Population] = None],
           UNCHANGED <<cache, connected>>
    PROVE  IInv'
<1>1. /\ Population \in Fetchers
      /\ pc' = [pc EXCEPT ![Population] = "none"]
      /\ result' = [r \in Requests |-> IF r \in waiters THEN outcome ELSE result[r]]
      /\ waiters' = {} /\ answer' = answer
  BY DEF Finish, Goto, Fetchers
<1>2. TypeOK'
  BY <1>1 DEF IInv, TypeOK, PopulationSteps
<1>3. OnlyVerified' /\ StagedIsVerified' /\ StagingIsClean'
  BY <1>1 DEF IInv, OnlyVerified, StagedIsVerified, StagingIsClean, TypeOK
<1>4. ResultsHaveACause' /\ RefusalsHaveACause'
  BY <1>1 DEF IInv, ResultsHaveACause, RefusalsHaveACause
<1> QED
  BY <1>2, <1>3, <1>4 DEF IInv
-----------------------------------------------------------------------------
\* One lemma per action that is more than a response or a move.

\* What the steps of a fetch may rely on.
LEMMA NothingStaged ==
    ASSUME IInv, NEW x \in Fetchers, pc[x] \notin {"copy", "put", "finish", "serve"}
    PROVE  staged = [staged EXCEPT ![x] = None]
<1>1. staged[x] = None
  BY DEF IInv, StagingIsClean
<1> QED
  BY <1>1 DEF IInv, TypeOK

\* A fetch that ends without an archive, with a cause or cancelled.
LEMMA FetchFailedStep ==
    ASSUME IInv, NEW x \in Fetchers, NEW outcome \in {"notfound", "error"},
           pc[x] \in {"describe", "stage", "copy"},
           FetchFailed(x, outcome), EnvGrows,
           (outcome = "error" /\ (trouble' \/ Cancelled(x))) \/ (outcome = "notfound" /\ gone'),
           staged' = [staged EXCEPT ![x] = None],
           UNCHANGED <<cache, connected>>
    PROVE  IInv'
<1>1. CASE x = Population
  BY <1>1, FinishStep DEF FetchFailed, Outcomes, Cancelled, EnvGrows
<1>2. CASE x # Population
  <2>1. x \in Requests /\ Refuse(x, outcome) /\ UNCHANGED <<waiters, result>>
    BY <1>2 DEF Fetchers, FetchFailed
  <2>2. Caused(x, outcome)
    BY DEF Caused, Cancelled
  <2> QED
    BY <2>1, <2>2, RefuseStep
<1> QED
  BY <1>1, <1>2

\* A file that is being filled, or has been and passed.
LEMMA StagedStep ==
    ASSUME IInv, NEW x \in Fetchers, NEW bytes \in {"partial", Good},
           NEW step \in {"copy", "put", "serve"}, bytes = "partial" => step = "copy",
           Goto(x, step), staged' = [staged EXCEPT ![x] = bytes],
           UNCHANGED <<cache, connected, waiters, result, answer, env>>
    PROVE  IInv'
<1>1. pc' = [pc EXCEPT ![x] = step] /\ bytes \notin {None, Bad}
  BY DEF Goto
<1>2. TypeOK'
  BY <1>1 DEF IInv, TypeOK, RequestSteps, PopulationSteps, env
<1>3. OnlyVerified' /\ StagedIsVerified' /\ StagingIsClean'
  BY <1>1 DEF IInv, TypeOK, OnlyVerified, StagedIsVerified, StagingIsClean
<1>4. ResultsHaveACause' /\ RefusalsHaveACause'
  BY DEF IInv, ResultsHaveACause, RefusalsHaveACause, env
<1> QED
  BY <1>2, <1>3, <1>4 DEF IInv

LEMMA JoinStep ==
    ASSUME IInv, NEW r \in Requests, Join(r)
    PROVE  IInv'
<1>1. r \in Fetchers /\ Population \in Fetchers /\ r # Population
  BY DEF Fetchers
<1>2. /\ \A x \in Fetchers : pc'[x] = pc[x] \/ (pc[x] \in {"join", "none"} /\ pc'[x] \in {"wait", "describe"})
      /\ pc' \in [Fetchers -> RequestSteps \cup PopulationSteps]
  BY <1>1 DEF Join, IInv, TypeOK, RequestSteps, PopulationSteps
<1>3. TypeOK'
  BY <1>2 DEF IInv, TypeOK, Join, env
<1>4. OnlyVerified' /\ StagedIsVerified' /\ StagingIsClean'
  BY <1>2 DEF IInv, OnlyVerified, StagedIsVerified, StagingIsClean, Join
<1>5. ResultsHaveACause' /\ RefusalsHaveACause'
  BY DEF IInv, ResultsHaveACause, RefusalsHaveACause, Join, env
<1> QED
  BY <1>3, <1>4, <1>5 DEF IInv

LEMMA HandleStep ==
    ASSUME IInv, NEW r \in Requests, Handle(r)
    PROVE  IInv'
<1>1. /\ r \in Fetchers /\ cache \in {None, Good}
      /\ UNCHANGED env => EnvGrows
      /\ result[r] \in {"ok", "notfound", "error", None}
  BY DEF Fetchers, IInv, TypeOK, OnlyVerified, Outcomes, EnvGrows, env
<1>2. CASE ServeFromCache(r) \/ StreamFromCache(r)
  <2>1. /\ pc[r] \in {"start", "stream"}
        /\ UNCHANGED <<cache, connected, waiters, result, staged, env>>
    BY <1>2 DEF ServeFromCache, StreamFromCache
  <2>2. CASE \E step \in {"join", "describe"} : Goto(r, step) /\ UNCHANGED answer
    BY <1>1, <2>1, <2>2, MoveStep DEF RequestSteps, PopulationSteps
  <2>3. CASE \E xcache \in {"HIT", "MISS"} : Respond(r, 200, cache, xcache) /\ cache # None
    <3>1. staged' = [staged EXCEPT ![r] = None]
      BY <1>1, <2>1, NothingStaged
    <3>2. PICK xcache \in {"HIT", "MISS"} : Respond(r, 200, Good, xcache)
      BY <1>1, <2>3
    <3> QED
      BY <2>1, <3>1, <3>2, ServeStep
  <2> QED
    BY <1>2, <2>2, <2>3 DEF ServeFromCache, StreamFromCache
<1>3. CASE Join(r)
  BY <1>3, JoinStep
<1>4. CASE Receive(r)
  <2>0. staged = [staged EXCEPT ![r] = None]
    BY <1>1, <1>4, NothingStaged DEF Receive
  <2>1. CASE result[r] = "ok"
    BY <1>1, <1>4, <2>1, MoveStep DEF Receive, RequestSteps, PopulationSteps
  <2>2. CASE result[r] \in {"notfound", "error"}
    <3>1. Refuse(r, result[r]) /\ Caused(r, result[r])
      BY <1>4, <2>2 DEF Receive, IInv, ResultsHaveACause, Caused, env
    <3> QED
      BY <1>1, <1>4, <2>0, <2>2, <3>1, RefuseStep DEF Receive
  <2> QED
    BY <1>1, <1>4, <2>1, <2>2 DEF Receive
<1>5. CASE GiveUp(r)
  BY <1>1, <1>5, NothingStaged, RefuseStep DEF GiveUp, Caused
<1>6. CASE ServeStaged(r)
  <2>1. staged[r] = Good
    BY <1>1, <1>6 DEF ServeStaged, IInv, TypeOK, StagedIsVerified, StagingIsClean
  <2>2. /\ cache' \in {cache, Good} /\ pc[r] = "serve"
        /\ staged' = [staged EXCEPT ![r] = None]
        /\ UNCHANGED <<connected, waiters, result>>
    BY <1>6, <2>1 DEF ServeStaged
  <2>3. CASE Respond(r, 200, staged[r], "MISS") /\ UNCHANGED env
    BY <2>1, <2>2, <2>3, ServeStep
  <2>4. CASE Respond(r, 500, None, "none") /\ trouble' = TRUE /\ UNCHANGED gone
    BY <2>2, <2>4, ServeFailedStep
  <2> QED
    BY <1>6, <2>3, <2>4 DEF ServeStaged
<1> QED
  BY <1>2, <1>3, <1>4, <1>5, <1>6 DEF Handle

LEMMA FetchStep ==
    ASSUME IInv, NEW x \in Fetchers, Fetch(x)
    PROVE  IInv'
<1>1. /\ trouble \in BOOLEAN /\ gone \in BOOLEAN
      /\ UNCHANGED env => EnvGrows
      /\ trouble' = TRUE /\ UNCHANGED gone => EnvGrows
      /\ gone' = TRUE /\ UNCHANGED trouble => EnvGrows
  BY DEF IInv, TypeOK, EnvGrows, env
<1>2. pc[x] # "copy" /\ Fetch(x) => staged = [staged EXCEPT ![x] = None]
  BY NothingStaged DEF Fetch, Describe, Stage, Copy
<1>3. CASE Describe(x)
  <2>1. CASE Goto(x, "stage") /\ UNCHANGED <<waiters, result, answer, env>>
    BY <1>3, <2>1, MoveStep DEF Describe, RequestSteps, PopulationSteps
  <2>2. CASE FetchFailed(x, "notfound") /\ gone' = TRUE /\ UNCHANGED trouble
    BY <1>1, <1>2, <1>3, <2>2, FetchFailedStep DEF Describe, Fetch
  <2>3. CASE FetchFailed(x, "error") /\ trouble' = TRUE /\ UNCHANGED gone
    BY <1>1, <1>2, <1>3, <2>3, FetchFailedStep DEF Describe, Fetch
  <2>4. CASE Cancelled(x) /\ FetchFailed(x, "error") /\ UNCHANGED env
    BY <1>1, <1>2, <1>3, <2>4, FetchFailedStep DEF Describe, Fetch, env
  <2> QED
    BY <1>3, <2>1, <2>2, <2>3, <2>4 DEF Describe
<1>4. CASE Stage(x)
  <2>1. CASE /\ Goto(x, "copy") /\ staged' = [staged EXCEPT ![x] = "partial"]
             /\ UNCHANGED <<waiters, result, answer, env>>
    BY <1>4, <2>1, StagedStep DEF Stage
  <2>2. CASE FetchFailed(x, "error") /\ trouble' = TRUE /\ UNCHANGED <<staged, gone>>
    BY <1>1, <1>2, <1>4, <2>2, FetchFailedStep DEF Stage, Fetch
  <2>3. CASE Cancelled(x) /\ FetchFailed(x, "error") /\ UNCHANGED <<staged, env>>
    BY <1>1, <1>2, <1>4, <2>3, FetchFailedStep DEF Stage, Fetch, env
  <2> QED
    BY <1>4, <2>1, <2>2, <2>3 DEF Stage
<1>5. CASE Copy(x)
  <2>1. CASE Verify(x)
    BY <1>5, <2>1, StagedStep DEF Copy, Verify, MatchesDigest
  <2>2. CASE /\ (trouble' = TRUE /\ UNCHANGED gone) \/ (Cancelled(x) /\ UNCHANGED env)
             /\ staged' = [staged EXCEPT ![x] = None]
             /\ FetchFailed(x, "error")
    BY <1>1, <1>5, <2>2, FetchFailedStep DEF Copy
  <2> QED
    BY <1>5, <2>1, <2>2 DEF Copy
<1> QED
  BY <1>3, <1>4, <1>5 DEF Fetch

LEMMA PopulateStep ==
    ASSUME IInv, Populate
    PROVE  IInv'
<1>1. CASE /\ cache' = staged[Population] \/ UNCHANGED cache
           /\ Goto(Population, "finish")
           /\ UNCHANGED <<waiters, result, staged, answer, env>>
  <2>1. Population \in Fetchers /\ pc' = [pc EXCEPT ![Population] = "finish"]
    BY <1>1 DEF Fetchers, Goto
  <2>2. cache' \in {cache, Good} /\ pc[Population] = "put" /\ UNCHANGED <<connected, trouble, gone>>
    BY <1>1, <2>1 DEF Populate, IInv, TypeOK, StagedIsVerified, StagingIsClean, env
  <2>3. TypeOK'
    BY <1>1, <2>1, <2>2 DEF IInv, TypeOK, PopulationSteps
  <2>4. OnlyVerified' /\ StagedIsVerified' /\ StagingIsClean'
    BY <1>1, <2>1, <2>2 DEF IInv, TypeOK, OnlyVerified, StagedIsVerified, StagingIsClean
  <2>5. ResultsHaveACause' /\ RefusalsHaveACause'
    BY <1>1, <2>2 DEF IInv, ResultsHaveACause, RefusalsHaveACause
  <2> QED
    BY <2>3, <2>4, <2>5 DEF IInv
<1>2. CASE /\ Finish("error") /\ staged' = [staged EXCEPT ![Population] = None]
           /\ trouble' = TRUE /\ UNCHANGED <<cache, gone>>
  <2>1. UNCHANGED connected /\ gone \in BOOLEAN
    BY DEF Populate, IInv, TypeOK
  <2> QED
    BY <1>2, <2>1, FinishStep DEF Outcomes
<1> QED
  BY <1>1, <1>2 DEF Populate

\* The environment takes nothing away that the invariant is about.
LEMMA EnvironmentStep ==
    ASSUME IInv, (\E r \in Requests : HangUp(r)) \/ Evict \/ UNCHANGED vars
    PROVE  IInv'
<1>1. /\ UNCHANGED <<pc, waiters, result, staged, answer, trouble, gone>>
      /\ cache' \in {cache, None}
      /\ connected' \in [Requests -> BOOLEAN]
      /\ \A r \in Requests : connected'[r] => connected[r]
  BY DEF IInv, TypeOK, HangUp, Evict, vars, env
<1>2. TypeOK'
  BY <1>1 DEF IInv, TypeOK
<1>3. OnlyVerified' /\ StagedIsVerified' /\ StagingIsClean'
  BY <1>1 DEF IInv, OnlyVerified, StagedIsVerified, StagingIsClean
<1>4. ResultsHaveACause' /\ RefusalsHaveACause'
  BY <1>1 DEF IInv, ResultsHaveACause, RefusalsHaveACause
<1> QED
  BY <1>2, <1>3, <1>4 DEF IInv

\* IInv is inductive.
LEMMA InvStep == IInv /\ [Next]_vars => IInv'
<1> SUFFICES ASSUME IInv, [Next]_vars PROVE IInv'
  OBVIOUS
<1>1. ASSUME NEW r \in Requests, Handle(r) PROVE IInv'
  BY <1>1, HandleStep
<1>2. ASSUME NEW x \in Fetchers, Fetch(x) PROVE IInv'
  BY <1>2, FetchStep
<1>3. CASE Populate
  BY <1>3, PopulateStep
<1>4. CASE EndPopulation
  <2>1. /\ Finish("ok") /\ UNCHANGED <<cache, connected>>
        /\ staged' = [staged EXCEPT ![Population] = None]
        /\ trouble' = trouble /\ gone' = gone
    BY <1>4 DEF EndPopulation, env
  <2>2. trouble \in BOOLEAN /\ gone \in BOOLEAN
    BY DEF IInv, TypeOK
  <2> QED
    BY <2>1, <2>2, FinishStep DEF Outcomes
<1>5. CASE (\E r \in Requests : HangUp(r)) \/ Evict \/ UNCHANGED vars
  BY <1>5, EnvironmentStep
<1> QED
  BY <1>1, <1>2, <1>3, <1>4, <1>5 DEF Next

LEMMA InvCorrect == Spec => []IInv
  BY InvInit, InvStep, PTL DEF Spec

-----------------------------------------------------------------------------
\* Every variable has its type.
THEOREM TypeCorrect == Spec => []TypeOK
  BY InvCorrect, PTL DEF IInv

\* Provider zips are checked against the published SHA-256 before they are cached or served,
\* whichever of the three ways out of handleZip a request takes.
THEOREM OnlyVerifiedTheorem == Spec => []OnlyVerified
  BY InvCorrect, PTL DEF IInv

\* A client that stayed is refused only if upstream or the staging disk failed: neither the
\* cache nor other clients can make a request fail.
THEOREM RefusalsTheorem == Spec => []RefusalsHaveACause
  BY InvCorrect, PTL DEF IInv

\* No path out of a fetch leaves a file in the staging directory.
THEOREM StagingTheorem == Spec => []StagingIsClean
  BY InvCorrect, PTL DEF IInv

-----------------------------------------------------------------------------
(* Coalescing *)

\* Who waits without a result is one the population, still running, will feed; who has not come
\* to wait has nothing of it yet.  One that hung up may be fed, but waits no longer.
Joined ==
    /\ waiters # {} => pc[Population] # "none"
    /\ \A r \in Requests :
        /\ pc[r] = "wait" => (r \in waiters <=> result[r] = None)
        /\ pc[r] \in {"start", "join"} => r \notin waiters /\ result[r] = None

Shares == Joined' /\ [Flight!Next]_(Flight!vars)

\* A step that those who wait do not notice.
LEMMA Unnoticed ==
    ASSUME Joined, UNCHANGED <<connected, waiters, result>>,
           (pc'[Population] # "none") = (pc[Population] # "none"),
           \A r \in Requests : pc'[r] = pc[r] \/ (pc[r] # "wait" /\ pc'[r] \notin {"start", "wait"}),
           \A r \in Requests : pc'[r] = "join" => pc[r] \in {"start", "join"}
    PROVE  Shares
<1>1. \A r \in Requests : (pc'[r] = "wait") = (pc[r] = "wait")
  OBVIOUS
<1>2. Joined'
  BY DEF Joined
<1>3. UNCHANGED Flight!vars
  BY <1>1 DEF Flight!vars
<1> QED
  BY <1>2, <1>3 DEF Shares

\* So is what a request does before or after its wait, and a step within the population.
LEMMA MoveIsUnnoticed ==
    ASSUME TypeOK, Joined, UNCHANGED <<connected, waiters, result>>,
           NEW x \in Fetchers, NEW step \in RequestSteps \cup PopulationSteps, Goto(x, step),
           IF x = Population THEN pc[x] # "none" /\ step # "none"
           ELSE /\ pc[x] # "wait" /\ step \notin {"start", "wait"}
                /\ step = "join" => pc[x] = "start"
    PROVE  Shares
  BY Unnoticed DEF Goto, TypeOK, Fetchers

\* The end of the population is the return of what they share.
LEMMA ReturnIsShared ==
    ASSUME TypeOK, Joined, pc[Population] # "none", NEW outcome \in Outcomes, Finish(outcome),
           UNCHANGED connected
    PROVE  Shares
<1>1. pc'[Population] = "none" /\ \A r \in Requests : pc'[r] = pc[r]
  BY DEF Finish, Goto, TypeOK, Fetchers
<1>2. /\ result' = [r \in Requests |-> IF r \in waiters THEN outcome ELSE result[r]]
      /\ waiters' = {} /\ outcome # None
  BY DEF Finish, Outcomes
<1>3. Joined'
  BY <1>1, <1>2 DEF Joined
<1>4. \A r \in Requests : pc[r] = "wait" => (r \in waiters <=> result[r] = None)
  BY DEF Joined
<1>5. Flight!Return(outcome)
  BY <1>1, <1>2, <1>4 DEF Flight!Return
<1> QED
  BY <1>3, <1>5 DEF Shares, Flight!Next

\* A fetch that fails ends the population, or a request that no longer waits for it.
LEMMA FailureIsShared ==
    ASSUME TypeOK, Joined, NEW x \in Fetchers, pc[x] \in {"describe", "stage", "copy"},
           NEW outcome \in {"notfound", "error"}, FetchFailed(x, outcome), UNCHANGED connected
    PROVE  Shares
<1>1. CASE x = Population
  BY <1>1, ReturnIsShared DEF FetchFailed, Outcomes
<1>2. CASE x # Population
  BY <1>2, MoveIsUnnoticed DEF FetchFailed, Refuse, Respond, RequestSteps
<1> QED
  BY <1>1, <1>2

LEMMA HandleIsShared ==
    ASSUME TypeOK, Joined, NEW r \in Requests, Handle(r)
    PROVE  Shares
<1>1. r \in Fetchers /\ r # Population /\ pc \in [Fetchers -> RequestSteps \cup PopulationSteps]
  BY DEF Fetchers, TypeOK
<1>2. Population \in Fetchers /\ result \in [Requests -> Outcomes \cup {None}]
  BY DEF Fetchers, TypeOK
<1>3. CASE ServeFromCache(r) \/ StreamFromCache(r) \/ ServeStaged(r)
  BY <1>1, <1>3, MoveIsUnnoticed
     DEF ServeFromCache, StreamFromCache, ServeStaged, Respond, RequestSteps
<1>4. CASE Join(r)
  <2>1. /\ pc[r] = "join" /\ waiters' = waiters \cup {r} /\ UNCHANGED <<connected, result>>
        /\ pc'[r] = "wait" /\ pc'[Population] # "none"
        /\ \A q \in Requests \ {r} : pc'[q] = pc[q]
    BY <1>1, <1>2, <1>4 DEF Join, Fetchers
  <2>2. r \notin waiters /\ result[r] = None
    BY <2>1 DEF Joined
  <2>3. Joined'
    BY <2>1, <2>2 DEF Joined
  <2>4. Flight!Join(r)
    BY <2>1, <2>2 DEF Flight!Join
  <2> QED
    BY <2>3, <2>4 DEF Shares, Flight!Next
<1>5. CASE Receive(r)
  <2>1. /\ pc[r] = "wait" /\ result[r] # None /\ UNCHANGED <<connected, waiters, result>>
        /\ pc'[r] \in {"stream", "done"} /\ pc'[Population] = pc[Population]
        /\ \A q \in Requests \ {r} : pc'[q] = pc[q]
    BY <1>1, <1>2, <1>5 DEF Receive, Refuse, Respond, Goto, Fetchers
  <2>2. Joined'
    BY <2>1 DEF Joined
  <2>3. Flight!Receive(r)
    BY <2>1 DEF Flight!Receive
  <2> QED
    BY <2>2, <2>3 DEF Shares, Flight!Next
<1>6. CASE GiveUp(r)
  <2>1. /\ pc[r] = "wait" /\ ~connected[r] /\ UNCHANGED <<connected, waiters, result>>
        /\ pc'[r] = "done" /\ pc'[Population] = pc[Population]
        /\ \A q \in Requests \ {r} : pc'[q] = pc[q]
    BY <1>1, <1>2, <1>6 DEF GiveUp, Refuse, Respond, Goto, Fetchers
  <2>2. Joined'
    BY <2>1 DEF Joined
  <2>3. Flight!Leave(r)
    BY <2>1 DEF Flight!Leave
  <2> QED
    BY <2>2, <2>3 DEF Shares, Flight!Next
<1> QED
  BY <1>3, <1>4, <1>5, <1>6 DEF Handle

LEMMA FetchIsShared ==
    ASSUME TypeOK, Joined, NEW x \in Fetchers, Fetch(x)
    PROVE  Shares
<1>1. pc[x] \in {"describe", "stage", "copy"} /\ UNCHANGED connected
  BY DEF Fetch, Describe, Stage, Copy
<1>2. CASE \E step \in {"stage", "copy", "put", "serve"} : Goto(x, step) /\ UNCHANGED <<waiters, result>>
  BY <1>1, <1>2, MoveIsUnnoticed DEF RequestSteps, PopulationSteps
<1>3. CASE \E outcome \in {"notfound", "error"} : FetchFailed(x, outcome)
  BY <1>1, <1>3, FailureIsShared
<1> QED
  BY <1>2, <1>3 DEF Fetch, Describe, Stage, Copy, Verify

LEMMA PopulationIsShared ==
    ASSUME TypeOK, Joined, Populate \/ EndPopulation
    PROVE  Shares
<1>1. pc[Population] # "none" /\ Population \in Fetchers /\ UNCHANGED connected
  BY DEF Populate, EndPopulation, Fetchers
<1>2. CASE Goto(Population, "finish") /\ UNCHANGED <<waiters, result>>
  BY <1>1, <1>2, MoveIsUnnoticed DEF PopulationSteps
<1>3. CASE Finish("error") \/ Finish("ok")
  BY <1>1, <1>3, ReturnIsShared DEF Outcomes
<1> QED
  BY <1>2, <1>3 DEF Populate, EndPopulation

LEMMA EnvironmentIsShared ==
    ASSUME TypeOK, Joined, (\E r \in Requests : HangUp(r)) \/ Evict \/ UNCHANGED vars
    PROVE  Shares
<1>1. ASSUME NEW r \in Requests, HangUp(r) PROVE Shares
  <2>1. connected' = [connected EXCEPT ![r] = FALSE] /\ UNCHANGED <<pc, result, waiters>>
    BY <1>1 DEF HangUp
  <2>2. Joined'
    BY <2>1 DEF Joined
  <2>3. Flight!Cancel(r)
    BY <2>1 DEF Flight!Cancel, TypeOK
  <2> QED
    BY <2>2, <2>3 DEF Shares, Flight!Next
<1>2. CASE Evict \/ UNCHANGED vars
  BY <1>2, Unnoticed DEF Evict, vars
<1> QED
  BY <1>1, <1>2

LEMMA JoinedInit == Init => Joined /\ Flight!Init
  BY DEF Init, Joined, Flight!Init, Fetchers

LEMMA JoinedStep == TypeOK /\ Joined /\ [Next]_vars => Shares
  BY HandleIsShared, FetchIsShared, PopulationIsShared, EnvironmentIsShared DEF Next

\* The population is coalesced as it should be: every step is one of Coalescing, for any number of
\* requests and whatever fails.
THEOREM CoalescingTheorem == Spec => IsCoalesced
<1>1. Init => Joined /\ Flight!Init
  BY JoinedInit
<1>2. TypeOK /\ Joined /\ [Next]_vars => Joined' /\ [Flight!Next]_(Flight!vars)
  BY JoinedStep DEF Shares
<1> QED
  BY <1>1, <1>2, TypeCorrect, PTL DEF Spec, IsCoalesced, Flight!Spec

\* So no request waits for a population that has ended without telling it anything.
THEOREM NobodyIsForgottenTheorem == Spec => []Flight!NobodyIsForgotten
<1>1. Flight!Init => Flight!NobodyIsForgotten
  BY DEF Flight!Init, Flight!NobodyIsForgotten
<1>2. Flight!NobodyIsForgotten /\ [Flight!Next]_(Flight!vars) => Flight!NobodyIsForgotten'
  BY DEF Flight!NobodyIsForgotten, Flight!Next, Flight!vars, Flight!Join, Flight!Return,
         Flight!Receive, Flight!Leave, Flight!Cancel
<1> QED
  BY <1>1, <1>2, CoalescingTheorem, PTL DEF IsCoalesced, Flight!Spec
=============================================================================
