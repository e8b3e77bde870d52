------------------------ MODULE ModuleVersions_proofs ------------------------
(***************************************************************************)
(* The safety properties of ModuleVersions as theorems, for any requests,  *)
(* modules, faults, life span, cooldown and kind of registry.              *)
(***************************************************************************)
EXTENDS ModuleVersions, TLAPS

-----------------------------------------------------------------------------
(* Types *)

LEMMA TypeInit == Init => TypeOK
<1> SUFFICES ASSUME Init PROVE TypeOK
  OBVIOUS
<1>1. cache \in [Modules -> Nat \cup {None}]
  BY DEF Init
<1> QED
  BY <1>1 DEF Init, TypeOK, Steps, FetchSteps, Answers

LEMMA TypeOfHandle ==
    ASSUME TypeOK, NEW r \in Requests, Handle(r)
    PROVE  TypeOK'
<1>1. CASE Load(r)
  BY <1>1 DEF TypeOK, Load, Respond, Steps, Answers, requests, fetches, discovery
<1>2. CASE Join(r)
  BY <1>2 DEF TypeOK, Join, Steps, FetchSteps, discovery
<1>3. CASE Receive(r)
  BY <1>3 DEF TypeOK, Receive, FailedAnswer, Respond, Steps, Answers, fetches, discovery
<1>4. CASE GiveUp(r)
  BY <1>4 DEF TypeOK, GiveUp, FailedAnswer, Respond, Steps, Answers, discovery
<1> QED
  BY <1>1, <1>2, <1>3, <1>4 DEF Handle

LEMMA TypeOfFetch ==
    ASSUME TypeOK, NEW m \in Modules, Fetch(m)
    PROVE  TypeOK'
<1>1. CASE ModulesAPI(m)
  BY <1>1 DEF TypeOK, ModulesAPI, UsePath, FetchSteps, Paths, requests
<1>2. CASE Discover(m)
  BY <1>2, EnvironmentAssumption DEF TypeOK, Discover, UsePath, FetchSteps, Paths, requests
<1>3. CASE ListVersions(m)
  BY <1>3 DEF TypeOK, ListVersions, Finish, FetchSteps, Results, discovery
<1>4. CASE StoreVersions(m)
  BY <1>4 DEF TypeOK, StoreVersions, Finish, FetchSteps, Results, discovery
<1> QED
  BY <1>1, <1>2, <1>3, <1>4 DEF Fetch

LEMMA TypeStep == TypeOK /\ [Next]_vars => TypeOK'
<1> SUFFICES ASSUME TypeOK, [Next]_vars PROVE TypeOK'
  OBVIOUS
<1>1. CASE \E r \in Requests : Handle(r)
  BY <1>1, TypeOfHandle
<1>2. CASE \E m \in Modules : Fetch(m)
  BY <1>2, TypeOfFetch
<1>3. CASE Tick
  BY <1>3 DEF TypeOK, Tick, requests, fetches, discovery
<1>4. CASE \E m \in Modules : Withdraw(m)
  BY <1>4 DEF TypeOK, Withdraw, requests, fetches, discovery
<1>5. CASE \E r \in Requests : HangUp(r)
  BY <1>5 DEF TypeOK, HangUp, fetches, discovery
<1>6. CASE \E m \in Modules : Evict(m)
  BY <1>6 DEF TypeOK, Evict, requests, fetches, discovery
<1>7. CASE UNCHANGED vars
  BY <1>7 DEF TypeOK, vars, requests, fetches, discovery
<1> QED
  BY <1>1, <1>2, <1>3, <1>4, <1>5, <1>6, <1>7 DEF Next

\* Every variable holds a value of its type.
THEOREM TypeCorrect == Spec => []TypeOK
  BY TypeInit, TypeStep, PTL DEF Spec

-----------------------------------------------------------------------------
(* Discovery *)

\* A fetch discovers only while it holds the mutex.
Excludes == \A m \in Modules : fpc[m] = "discover" => mu = m

\* Each attempt but the first came a cooldown after the last failed.
Spaced ==
    RetryAfter > 0 =>
        IF mu = None /\ modulesPath = None
        THEN IF lastAttempt = None THEN attempts = 0
             ELSE lastAttempt <= now /\ attempts <= lastAttempt \div RetryAfter + 1
        ELSE attempts <= now \div RetryAfter + 1

DInv == TypeOK /\ Excludes /\ Spaced

LEMMA DivGrows ==
    ASSUME NEW a \in Nat, NEW b \in Nat, NEW n \in Nat \ {0}, a <= b
    PROVE  a \div n <= b \div n
  OBVIOUS

LEMMA DivSteps ==
    ASSUME NEW a \in Nat, NEW b \in Nat, NEW n \in Nat \ {0}, a + n <= b
    PROVE  a \div n + 1 <= b \div n
  OBVIOUS

LEMMA DivIsNat ==
    ASSUME NEW a \in Nat, NEW n \in Nat \ {0}
    PROVE  a \div n \in Nat
  OBVIOUS

LEMMA DInit == Init => DInv
<1> SUFFICES ASSUME Init PROVE DInv
  OBVIOUS
<1>1. TypeOK
  BY TypeInit
<1> QED
  BY <1>1 DEF Init, DInv, Excludes, Spaced

\* While the clock runs and nothing else of the discovery changes, the bound only grows.
LEMMA SpacedStays ==
    ASSUME DInv, TypeOK', now <= now', UNCHANGED <<mu, modulesPath, lastAttempt, attempts>>
    PROVE  Spaced'
<1> SUFFICES ASSUME RetryAfter > 0 PROVE Spaced'
  BY DEF Spaced
<1>1. RetryAfter \in Nat \ {0} /\ now \in Nat /\ now' \in Nat /\ attempts \in Nat
  BY ClockAssumption DEF DInv, TypeOK
<1>2. now \div RetryAfter <= now' \div RetryAfter
  BY <1>1, DivGrows
<1>3. now \div RetryAfter \in Nat /\ now' \div RetryAfter \in Nat
  BY <1>1, DivIsNat
<1>4. CASE mu = None /\ modulesPath = None /\ lastAttempt # None
  <2>1. lastAttempt \in Nat
    BY <1>4 DEF DInv, TypeOK
  <2> QED
    BY <1>1, <1>4, <2>1 DEF DInv, Spaced
<1>5. CASE mu = None /\ modulesPath = None /\ lastAttempt = None
  BY <1>5 DEF DInv, Spaced
<1>6. CASE ~(mu = None /\ modulesPath = None)
  <2>1. attempts <= now \div RetryAfter + 1
    BY <1>6 DEF DInv, Spaced
  <2>2. attempts' <= now' \div RetryAfter + 1
    <3> DEFINE before == now \div RetryAfter
               after == now' \div RetryAfter
    <3>1. before \in Nat /\ after \in Nat /\ before <= after /\ attempts <= before + 1
      BY <1>2, <1>3, <2>1
    <3>2. attempts' = attempts
      OBVIOUS
    <3> HIDE DEF before, after
    <3>3. attempts' <= after + 1
      BY <1>1, <3>1, <3>2
    <3> QED
      BY <3>3 DEF after
  <2> QED
    BY <1>6, <2>2 DEF Spaced
<1> QED
  BY <1>4, <1>5, <1>6

\* A step that leaves the discovery and its fetches alone.
LEMMA DStays ==
    ASSUME DInv, TypeOK', now <= now', UNCHANGED discovery,
           \A m \in Modules : fpc'[m] = "discover" => fpc[m] = "discover"
    PROVE  DInv'
<1>1. UNCHANGED <<mu, modulesPath, lastAttempt, attempts>>
  BY DEF discovery
<1>2. Excludes'
  BY <1>1 DEF DInv, Excludes
<1> QED
  BY <1>1, <1>2, SpacedStays DEF DInv

LEMMA DModulesAPI ==
    ASSUME DInv, TypeOK', NEW m \in Modules, ModulesAPI(m)
    PROVE  DInv'
<1>1. m # None /\ now \in Nat /\ attempts \in Nat /\ fpc \in [Modules -> FetchSteps]
  BY NamesAssumption DEF DInv, TypeOK
<1>2. CASE UNCHANGED <<mu, attempts>>
  <2>1. UNCHANGED <<now, mu, modulesPath, lastAttempt, attempts>>
    BY <1>2 DEF ModulesAPI
  <2>2. fpc' = [fpc EXCEPT ![m] = "list"]
    BY <1>1, <1>2 DEF ModulesAPI, UsePath, DInv, Excludes
  <2>3. Excludes'
    BY <1>1, <2>1, <2>2 DEF DInv, Excludes
  <2> QED
    BY <1>1, <2>1, <2>3, SpacedStays DEF DInv
<1>3. CASE /\ modulesPath = None /\ ~CoolingDown
           /\ mu' = m /\ fpc' = [fpc EXCEPT ![m] = "discover"] /\ attempts' = attempts + 1
  <2>1. UNCHANGED <<now, modulesPath, lastAttempt>> /\ mu = None
    BY DEF ModulesAPI
  <2>2. Excludes'
    BY <1>1, <1>3, <2>1, NamesAssumption DEF DInv, Excludes
  <2>3. ASSUME RetryAfter > 0
        PROVE  attempts' <= now \div RetryAfter + 1
    <3>1. RetryAfter \in Nat \ {0} /\ now \div RetryAfter \in Nat
      BY <1>1, <2>3, ClockAssumption, DivIsNat
    <3>2. CASE lastAttempt = None
      <4>1. attempts = 0
        BY <1>3, <2>1, <2>3, <3>2 DEF DInv, Spaced
      <4> QED
        BY <1>3, <3>1, <4>1
    <3>3. CASE lastAttempt # None
      <4>1. lastAttempt \in Nat /\ lastAttempt + RetryAfter <= now
        BY <1>1, <1>3, <3>1, <3>3 DEF CoolingDown, DInv, TypeOK
      <4>2. attempts <= lastAttempt \div RetryAfter + 1
        BY <1>3, <2>1, <2>3, <3>3 DEF DInv, Spaced
      <4>3. lastAttempt \div RetryAfter + 1 <= now \div RetryAfter /\ lastAttempt \div RetryAfter \in Nat
        BY <1>1, <3>1, <4>1, DivSteps, DivIsNat
      <4> QED
        BY <1>1, <1>3, <3>1, <4>2, <4>3
    <3> QED
      BY <3>2, <3>3
  <2>4. Spaced'
    BY <1>1, <1>3, <2>1, <2>3 DEF Spaced
  <2> QED
    BY <2>2, <2>4 DEF DInv
<1> QED
  BY <1>2, <1>3 DEF ModulesAPI

LEMMA DDiscover ==
    ASSUME DInv, TypeOK', NEW m \in Modules, Discover(m)
    PROVE  DInv'
<1>1. m # None /\ now \in Nat /\ attempts \in Nat /\ fpc \in [Modules -> FetchSteps]
  BY NamesAssumption DEF DInv, TypeOK
<1>2. mu = m /\ mu' = None /\ UNCHANGED <<now, attempts>>
  BY DEF Discover, DInv, Excludes
<1>3. fpc' = [fpc EXCEPT ![m] = "list"]
  BY DEF Discover, UsePath
<1>4. Excludes'
  BY <1>1, <1>2, <1>3 DEF DInv, Excludes
<1>5. RetryAfter > 0 => attempts' <= now \div RetryAfter + 1
  BY <1>1, <1>2 DEF DInv, Spaced
<1>6. modulesPath' # None \/ (lastAttempt' = now /\ lastAttempt' # None)
  BY <1>1, EnvironmentAssumption, NamesAssumption DEF Discover
<1>7. Spaced'
  BY <1>1, <1>2, <1>5, <1>6 DEF Spaced
<1> QED
  BY <1>4, <1>7 DEF DInv

LEMMA DStep == DInv /\ [Next]_vars => DInv'
<1> SUFFICES ASSUME DInv, [Next]_vars PROVE DInv'
  OBVIOUS
<1>1. TypeOK' /\ now \in Nat /\ now' \in Nat
  BY TypeStep DEF DInv, TypeOK
<1>2. CASE \E r \in Requests : Handle(r)
  <2>1. UNCHANGED <<now, discovery>> /\ fpc \in [Modules -> FetchSteps]
    BY <1>2 DEF Handle, Load, Join, Receive, GiveUp, DInv, TypeOK
  <2>2. \A m \in Modules : fpc'[m] = "discover" => fpc[m] = "discover"
    BY <1>2, <2>1 DEF Handle, Load, Join, Receive, GiveUp, fetches
  <2> QED
    BY <1>1, <2>1, <2>2, DStays
<1>3. ASSUME NEW m \in Modules, Fetch(m) PROVE DInv'
  <2>1. CASE ListVersions(m) \/ StoreVersions(m)
    <3>1. UNCHANGED <<now, discovery>> /\ fpc \in [Modules -> FetchSteps]
      BY <2>1 DEF ListVersions, StoreVersions, DInv, TypeOK
    <3>2. \A n \in Modules : fpc'[n] = "discover" => fpc[n] = "discover"
      BY <2>1, <3>1 DEF ListVersions, StoreVersions, Finish
    <3> QED
      BY <1>1, <3>1, <3>2, DStays
  <2> QED
    BY <1>1, <1>3, <2>1, DModulesAPI, DDiscover DEF Fetch
<1>4. CASE Tick
  BY <1>1, <1>4, DStays DEF Tick, fetches
<1>5. CASE \/ \E m \in Modules : Withdraw(m) \/ Evict(m)
           \/ \E r \in Requests : HangUp(r)
           \/ UNCHANGED vars
  <2>1. UNCHANGED <<now, discovery, fetches>>
    BY <1>5 DEF Withdraw, Evict, HangUp, vars
  <2> QED
    BY <1>1, <2>1, DStays DEF fetches
<1> QED
  BY <1>2, <1>3, <1>4, <1>5 DEF Next

\* However many modules, requests and fetches there are, and whatever the registry does,
\* discovery costs one request per cooldown at the most.
THEOREM DiscoveryTheorem == Spec => []DiscoveryIsCheap
<1>1. DInv => DiscoveryIsCheap
  <2> SUFFICES ASSUME DInv, RetryAfter > 0 PROVE attempts <= now \div RetryAfter + 1
    BY DEF DiscoveryIsCheap
  <2>1. RetryAfter \in Nat \ {0} /\ now \in Nat /\ attempts \in Nat
    BY ClockAssumption DEF DInv, TypeOK
  <2>2. now \div RetryAfter \in Nat
    BY <2>1, DivIsNat
  <2>3. CASE mu = None /\ modulesPath = None /\ lastAttempt # None
    <3>1. lastAttempt \in Nat /\ lastAttempt <= now /\ attempts <= lastAttempt \div RetryAfter + 1
      BY <2>3 DEF DInv, TypeOK, Spaced
    <3>2. lastAttempt \div RetryAfter <= now \div RetryAfter /\ lastAttempt \div RetryAfter \in Nat
      BY <2>1, <3>1, DivGrows, DivIsNat
    <3> QED
      BY <2>1, <2>2, <3>1, <3>2
  <2>4. CASE mu = None /\ modulesPath = None /\ lastAttempt = None
    BY <2>2, <2>4 DEF DInv, Spaced
  <2> QED
    BY <2>3, <2>4 DEF DInv, Spaced
<1> QED
  BY <1>1, DInit, DStep, PTL DEF Spec

-----------------------------------------------------------------------------
(* Refusals *)

\* Whoever asks at a path where the registry does not serve has assumed it.
PathsHaveACause ==
    /\ modulesPath # None => modulesPath = Registry
    /\ lastAttempt # None => assumed
    /\ \A m \in Modules :
        /\ fpc[m] = "list" => api[m] # None
        /\ api[m] # None => ServedAt(api[m]) \/ (assumed /\ Registry = "custom")

\* A fetch answers requests for its own module.
WaitersMatch == \A m \in Modules : \A r \in waiters[m] : module[r] = m

Caused(r, outcome) ==
    /\ outcome = "error" => failed
    /\ outcome = "notfound" => module[r] \in withdrawn \/ (assumed /\ Registry = "custom")

ResultsHaveACause == \A r \in Requests : Caused(r, result[r])

RInv == TypeOK /\ PathsHaveACause /\ WaitersMatch /\ ResultsHaveACause /\ RefusalsHaveACause

\* The causes are not forgotten.
CausesGrow ==
    /\ withdrawn \subseteq withdrawn'
    /\ assumed => assumed'
    /\ failed => failed'

LEMMA RInit == Init => RInv
<1> SUFFICES ASSUME Init PROVE RInv
  OBVIOUS
<1>1. TypeOK
  BY TypeInit
<1>2. PathsHaveACause /\ WaitersMatch
  BY DEF Init, PathsHaveACause, WaitersMatch
<1>3. ResultsHaveACause /\ RefusalsHaveACause
  BY NamesAssumption DEF Init, ResultsHaveACause, Caused, RefusalsHaveACause
<1> QED
  BY <1>1, <1>2, <1>3 DEF RInv

LEMMA ResultsStay ==
    ASSUME RInv, CausesGrow, UNCHANGED module, NEW r \in Requests, result'[r] = result[r]
    PROVE  Caused(r, result[r])'
  BY DEF RInv, ResultsHaveACause, Caused, CausesGrow

LEMMA RefusalsStay ==
    ASSUME RInv, CausesGrow, UNCHANGED <<module, answer>>,
           \A r \in Requests : connected'[r] => connected[r]
    PROVE  RefusalsHaveACause'
  BY DEF RInv, RefusalsHaveACause, CausesGrow

LEMMA PathsStay ==
    ASSUME RInv, assumed => assumed', UNCHANGED <<modulesPath, lastAttempt, api>>,
           \A m \in Modules : fpc'[m] = "list" => fpc[m] = "list"
    PROVE  PathsHaveACause'
  BY DEF RInv, PathsHaveACause, ServedAt

\* The default path is either the registry's, or not where it serves.
LEMMA DefaultIsExcused ==
    "default" # None /\ (ServedAt("default") \/ Registry = "custom")
  BY NamesAssumption DEF ServedAt

\* A fetch given a path with a cause keeps the causes of all paths.
LEMMA PathUsed ==
    ASSUME RInv, NEW m \in Modules, NEW path, UsePath(m, path), path # None,
           ServedAt(path) \/ (assumed' /\ Registry = "custom"), assumed => assumed',
           modulesPath' # None => modulesPath' = Registry, lastAttempt' # None => assumed'
    PROVE  PathsHaveACause'
<1>1. ASSUME NEW n \in Modules
      PROVE  /\ fpc'[n] = "list" => api'[n] # None
             /\ api'[n] # None => ServedAt(api'[n]) \/ (assumed' /\ Registry = "custom")
  BY <1>1 DEF UsePath, RInv, TypeOK, PathsHaveACause
<1> QED
  BY <1>1 DEF PathsHaveACause, ServedAt

\* Answering r is safe if there is a cause, or nobody to tell.
LEMMA AnswerStep ==
    ASSUME RInv, TypeOK', NEW r \in Requests, NEW status, Respond(r, status),
           connected[r] => /\ status \in {"STALE", "502"} => failed
                           /\ status = "404" => Caused(r, "notfound"),
           UNCHANGED <<withdrawn, module, connected, result, fpc, api, discovery, failed>>,
           \A m \in Modules : waiters'[m] \subseteq waiters[m]
    PROVE  RInv'
<1>1. CausesGrow /\ UNCHANGED <<modulesPath, lastAttempt, assumed>>
  BY DEF CausesGrow, discovery
<1>2. PathsHaveACause' /\ WaitersMatch'
  BY <1>1, PathsStay DEF RInv, WaitersMatch
<1>3. ResultsHaveACause'
  BY <1>1, ResultsStay DEF ResultsHaveACause
<1>4. answer' = [answer EXCEPT ![r] = status] /\ answer \in [Requests -> Answers]
  BY DEF Respond, RInv, TypeOK
<1>5. RefusalsHaveACause'
  BY <1>1, <1>4 DEF RInv, RefusalsHaveACause, Caused
<1> QED
  BY <1>2, <1>3, <1>5 DEF RInv

\* FailedAnswer gives each error the cause it came with.
LEMMA FailedAnswerStep ==
    ASSUME RInv, TypeOK', NEW r \in Requests, NEW error \in {"notfound", "error"},
           FailedAnswer(r, error), connected[r] => Caused(r, error),
           UNCHANGED <<withdrawn, module, connected, result, fpc, api, discovery, failed>>,
           \A m \in Modules : waiters'[m] \subseteq waiters[m]
    PROVE  RInv'
<1> DEFINE status == IF error # "notfound" /\ loaded[r] THEN "STALE"
                     ELSE IF error = "notfound" THEN "404" ELSE "502"
<1>1. Respond(r, status)
  BY DEF FailedAnswer
<1>2. connected[r] => /\ status \in {"STALE", "502"} => failed
                      /\ status = "404" => Caused(r, "notfound")
  BY DEF Caused
<1> HIDE DEF status
<1> QED
  BY <1>1, <1>2, AnswerStep

\* The end of m's fetch is safe if its outcome has a cause.
LEMMA FinishStep ==
    ASSUME RInv, TypeOK', NEW m \in Modules, NEW outcome, Finish(m, outcome),
           outcome = "error" => failed',
           outcome = "notfound" => m \in withdrawn \/ (assumed /\ Registry = "custom"),
           failed => failed', UNCHANGED <<withdrawn, module, connected, answer, discovery>>
    PROVE  RInv'
<1>1. CausesGrow /\ UNCHANGED <<modulesPath, lastAttempt, assumed>>
  BY DEF CausesGrow, discovery
<1>2. PathsHaveACause' /\ WaitersMatch'
  BY <1>1 DEF RInv, TypeOK, PathsHaveACause, WaitersMatch, Finish, ServedAt
<1>3. ASSUME NEW r \in Requests PROVE Caused(r, result[r])'
  <2>1. result'[r] = IF r \in waiters[m] THEN outcome ELSE result[r]
    BY DEF Finish
  <2>2. CASE r \in waiters[m]
    <3>1. module'[r] = m
      BY <2>2 DEF RInv, WaitersMatch
    <3> QED
      BY <1>1, <2>1, <2>2, <3>1 DEF Caused
  <2> QED
    BY <1>1, <2>1, <2>2, ResultsStay
<1>4. RefusalsHaveACause'
  BY <1>1, RefusalsStay
<1> QED
  BY <1>2, <1>3, <1>4 DEF RInv, ResultsHaveACause

LEMMA RHandle ==
    ASSUME RInv, TypeOK', NEW r \in Requests, Handle(r)
    PROVE  RInv'
<1>1. CASE Load(r)
  <2>1. UNCHANGED <<withdrawn, module, connected, result, fpc, api, waiters, discovery, failed>>
    BY <1>1 DEF Load, fetches
  <2>2. CASE Respond(r, "HIT")
    BY <2>1, <2>2, AnswerStep
  <2>3. CASE UNCHANGED answer
    <3>1. CausesGrow /\ UNCHANGED <<modulesPath, lastAttempt, assumed>>
      BY <2>1 DEF CausesGrow, discovery
    <3>2. PathsHaveACause' /\ WaitersMatch'
      BY <2>1, <3>1, PathsStay DEF RInv, WaitersMatch
    <3>3. ResultsHaveACause' /\ RefusalsHaveACause'
      BY <2>1, <2>3, <3>1, ResultsStay, RefusalsStay DEF ResultsHaveACause
    <3> QED
      BY <3>2, <3>3 DEF RInv
  <2> QED
    BY <1>1, <2>2, <2>3 DEF Load
<1>2. CASE Join(r)
  <2>1. CausesGrow /\ UNCHANGED <<modulesPath, lastAttempt, assumed, api, module, connected, answer, result>>
    BY <1>2 DEF Join, CausesGrow, discovery
  <2>2. PathsHaveACause'
    <3>1. \A m \in Modules : fpc'[m] = "list" => fpc[m] = "list"
      BY <1>2 DEF Join, RInv, TypeOK
    <3> QED
      BY <2>1, <3>1, PathsStay
  <2>3. WaitersMatch'
    BY <1>2, <2>1 DEF Join, RInv, TypeOK, WaitersMatch
  <2>4. ResultsHaveACause' /\ RefusalsHaveACause'
    BY <2>1, ResultsStay, RefusalsStay DEF ResultsHaveACause
  <2> QED
    BY <2>2, <2>3, <2>4 DEF RInv
<1>3. CASE Receive(r)
  <2>1. UNCHANGED <<withdrawn, module, connected, result, fpc, api, waiters, discovery, failed>>
    BY <1>3 DEF Receive, fetches
  <2>2. CASE Respond(r, "MISS")
    BY <2>1, <2>2, AnswerStep
  <2>3. CASE result[r] # "ok" /\ FailedAnswer(r, result[r])
    <3>1. result[r] \in {"notfound", "error"}
      BY <1>3, <2>3 DEF Receive, RInv, TypeOK, Results
    <3>2. Caused(r, result[r])
      BY DEF RInv, ResultsHaveACause
    <3> QED
      BY <2>1, <2>3, <3>1, <3>2, FailedAnswerStep
  <2> QED
    BY <1>3, <2>2, <2>3 DEF Receive
<1>4. CASE GiveUp(r)
  <2>1. UNCHANGED <<withdrawn, module, connected, result, fpc, api, discovery, failed>>
    BY <1>4 DEF GiveUp
  <2>2. FailedAnswer(r, "error") /\ ~connected[r]
    BY <1>4 DEF GiveUp
  <2>3. \A m \in Modules : waiters'[m] \subseteq waiters[m]
    BY <1>4 DEF GiveUp, RInv, TypeOK
  <2> QED
    BY <2>1, <2>2, <2>3, FailedAnswerStep
<1> QED
  BY <1>1, <1>2, <1>3, <1>4 DEF Handle

LEMMA RFetch ==
    ASSUME RInv, TypeOK', NEW m \in Modules, Fetch(m)
    PROVE  RInv'
<1>1. CASE ModulesAPI(m) \/ Discover(m)
  <2>1. /\ UNCHANGED <<withdrawn, module, connected, result, answer, waiters, failed>>
        /\ assumed => assumed'
    BY <1>1 DEF ModulesAPI, Discover, requests
  <2>2. CausesGrow
    BY <2>1 DEF CausesGrow
  <2>3. PathsHaveACause'
    <3>1. CASE ModulesAPI(m)
      <4>1. UNCHANGED <<modulesPath, lastAttempt, assumed>>
        BY <3>1 DEF ModulesAPI
      <4>2. CASE modulesPath # None /\ UsePath(m, modulesPath)
        <5>1. modulesPath = Registry /\ modulesPath \in Paths
          BY <4>2 DEF RInv, TypeOK, PathsHaveACause
        <5>2. ServedAt(modulesPath)
          BY <5>1 DEF ServedAt, Paths
        <5> QED
          BY <4>1, <4>2, <5>2, PathUsed DEF RInv, PathsHaveACause
      <4>3. CASE CoolingDown /\ UsePath(m, "default")
        <5>1. assumed
          BY <4>3 DEF CoolingDown, RInv, PathsHaveACause
        <5> QED
          BY <4>1, <4>3, <5>1, DefaultIsExcused, PathUsed DEF RInv, PathsHaveACause
      <4>4. CASE fpc' = [fpc EXCEPT ![m] = "discover"] /\ UNCHANGED api
        <5>1. \A n \in Modules : fpc'[n] = "list" => fpc[n] = "list"
          BY <4>4 DEF RInv, TypeOK
        <5> QED
          BY <4>1, <4>4, <5>1, PathsStay
      <4> QED
        BY <3>1, <4>2, <4>3, <4>4 DEF ModulesAPI
    <3>2. CASE Discover(m)
      <4>1. CASE Registry # "none" /\ modulesPath' = Registry /\ UsePath(m, Registry)
                 /\ UNCHANGED <<lastAttempt, assumed>>
        <5>1. ServedAt(Registry) /\ Registry # None
          BY <4>1, EnvironmentAssumption, NamesAssumption DEF ServedAt
        <5> QED
          BY <4>1, <5>1, PathUsed DEF RInv, PathsHaveACause
      <4>2. CASE assumed' = TRUE /\ UsePath(m, "default") /\ UNCHANGED modulesPath
        BY <4>2, DefaultIsExcused, PathUsed DEF RInv, PathsHaveACause
      <4> QED
        BY <3>2, <4>1, <4>2 DEF Discover
    <3> QED
      BY <1>1, <3>1, <3>2
  <2>4. WaitersMatch'
    BY <2>1 DEF RInv, WaitersMatch
  <2>5. ResultsHaveACause' /\ RefusalsHaveACause'
    BY <2>1, <2>2, ResultsStay, RefusalsStay DEF ResultsHaveACause
  <2> QED
    BY <2>3, <2>4, <2>5 DEF RInv
<1>2. CASE ListVersions(m)
  <2>1. UNCHANGED <<withdrawn, module, connected, answer, discovery>>
    BY <1>2 DEF ListVersions
  <2>2. CASE fpc' = [fpc EXCEPT ![m] = "store"] /\ UNCHANGED <<result, waiters, api, failed>>
    <3>1. CausesGrow /\ UNCHANGED <<modulesPath, lastAttempt, assumed>>
      BY <2>1, <2>2 DEF CausesGrow, discovery
    <3>2. PathsHaveACause' /\ WaitersMatch'
      BY <2>1, <2>2, <3>1, PathsStay DEF RInv, TypeOK, WaitersMatch
    <3>3. ResultsHaveACause' /\ RefusalsHaveACause'
      BY <2>1, <2>2, <3>1, ResultsStay, RefusalsStay DEF ResultsHaveACause
    <3> QED
      BY <3>2, <3>3 DEF RInv
  <2>3. CASE (~ServedAt(api[m]) \/ m \in withdrawn) /\ Finish(m, "notfound") /\ UNCHANGED failed
    <3>1. m \in withdrawn \/ (assumed /\ Registry = "custom")
      BY <1>2, <2>3 DEF ListVersions, RInv, PathsHaveACause
    <3> QED
      BY <2>1, <2>3, <3>1, FinishStep
  <2>4. CASE Finish(m, "error") /\ failed' = TRUE
    BY <2>1, <2>4, FinishStep
  <2> QED
    BY <1>2, <2>2, <2>3, <2>4 DEF ListVersions
<1>3. CASE StoreVersions(m)
  BY <1>3, FinishStep DEF StoreVersions
<1> QED
  BY <1>1, <1>2, <1>3 DEF Fetch

LEMMA RStep == RInv /\ [Next]_vars => RInv'
<1> SUFFICES ASSUME RInv, [Next]_vars PROVE RInv'
  OBVIOUS
<1>1. TypeOK'
  BY TypeStep DEF RInv
<1>2. CASE \E r \in Requests : Handle(r)
  BY <1>1, <1>2, RHandle
<1>3. CASE \E m \in Modules : Fetch(m)
  BY <1>1, <1>3, RFetch
<1>4. CASE \/ Tick
           \/ \E m \in Modules : Withdraw(m) \/ Evict(m)
           \/ \E r \in Requests : HangUp(r)
           \/ UNCHANGED vars
  <2>1. /\ UNCHANGED <<module, result, answer, fetches, discovery, failed>>
        /\ withdrawn \subseteq withdrawn'
    BY <1>4 DEF Tick, Withdraw, Evict, HangUp, vars, requests
  <2>2. \A r \in Requests : connected'[r] => connected[r]
    BY <1>4 DEF Tick, Withdraw, Evict, HangUp, vars, requests, RInv, TypeOK
  <2>3. CausesGrow
    BY <2>1 DEF CausesGrow, discovery
  <2>4. PathsHaveACause' /\ WaitersMatch'
    BY <2>1, PathsStay DEF RInv, WaitersMatch, fetches, discovery
  <2>5. ResultsHaveACause' /\ RefusalsHaveACause'
    BY <2>1, <2>2, <2>3, ResultsStay, RefusalsStay DEF ResultsHaveACause
  <2> QED
    BY <1>1, <2>4, <2>5 DEF RInv
<1> QED
  BY <1>2, <1>3, <1>4 DEF Next

\* A client that stayed is served stale, or refused, only for a failure of the registry's, for
\* a withdrawn module, or because discovery failed and the registry's path is another.
THEOREM RefusalsTheorem == Spec => []RefusalsHaveACause
<1>1. RInv => RefusalsHaveACause
  BY DEF RInv
<1> QED
  BY <1>1, RInit, RStep, PTL DEF Spec

\* Whoever is told "not found", connected or not, is told so for a cause.
NotFoundHasACause == \A r \in Requests : answer[r] = "404" => Caused(r, "notfound")

LEMMA NotFoundStep == RInv /\ NotFoundHasACause /\ [Next]_vars => NotFoundHasACause'
<1> SUFFICES ASSUME RInv, NotFoundHasACause, [Next]_vars, NEW r \in Requests, answer'[r] = "404"
             PROVE  Caused(r, "notfound")'
  BY DEF NotFoundHasACause
<1>1. CausesGrow /\ UNCHANGED module
  BY DEF Next, Handle, Load, Join, Receive, GiveUp, Fetch, ModulesAPI, Discover, ListVersions,
         StoreVersions, Tick, Withdraw, HangUp, Evict, vars, requests, discovery, CausesGrow
<1>2. CASE answer[r] = "404"
  BY <1>1, <1>2 DEF NotFoundHasACause, Caused, CausesGrow
<1>3. CASE answer[r] # "404"
  <2>1. PICK q \in Requests : Load(q) \/ Receive(q) \/ GiveUp(q)
    BY <1>3 DEF Next, Handle, Join, Fetch, ModulesAPI, Discover, ListVersions, StoreVersions, Tick,
       Withdraw, HangUp, Evict, vars, requests
  <2>2. q = r /\ Receive(r) /\ result[r] = "notfound"
    BY <1>3, <2>1 DEF Load, Receive, GiveUp, FailedAnswer, Respond, RInv, TypeOK
  <2>3. Caused(r, "notfound")
    BY <2>2 DEF RInv, ResultsHaveACause
  <2> QED
    BY <1>1, <2>3 DEF Caused, CausesGrow
<1> QED
  BY <1>2, <1>3

\* What it takes for a cached module to outlive an outage: a registry that serves it at the path
\* the mirror assumes while it cannot ask.
THEOREM OutageTheorem == Registry # "custom" => (Spec => []CachedSurvivesOutage)
<1> SUFFICES ASSUME Registry # "custom" PROVE Spec => []CachedSurvivesOutage
  OBVIOUS
<1>1. Init => NotFoundHasACause
  BY DEF Init, NotFoundHasACause
<1>2. NotFoundHasACause => CachedSurvivesOutage
  BY DEF NotFoundHasACause, Caused, CachedSurvivesOutage
<1> QED
  BY <1>1, <1>2, NotFoundStep, RInit, RStep, PTL DEF Spec

-----------------------------------------------------------------------------
(* Coalescing *)

\* The fetch of a module, running, has a result coming for exactly those who wait for it without
\* one; who has not come to wait has nothing of it yet.
Joined ==
    /\ WaitersMatch
    /\ \A m \in Modules : waiters[m] # {} => fpc[m] # "none"
    /\ \A r \in Requests :
        /\ pc[r] = "wait" => (r \in waiters[module[r]] <=> result[r] = None)
        /\ pc[r] \in {"start", "join"} => r \notin waiters[module[r]] /\ result[r] = None

Shares == Joined' /\ \A m \in Modules : [Flight(m)!Next]_(Flight(m)!vars)

\* A step that those who wait do not notice.
LEMMA Unnoticed ==
    ASSUME Joined, UNCHANGED <<module, connected, result, waiters>>,
           \A m \in Modules : (fpc'[m] # "none") = (fpc[m] # "none"),
           \A r \in Requests :
               pc'[r] = pc[r] \/ (pc[r] \in {"start", "join"} /\ pc'[r] \in {"join", "done"})
    PROVE  Shares
<1>1. \A r \in Requests : (pc'[r] = "wait") = (pc[r] = "wait")
  OBVIOUS
<1>2. Joined'
  BY DEF Joined, WaitersMatch
<1>3. ASSUME NEW m \in Modules PROVE UNCHANGED Flight(m)!vars
  BY <1>1 DEF Flight!vars
<1> QED
  BY <1>2, <1>3 DEF Shares

\* A step of one request, before, in or after its wait, is one of its module's flight only.
LEMMA OneFlight ==
    ASSUME Joined', NEW r \in Requests, NEW m \in Modules, module[r] = m,
           UNCHANGED <<module, connected, result>>,
           \A q \in Requests \ {r} : pc'[q] = pc[q],
           \A n \in Modules \ {m} : fpc'[n] = fpc[n],
           Flight(m)!Next
    PROVE  Shares
<1>1. ASSUME NEW n \in Modules, n # m PROVE UNCHANGED Flight(n)!vars
  BY <1>1 DEF Flight!vars
<1> QED
  BY <1>1 DEF Shares

\* The end of m's fetch is the return of what its requests share.
LEMMA ReturnIsShared ==
    ASSUME TypeOK, Joined, NEW m \in Modules, fpc[m] # "none", NEW outcome \in Results,
           Finish(m, outcome), UNCHANGED <<module, pc, connected>>
    PROVE  Shares
<1>1. /\ result' = [r \in Requests |-> IF r \in waiters[m] THEN outcome ELSE result[r]]
      /\ waiters' = [waiters EXCEPT ![m] = {}] /\ fpc' = [fpc EXCEPT ![m] = "none"]
  BY DEF Finish
<1>2. outcome # None /\ \A r \in waiters[m] : module[r] = m
  BY NamesAssumption DEF Results, Joined, WaitersMatch
<1>3. \A r \in Requests : module[r] # m => result'[r] = result[r]
  BY <1>1, <1>2
<1>4. Joined'
  <2>1. WaitersMatch' /\ \A n \in Modules : waiters'[n] # {} => fpc'[n] # "none"
    BY <1>1 DEF Joined, WaitersMatch, TypeOK
  <2>2. ASSUME NEW r \in Requests
        PROVE  /\ pc'[r] = "wait" => (r \in waiters'[module'[r]] <=> result'[r] = None)
               /\ pc'[r] \in {"start", "join"} => r \notin waiters'[module'[r]] /\ result'[r] = None
    <3>1. CASE module[r] = m
      BY <1>1, <1>2, <3>1 DEF Joined, TypeOK
    <3>2. CASE module[r] # m
      BY <1>1, <1>3, <3>2 DEF Joined, TypeOK
    <3> QED
      BY <3>1, <3>2
  <2> QED
    BY <2>1, <2>2 DEF Joined
<1>5. \A r \in Requests : module[r] = m /\ pc[r] = "wait" => (r \in waiters[m] <=> result[r] = None)
  BY DEF Joined
<1>6. Flight(m)!Return(outcome)
  <2>1. fpc'[m] = "none"
    BY <1>1 DEF TypeOK
  <2> QED
    BY <1>1, <1>2, <1>5, <2>1 DEF Flight!Return
<1>7. ASSUME NEW n \in Modules, n # m PROVE UNCHANGED Flight(n)!vars
  <2>1. fpc'[n] = fpc[n]
    BY <1>1, <1>7 DEF TypeOK
  <2> QED
    BY <1>3, <1>7, <2>1 DEF Flight!vars
<1> QED
  BY <1>4, <1>6, <1>7 DEF Shares, Flight!Next

LEMMA HandleIsShared ==
    ASSUME TypeOK, Joined, NEW r \in Requests, Handle(r)
    PROVE  Shares
<1> PICK m \in Modules : module[r] = m
  BY DEF TypeOK
<1>1. /\ pc \in [Requests -> Steps] /\ fpc \in [Modules -> FetchSteps]
      /\ waiters \in [Modules -> SUBSET Requests]
  BY DEF TypeOK
<1>2. CASE Load(r)
  BY <1>1, <1>2, Unnoticed DEF Load, Respond, fetches
<1>3. CASE Join(r)
  <2>1. /\ pc[r] = "join" /\ pc' = [pc EXCEPT ![r] = "wait"]
        /\ waiters' = [waiters EXCEPT ![m] = @ \cup {r}]
        /\ fpc'[m] # "none" /\ UNCHANGED <<module, connected, result>>
        /\ \A n \in Modules \ {m} : fpc'[n] = fpc[n]
    BY <1>1, <1>3 DEF Join
  <2>2. result[r] = None
    BY <2>1 DEF Joined
  <2>3. Joined'
    BY <1>1, <2>1, <2>2 DEF Joined, WaitersMatch
  <2>4. Flight(m)!Join(r)
    BY <1>1, <2>1, <2>2 DEF Flight!Join
  <2> QED
    BY <1>1, <2>1, <2>3, <2>4, OneFlight DEF Flight!Next
<1>4. CASE Receive(r)
  <2>1. /\ pc[r] = "wait" /\ result[r] # None /\ pc' = [pc EXCEPT ![r] = "done"]
        /\ UNCHANGED <<module, connected, result, fpc, waiters>>
    BY <1>4 DEF Receive, FailedAnswer, Respond, fetches
  <2>2. Joined'
    BY <1>1, <2>1 DEF Joined, WaitersMatch
  <2>3. Flight(m)!Receive(r)
    BY <1>1, <2>1 DEF Flight!Receive
  <2> QED
    BY <1>1, <2>1, <2>2, <2>3, OneFlight DEF Flight!Next
<1>5. CASE GiveUp(r)
  <2>1. /\ pc[r] = "wait" /\ ~connected[r] /\ pc' = [pc EXCEPT ![r] = "done"]
        /\ waiters' = [waiters EXCEPT ![m] = @ \ {r}]
        /\ UNCHANGED <<module, connected, result, fpc>>
    BY <1>5 DEF GiveUp, FailedAnswer, Respond
  <2>2. Joined'
    BY <1>1, <2>1 DEF Joined, WaitersMatch
  <2>3. Flight(m)!Leave(r)
    BY <1>1, <2>1 DEF Flight!Leave
  <2> QED
    BY <1>1, <2>1, <2>2, <2>3, OneFlight DEF Flight!Next
<1> QED
  BY <1>2, <1>3, <1>4, <1>5 DEF Handle

LEMMA FetchIsShared ==
    ASSUME TypeOK, Joined, NEW m \in Modules, Fetch(m)
    PROVE  Shares
<1>1. CASE ModulesAPI(m) \/ Discover(m)
  <2>1. fpc' = [fpc EXCEPT ![m] = "list"] \/ fpc' = [fpc EXCEPT ![m] = "discover"]
    BY <1>1 DEF ModulesAPI, Discover, UsePath
  <2>2. fpc[m] # "none" /\ UNCHANGED <<requests, waiters>>
    BY <1>1 DEF ModulesAPI, Discover
  <2>3. \A n \in Modules : (fpc'[n] # "none") = (fpc[n] # "none")
    BY <2>1, <2>2 DEF TypeOK
  <2> QED
    BY <2>2, <2>3, Unnoticed DEF requests
<1>2. CASE ListVersions(m)
  <2>1. fpc[m] # "none" /\ UNCHANGED <<module, pc, connected>>
    BY <1>2 DEF ListVersions
  <2>2. CASE fpc' = [fpc EXCEPT ![m] = "store"] /\ UNCHANGED <<result, waiters>>
    <3>1. \A n \in Modules : (fpc'[n] # "none") = (fpc[n] # "none")
      BY <2>1, <2>2 DEF TypeOK
    <3> QED
      BY <2>1, <2>2, <3>1, Unnoticed
  <2>3. CASE \E outcome \in Results : Finish(m, outcome)
    BY <2>1, <2>3, ReturnIsShared
  <2> QED
    BY <1>2, <2>2, <2>3 DEF ListVersions, Results
<1>3. CASE StoreVersions(m)
  BY <1>3, ReturnIsShared DEF StoreVersions, Results
<1> QED
  BY <1>1, <1>2, <1>3 DEF Fetch

LEMMA EnvironmentIsShared ==
    ASSUME TypeOK, Joined,
           \/ Tick \/ UNCHANGED vars
           \/ \E m \in Modules : Withdraw(m) \/ Evict(m)
           \/ \E r \in Requests : HangUp(r)
    PROVE  Shares
<1>1. ASSUME NEW r \in Requests, HangUp(r) PROVE Shares
  <2>1. /\ connected' = [connected EXCEPT ![r] = FALSE]
        /\ UNCHANGED <<module, pc, result, fpc, waiters>>
    BY <1>1 DEF HangUp, fetches
  <2>2. Joined'
    BY <2>1 DEF Joined, WaitersMatch
  <2>3. ASSUME NEW m \in Modules PROVE Flight(m)!Cancel(r)
    BY <2>1 DEF Flight!Cancel, TypeOK
  <2> QED
    BY <2>2, <2>3 DEF Shares, Flight!Next
<1>2. CASE Tick \/ UNCHANGED vars \/ \E m \in Modules : Withdraw(m) \/ Evict(m)
  BY <1>2, Unnoticed DEF Tick, Withdraw, Evict, vars, requests, fetches
<1> QED
  BY <1>1, <1>2

LEMMA JoinedInit == Init => Joined /\ \A m \in Modules : Flight(m)!Init
  BY DEF Init, Joined, WaitersMatch, Flight!Init

LEMMA JoinedStep == TypeOK /\ Joined /\ [Next]_vars => Shares
  BY HandleIsShared, FetchIsShared, EnvironmentIsShared DEF Next

\* The fetches of all modules are coalesced as they should be, although they share a mutex:
\* every step is one of Coalescing, or none, for every module, however many there are.
THEOREM CoalescingTheorem == Spec => IsCoalesced
<1>1. Init => Joined /\ \A m \in Modules : Flight(m)!Init
  BY JoinedInit
<1>2. TypeOK /\ Joined /\ [Next]_vars =>
          Joined' /\ \A m \in Modules : [Flight(m)!Next]_(Flight(m)!vars)
  BY JoinedStep DEF Shares
<1> QED
  BY <1>1, <1>2, TypeCorrect, PTL DEF Spec, IsCoalesced

\* So no request waits for a fetch that has ended without telling it anything.
THEOREM NobodyIsForgottenTheorem == Spec => [](\A m \in Modules : Flight(m)!NobodyIsForgotten)
<1> DEFINE Nobody == \A m \in Modules : Flight(m)!NobodyIsForgotten
<1>1. (\A m \in Modules : Flight(m)!Init) => Nobody
  BY DEF Flight!Init, Flight!NobodyIsForgotten
<1>2. Nobody /\ [\A m \in Modules : [Flight(m)!Next]_(Flight(m)!vars)]_vars => Nobody'
  <2>1. ASSUME NEW m \in Modules, Flight(m)!NobodyIsForgotten, [Flight(m)!Next]_(Flight(m)!vars)
        PROVE  Flight(m)!NobodyIsForgotten'
    BY <2>1 DEF Flight!NobodyIsForgotten, Flight!Next, Flight!vars, Flight!Join, Flight!Return,
       Flight!Receive, Flight!Leave, Flight!Cancel
  <2>2. ASSUME Nobody, UNCHANGED vars PROVE Nobody'
    BY <2>2 DEF Flight!NobodyIsForgotten, vars, requests, fetches
  <2> QED
    BY <2>1, <2>2
<1> QED
  BY <1>1, <1>2, CoalescingTheorem, PTL DEF IsCoalesced
=============================================================================
