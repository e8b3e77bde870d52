------------------------- MODULE ModuleMirror_proofs -------------------------
(***************************************************************************)
(* The safety properties of ModuleMirror as theorems: for any number of    *)
(* clients, whatever fails, any resolution of the clock and any life span  *)
(* of a link.                                                              *)
(***************************************************************************)
EXTENDS ModuleMirror, TLAPS

USE NamesAssumption, EnvironmentAssumption, ClockAssumption

Steps == ClientSteps \cup PopulationSteps \cup ResolverSteps

\* The steps at which a fetcher has a file in the staging directory.
StagingSteps == {"copy", "put", "finish", "serve"}

\* Whoever a population will answer is waiting for it and has heard nothing.
WaitersWait ==
    /\ \A x \in waiters["location"] : pc[x] = "waitlocation" /\ result[x] = None
    /\ \A c \in waiters["archive"]  : pc[c] = "wait" /\ result[c] = None

\* A waiter hears only what the population it waits for can say, and that has a cause.
ResultsHaveACause ==
    \A x \in Fetchers :
        /\ pc[x] = "waitlocation" => result[x] # "ok"
        /\ pc[x] = "wait" => result[x] \notin {"source", "bypass"}
        /\ result[x] = "error" => trouble
        /\ result[x] = "notfound" => gone \/ moved
        /\ result[x] = "bypass" => moved

\* A source that cannot be hosted is named only after upstream has named one.
BypassHasACause ==
    /\ location = "bypass" => moved
    /\ pc[Resolver] = "bypass" => moved

IInv ==
    /\ TypeOK
    /\ StagingIsClean
    /\ WaitersWait
    /\ ResultsHaveACause
    /\ BypassHasACause
    /\ RefusalsHaveACause

LEMMA InvInit == Init => IInv
<1> SUFFICES ASSUME Init PROVE IInv
  OBVIOUS
<1>1. TypeOK
  BY DEF Init, TypeOK, Fetchers, ClientSteps, PopulationSteps, ResolverSteps, LookupSteps, Statuses
<1>2. StagingIsClean /\ WaitersWait
  BY DEF Init, StagingIsClean, WaitersWait, Fetchers
<1>3. ResultsHaveACause /\ BypassHasACause /\ RefusalsHaveACause
  BY DEF Init, ResultsHaveACause, BypassHasACause, RefusalsHaveACause, Fetchers
<1> QED
  BY <1>1, <1>2, <1>3 DEF IInv

-----------------------------------------------------------------------------
(* Lemmas about the kinds of step the actions are made of *)

\* Failures and refusals of upstream's are not forgotten.
HistoryGrows ==
    /\ trouble' \in BOOLEAN /\ gone' \in BOOLEAN /\ moved' \in BOOLEAN /\ degraded' \in BOOLEAN
    /\ trouble => trouble'
    /\ gone => gone'
    /\ moved => moved'

\* What the invariant does not relate to anything keeps its type.
LooseTyped ==
    /\ now' \in Nat /\ archive' \in BOOLEAN
    /\ endpoint' \in [Clients -> {"download", "archive"}]
    /\ link' \in [Clients -> Nat \cup {None}]
    /\ handed' \in [Clients -> Nat \cup {None}]

\* A reason to tell c this status, or nobody to tell.
Caused(c, status) ==
    connected[c] =>
        /\ status \in {500, 502} => trouble'
        /\ status = 404 => gone' \/ moved'

\* Answering a client for a reason is safe.
LEMMA RespondStep ==
    ASSUME IInv, NEW c \in Clients, NEW status \in Statuses,
           Respond(c, status), Caused(c, status), HistoryGrows, LooseTyped,
           waiters' \in [location: SUBSET Fetchers, archive: SUBSET Clients],
           waiters'["location"] \subseteq waiters["location"] \ {c},
           waiters'["archive"] \subseteq waiters["archive"] \ {c},
           result' \in {result, [result EXCEPT ![c] = None]},
           staged' = staged \ {c},
           UNCHANGED <<location, connected>>
    PROVE  IInv'
<1>1. /\ c \in Fetchers /\ c # Population /\ c # Resolver
      /\ pc' = [pc EXCEPT ![c] = "done"]
      /\ answer' = [answer EXCEPT ![c] = status]
  BY DEF Fetchers, Respond, Goto
<1>2. TypeOK'
  BY <1>1 DEF IInv, TypeOK, HistoryGrows, LooseTyped, ClientSteps, Fetchers
<1>3. StagingIsClean' /\ WaitersWait'
  BY <1>1 DEF IInv, TypeOK, StagingIsClean, WaitersWait, Fetchers
<1>4. ResultsHaveACause' /\ BypassHasACause'
  BY <1>1 DEF IInv, TypeOK, ResultsHaveACause, BypassHasACause, HistoryGrows, Fetchers
<1>5. RefusalsHaveACause'
  BY <1>1 DEF IInv, TypeOK, RefusalsHaveACause, HistoryGrows, Caused
<1> QED
  BY <1>2, <1>3, <1>4, <1>5 DEF IInv

\* So is moving a fetcher nobody will answer on to a step with the right staging file.
LEMMA MoveStep ==
    ASSUME IInv, NEW x \in Fetchers, NEW step,
           step \in IF x = Population THEN PopulationSteps ELSE ClientSteps,
           step \notin {"waitlocation", "wait"},
           pc[x] \in {"waitlocation", "wait"} => result[x] # None,
           Goto(x, step),
           staged' = IF step \in StagingSteps THEN staged \cup {x} ELSE staged \ {x},
           answer' = answer
              \/ (x \in Clients /\ \E s \in {204} : answer' = [answer EXCEPT ![x] = s]),
           HistoryGrows, LooseTyped,
           UNCHANGED <<location, connected, flights>>
    PROVE  IInv'
<1>1. /\ x # Resolver /\ pc' = [pc EXCEPT ![x] = step]
      /\ UNCHANGED <<waiters, result>>
  BY DEF Fetchers, Goto, flights
<1>2. x \notin waiters["location"] /\ x \notin waiters["archive"]
  BY DEF IInv, WaitersWait
<1>3. /\ answer' \in [Clients -> Statuses]
      /\ \A c \in Clients : answer'[c] = answer[c] \/ answer'[c] = 204
  BY DEF IInv, TypeOK, Statuses
<1>4. TypeOK'
  BY <1>1, <1>3 DEF IInv, TypeOK, HistoryGrows, LooseTyped, Fetchers
<1>5. StagingIsClean' /\ WaitersWait'
  BY <1>1, <1>2 DEF IInv, TypeOK, StagingIsClean, WaitersWait, StagingSteps, Fetchers
<1>6. ResultsHaveACause' /\ BypassHasACause'
  BY <1>1 DEF IInv, TypeOK, ResultsHaveACause, BypassHasACause, HistoryGrows
<1>7. RefusalsHaveACause'
  BY <1>3 DEF IInv, RefusalsHaveACause, HistoryGrows
<1> QED
  BY <1>4, <1>5, <1>6, <1>7 DEF IInv

\* So is joining a key's population, and starting it.
LEMMA CoalesceStep ==
    ASSUME IInv, NEW x \in Fetchers,
           NEW key \in {"location", "archive"}, NEW step, NEW runner, NEW first,
           \/ key = "location" /\ step = "waitlocation" /\ runner = Resolver /\ first = "ask"
           \/ /\ key = "archive" /\ step = "wait" /\ runner = Population /\ first = "lookup"
              /\ x \in Clients,
           Coalesce(x, key, step, runner, first),
           pc[x] \notin StagingSteps \cup {"waitlocation", "wait", "none"},
           LooseTyped,
           UNCHANGED <<location, connected, staged, answer, history>>
    PROVE  IInv'
<1>1. /\ waiters' = [waiters EXCEPT ![key] = @ \cup {x}]
      /\ result' = [result EXCEPT ![x] = None]
      /\ x # runner /\ x # Resolver
      /\ UNCHANGED <<trouble, gone, moved, degraded>>
  BY DEF Coalesce, Fetchers, history, IInv, TypeOK, ClientSteps, LookupSteps
<1>2. /\ pc' = [pc EXCEPT ![x] = step, ![runner] = IF @ = "none" THEN first ELSE @]
      /\ runner \in Fetchers \cup {Resolver}
  BY DEF Coalesce, Fetchers
<1>3. /\ pc' \in [Fetchers \cup {Resolver} -> Steps]
      /\ pc'[x] = step
      /\ pc'[runner] = IF pc[runner] = "none" THEN first ELSE pc[runner]
      /\ \A y \in (Fetchers \cup {Resolver}) \ {x, runner} : pc'[y] = pc[y]
  BY <1>1, <1>2 DEF IInv, TypeOK, Steps, ClientSteps, PopulationSteps, ResolverSteps, LookupSteps
<1>4. x \notin waiters["location"] /\ x \notin waiters["archive"]
  BY DEF IInv, WaitersWait
<1>5. runner \in Fetchers => (pc[runner] = "none" => runner \notin waiters["location"] \cup waiters["archive"])
  BY DEF IInv, WaitersWait
<1>6. TypeOK'
  <2>1. waiters' \in [location: SUBSET Fetchers, archive: SUBSET Clients]
    BY <1>1 DEF IInv, TypeOK
  <2>2. /\ \A c \in Clients : pc'[c] \in ClientSteps
        /\ pc'[Population] \in PopulationSteps /\ pc'[Resolver] \in ResolverSteps
    BY <1>1, <1>2, <1>3 DEF IInv, TypeOK, ClientSteps, PopulationSteps, ResolverSteps,
                            LookupSteps, Fetchers
  <2> QED
    BY <1>1, <1>3, <2>1, <2>2 DEF IInv, TypeOK, LooseTyped, Steps
<1>7. StagingIsClean'
  BY <1>1, <1>2, <1>3 DEF IInv, TypeOK, StagingIsClean, StagingSteps
<1>8. WaitersWait'
  BY <1>1, <1>2, <1>3, <1>4, <1>5 DEF IInv, TypeOK, WaitersWait, Fetchers
<1>9. ResultsHaveACause' /\ BypassHasACause' /\ RefusalsHaveACause'
  BY <1>1, <1>2, <1>3 DEF IInv, TypeOK, ResultsHaveACause, BypassHasACause, RefusalsHaveACause, Fetchers
<1> QED
  BY <1>6, <1>7, <1>8, <1>9 DEF IInv

\* So is ending a population for a reason, with nothing left in the staging directory.
LEMMA FinishStep ==
    ASSUME IInv, NEW key \in {"location", "archive"}, NEW runner, NEW outcome \in Outcomes,
           \/ key = "location" /\ runner = Resolver /\ outcome # "ok" /\ staged' = staged
           \/ /\ key = "archive" /\ runner = Population /\ outcome \notin {"source", "bypass"}
              /\ Population \notin waiters["location"]
              /\ staged' = staged \ {Population},
           Finish(key, runner, outcome), HistoryGrows, LooseTyped,
           outcome = "error" => trouble', outcome = "notfound" => gone' \/ moved',
           outcome = "bypass" => moved', location' = "bypass" => moved',
           location' \in {None, "source", "bypass"},
           UNCHANGED <<connected, answer>>
    PROVE  IInv'
<1>1. /\ pc' = [pc EXCEPT ![runner] = "none"]
      /\ result' = [x \in Fetchers |-> IF x \in waiters[key] THEN outcome ELSE result[x]]
      /\ waiters' = [waiters EXCEPT ![key] = {}]
      /\ runner \in Fetchers \cup {Resolver} /\ Resolver \notin Fetchers
  BY DEF Finish, Goto, Fetchers
<1>2. TypeOK'
  BY <1>1 DEF IInv, TypeOK, HistoryGrows, LooseTyped, PopulationSteps, ResolverSteps
<1>3. StagingIsClean'
  BY <1>1 DEF IInv, TypeOK, StagingIsClean, Fetchers
<1>4. WaitersWait'
  BY <1>1 DEF IInv, TypeOK, WaitersWait, Fetchers
<1>5. ResultsHaveACause'
  <2> SUFFICES ASSUME NEW x \in Fetchers
               PROVE  /\ pc'[x] = "waitlocation" => result'[x] # "ok"
                      /\ pc'[x] = "wait" => result'[x] \notin {"source", "bypass"}
                      /\ result'[x] = "error" => trouble'
                      /\ result'[x] = "notfound" => gone' \/ moved'
                      /\ result'[x] = "bypass" => moved'
    BY DEF ResultsHaveACause
  <2>1. CASE x \in waiters[key]
    BY <1>1, <2>1 DEF IInv, TypeOK, WaitersWait, Fetchers
  <2>2. CASE x \notin waiters[key]
    BY <1>1, <2>2 DEF IInv, TypeOK, ResultsHaveACause, HistoryGrows
  <2> QED
    BY <2>1, <2>2
<1>6. BypassHasACause' /\ RefusalsHaveACause'
  BY <1>1 DEF IInv, TypeOK, BypassHasACause, RefusalsHaveACause, HistoryGrows
<1> QED
  BY <1>2, <1>3, <1>4, <1>5, <1>6 DEF IInv

\* A fetcher that hears nothing more from a population, and has no file.
LEMMA NotWaiting ==
    ASSUME IInv, NEW x \in Fetchers, pc[x] \in {"waitlocation", "wait"} => result[x] # None
    PROVE  x \notin waiters["location"] /\ x \notin waiters["archive"]
BY DEF IInv, WaitersWait

LEMMA NotStaged ==
    ASSUME IInv, NEW x \in Fetchers, pc[x] \notin StagingSteps
    PROVE  staged = staged \ {x}
BY DEF IInv, StagingIsClean, StagingSteps

\* What has not changed is typed, and forgets nothing.
LEMMA Unchanged ==
    ASSUME IInv
    PROVE  /\ UNCHANGED history => HistoryGrows
           /\ UNCHANGED <<now, archive, endpoint, links>> => LooseTyped
BY DEF IInv, TypeOK, HistoryGrows, LooseTyped, history, links

-----------------------------------------------------------------------------
(* The actions *)

\* A fetch that ends without an archive, for a reason or cancelled.
LEMMA FailedStep ==
    ASSUME IInv, NEW x \in Fetchers, NEW outcome \in {"notfound", "error"},
           pc[x] \in {"waitlocation", "wait"} => result[x] # None,
           Failed(x, outcome), HistoryGrows, LooseTyped,
           staged' = staged \ {x},
           outcome = "notfound" => gone' \/ moved',
           outcome = "error" => trouble' \/ Cancelled(x),
           UNCHANGED <<location, connected>>
    PROVE  IInv'
<1>1. x \notin waiters["location"] /\ x \notin waiters["archive"]
  BY NotWaiting
<1>2. CASE x = Population
  <2>1. Finish("archive", Population, outcome) /\ UNCHANGED answer
    BY <1>2 DEF Failed
  <2>2. location' \in {None, "source", "bypass"} /\ (location' = "bypass" => moved')
    BY DEF IInv, TypeOK, BypassHasACause, HistoryGrows
  <2>3. outcome = "error" => trouble'
    BY <1>2 DEF Cancelled
  <2> QED
    BY <1>1, <1>2, <2>1, <2>2, <2>3, FinishStep DEF Outcomes
<1>3. CASE x # Population
  <2> DEFINE status == IF outcome = "notfound" THEN 404 ELSE 502
  <2>1. x \in Clients /\ Respond(x, status) /\ UNCHANGED <<waiters, result>>
    BY <1>3 DEF Failed, Refuse, flights, Fetchers
  <2>2. Caused(x, status) /\ status \in Statuses
    BY DEF Caused, Cancelled, Statuses
  <2>3. /\ waiters' \in [location: SUBSET Fetchers, archive: SUBSET Clients]
        /\ waiters'["location"] \subseteq waiters["location"] \ {x}
        /\ waiters'["archive"] \subseteq waiters["archive"] \ {x}
    BY <1>1, <2>1 DEF IInv, TypeOK
  <2> HIDE DEF status
  <2> QED
    BY <2>1, <2>2, <2>3, RespondStep
<1> QED
  BY <1>2, <1>3

\* A location is handed out, or fetched from, or refused.
LEMMA ResolvedStep ==
    ASSUME IInv, NEW x \in Fetchers, NEW loc \in {"source", "bypass"},
           loc = "bypass" => moved,
           pc[x] \in {"start", "lookup", "waitlocation"},
           pc[x] = "waitlocation" => result[x] # None,
           Resolved(x, loc),
           UNCHANGED <<now, cache, connected, staged, history>>
    PROVE  IInv'
<1>1. /\ staged' = staged \ {x} /\ UNCHANGED <<location, archive, connected>>
      /\ HistoryGrows /\ moved' = moved
  BY NotStaged, Unchanged DEF StagingSteps, cache, history
<1>2. LooseTyped
  <2>1. LinkExpiry \in Nat
    BY DEF LinkExpiry, Unix, IInv, TypeOK
  <2> QED
    BY <1>1, <2>1 DEF Resolved, IInv, TypeOK, LooseTyped, links
<1>3. CASE x \in Clients /\ endpoint[x] = "download" /\ loc = "source"
  <2>1. Goto(x, "linked") /\ answer' = [answer EXCEPT ![x] = 204] /\ UNCHANGED flights
    BY <1>3 DEF Resolved
  <2> QED
    BY <1>1, <1>2, <1>3, <2>1, MoveStep DEF ClientSteps, StagingSteps
<1>4. CASE x \in Clients /\ endpoint[x] = "download" /\ loc # "source"
  <2>1. Respond(x, 204) /\ UNCHANGED <<waiters, result>>
    BY <1>4 DEF Resolved, flights
  <2>2. x \notin waiters["location"] /\ x \notin waiters["archive"]
    BY NotWaiting
  <2>3. /\ waiters' \in [location: SUBSET Fetchers, archive: SUBSET Clients]
        /\ waiters'["location"] \subseteq waiters["location"] \ {x}
        /\ waiters'["archive"] \subseteq waiters["archive"] \ {x}
    BY <2>1, <2>2 DEF IInv, TypeOK
  <2> QED
    BY <1>1, <1>2, <1>4, <2>1, <2>3, RespondStep DEF Caused, Statuses
<1>5. CASE ~(x \in Clients /\ endpoint[x] = "download") /\ loc = "source"
  <2>1. Goto(x, "open") /\ UNCHANGED <<answer, flights>>
    BY <1>5 DEF Resolved
  <2> QED
    BY <1>1, <1>2, <2>1, MoveStep DEF ClientSteps, PopulationSteps, StagingSteps
<1>6. CASE ~(x \in Clients /\ endpoint[x] = "download") /\ loc = "bypass"
  <2>1. Failed(x, "notfound")
    BY <1>6 DEF Resolved
  <2> QED
    BY <1>1, <1>2, <1>6, <2>1, FailedStep
<1> QED
  BY <1>3, <1>4, <1>5, <1>6

LEMMA LocateStep ==
    ASSUME IInv, NEW x \in Fetchers, Locate(x)
    PROVE  IInv'
<1>1. CASE Lookup(x)
  <2>1. CASE location # None /\ Resolved(x, location)
    BY <1>1, <2>1, ResolvedStep DEF Lookup, IInv, TypeOK, BypassHasACause
  <2>2. CASE Goto(x, "joinlocation") /\ UNCHANGED <<endpoint, links, answer, flights>>
    <3>1. UNCHANGED <<now, location, archive, connected, staged, history>> /\ pc[x] \in {"start", "lookup"}
      BY <1>1 DEF Lookup, cache
    <3>2. staged' = staged \ {x} /\ HistoryGrows /\ LooseTyped
      BY <2>2, <3>1, NotStaged, Unchanged DEF StagingSteps
    <3> QED
      BY <2>2, <3>1, <3>2, MoveStep DEF ClientSteps, PopulationSteps, LookupSteps, StagingSteps
  <2> QED
    BY <1>1, <2>1, <2>2 DEF Lookup
<1>2. CASE JoinLocation(x)
  <2>1. UNCHANGED <<location, connected, staged, answer, history>> /\ LooseTyped
    BY <1>2, Unchanged DEF JoinLocation, cache
  <2> QED
    BY <1>2, <2>1, CoalesceStep DEF JoinLocation, StagingSteps
<1>3. CASE ReceiveLocation(x)
  <2>1. CASE result[x] \in {"source", "bypass"}
    BY <1>3, <2>1, ResolvedStep DEF ReceiveLocation, IInv, ResultsHaveACause
  <2>2. CASE result[x] \notin {"source", "bypass"}
    <3>1. /\ Failed(x, result[x]) /\ pc[x] = "waitlocation" /\ result[x] # None
          /\ UNCHANGED <<now, location, archive, endpoint, links, connected, staged, history>>
      BY <1>3, <2>2 DEF ReceiveLocation, cache
    <3>2. /\ result[x] \in {"notfound", "error"}
          /\ result[x] = "notfound" => gone' \/ moved'
          /\ result[x] = "error" => trouble'
      BY <2>2, <3>1 DEF IInv, TypeOK, ResultsHaveACause, Outcomes, history
    <3>3. staged' = staged \ {x} /\ HistoryGrows /\ LooseTyped
      BY <3>1, NotStaged, Unchanged DEF StagingSteps
    <3> QED
      BY <3>1, <3>2, <3>3, FailedStep
  <2> QED
    BY <2>1, <2>2
<1> QED
  BY <1>1, <1>2, <1>3 DEF Locate

LEMMA ResolveStep ==
    ASSUME IInv, Resolve
    PROVE  IInv'
<1>1. CASE Ask
  <2>1. /\ UNCHANGED <<now, location, archive, endpoint, connected, staged, links, answer, degraded>>
        /\ LooseTyped /\ pc[Resolver] = "ask"
    BY <1>1, Unchanged DEF Ask, cache
  <2>2. ASSUME NEW raw \in Sources,
               Goto(Resolver, ParseSource(raw)),
               moved' = (moved \/ ParseSource(raw) = "bypass"),
               UNCHANGED <<flights, trouble, gone>>
        PROVE  IInv'
    <3>1. PICK loc \in {"source", "bypass"} :
             pc' = [pc EXCEPT ![Resolver] = loc] /\ moved' = (moved \/ loc = "bypass")
      BY <2>2 DEF ParseSource, Goto
    <3>2. Resolver \notin Fetchers /\ UNCHANGED <<waiters, result>>
      BY <2>2 DEF Fetchers, flights
    <3>3. TypeOK'
      BY <2>1, <2>2, <3>1, <3>2 DEF IInv, TypeOK, LooseTyped, ResolverSteps
    <3>4. StagingIsClean' /\ WaitersWait'
      BY <2>1, <3>1, <3>2 DEF IInv, TypeOK, StagingIsClean, WaitersWait, Fetchers
    <3>5. ResultsHaveACause'
      <4>1. \A x \in Fetchers : pc'[x] = pc[x] /\ result'[x] = result[x]
        BY <3>1, <3>2 DEF IInv, TypeOK
      <4>2. trouble' = trouble /\ gone' = gone /\ (moved => moved')
        BY <2>2, <3>1
      <4> QED
        BY <4>1, <4>2 DEF IInv, ResultsHaveACause
    <3>6. BypassHasACause' /\ RefusalsHaveACause'
      <4>1. pc'[Resolver] = loc /\ (moved => moved') /\ (loc = "bypass" => moved')
        BY <3>1 DEF IInv, TypeOK
      <4>2. UNCHANGED <<location, connected, answer, trouble, gone>>
        BY <2>1, <2>2
      <4>3. BypassHasACause'
        BY <4>1, <4>2 DEF IInv, BypassHasACause
      <4> QED
        BY <4>1, <4>2, <4>3 DEF IInv, RefusalsHaveACause
    <3> QED
      BY <3>3, <3>4, <3>5, <3>6 DEF IInv
  <2>3. ASSUME NEW outcome \in {"notfound", "error"},
               Finish("location", Resolver, outcome),
               gone' = (gone \/ outcome = "notfound"),
               trouble' = (trouble \/ outcome = "error"),
               UNCHANGED moved
        PROVE  IInv'
    <3>1. HistoryGrows /\ location' \in {None, "source", "bypass"} /\ (location' = "bypass" => moved')
      BY <2>1, <2>3 DEF IInv, TypeOK, HistoryGrows, BypassHasACause
    <3> QED
      BY <2>1, <2>3, <3>1, FinishStep DEF Outcomes
  <2> QED
    BY <1>1, <2>2, <2>3 DEF Ask
<1>2. CASE StoreLocation
  <2>1. /\ pc[Resolver] \in {"source", "bypass"} /\ Finish("location", Resolver, pc[Resolver])
        /\ location' \in {location, pc[Resolver]}
        /\ UNCHANGED <<now, archive, endpoint, connected, staged, links, answer, history>>
    BY <1>2 DEF StoreLocation
  <2>2. /\ location' \in {None, "source", "bypass"}
        /\ location' = "bypass" => moved'
        /\ pc[Resolver] = "bypass" => moved'
        /\ HistoryGrows /\ LooseTyped
    BY <2>1, Unchanged DEF IInv, TypeOK, BypassHasACause, history
  <2> QED
    BY <2>1, <2>2, FinishStep DEF Outcomes
<1> QED
  BY <1>1, <1>2 DEF Resolve

LEMMA HandleStep ==
    ASSUME IInv, NEW c \in Clients, Handle(c)
    PROVE  IInv'
<1>1. c \in Fetchers /\ c # Population
  BY DEF Fetchers
<1>2. CASE Reject(c) \/ ServeFromCache(c)
  <2>1. /\ pc[c] = "linked" /\ Used(c)
        /\ UNCHANGED <<now, location, archive, endpoint, connected, waiters, result, staged, history>>
    BY <1>2 DEF Reject, ServeFromCache, cache, flights
  <2>2. /\ staged' = staged \ {c} /\ HistoryGrows /\ LooseTyped
        /\ c \notin waiters["location"] /\ c \notin waiters["archive"]
    <3>1. staged' = staged \ {c} /\ HistoryGrows
      BY <1>1, <2>1, NotStaged, Unchanged DEF StagingSteps
    <3>2. LooseTyped
      BY <2>1 DEF Used, IInv, TypeOK, LooseTyped
    <3> QED
      BY <1>1, <2>1, <3>1, <3>2, NotWaiting
  <2>3. CASE \E status \in {403, 200} : Respond(c, status)
    <3>1. /\ waiters' \in [location: SUBSET Fetchers, archive: SUBSET Clients]
          /\ waiters'["location"] \subseteq waiters["location"] \ {c}
          /\ waiters'["archive"] \subseteq waiters["archive"] \ {c}
      BY <2>1, <2>2 DEF IInv, TypeOK
    <3> QED
      BY <2>1, <2>2, <2>3, <3>1, RespondStep DEF Caused, Statuses
  <2>4. CASE Goto(c, "join") /\ UNCHANGED answer
    BY <1>1, <2>1, <2>2, <2>4, MoveStep DEF ClientSteps, StagingSteps, flights
  <2> QED
    BY <1>2, <2>3, <2>4 DEF Reject, ServeFromCache
<1>3. CASE Join(c)
  <2>1. UNCHANGED <<location, connected, staged, answer, history>> /\ LooseTyped
    BY <1>3, Unchanged DEF Join, cache
  <2> QED
    BY <1>1, <1>3, <2>1, CoalesceStep DEF Join, StagingSteps
<1>4. CASE Receive(c)
  <2>1. /\ pc[c] = "wait" /\ result[c] # None
        /\ UNCHANGED <<now, location, archive, endpoint, connected, flights, staged, links, history>>
    BY <1>4 DEF Receive, cache
  <2>2. staged' = staged \ {c} /\ HistoryGrows /\ LooseTyped
    BY <1>1, <2>1, NotStaged, Unchanged DEF StagingSteps
  <2>3. CASE result[c] = "ok"
    <3>1. Goto(c, "stream") /\ UNCHANGED answer
      BY <1>4, <2>3 DEF Receive
    <3> QED
      BY <1>1, <2>1, <2>2, <3>1, MoveStep DEF ClientSteps, StagingSteps
  <2>4. CASE result[c] # "ok"
    <3>1. Refuse(c, result[c])
      BY <1>4, <2>4 DEF Receive
    <3>2. Failed(c, result[c])
      BY <1>1, <2>1, <3>1 DEF Failed
    <3>3. /\ result[c] \in {"notfound", "error"}
          /\ result[c] = "notfound" => gone' \/ moved'
          /\ result[c] = "error" => trouble'
      BY <1>1, <2>1, <2>4 DEF IInv, TypeOK, ResultsHaveACause, Outcomes, history
    <3> QED
      BY <1>1, <2>1, <2>2, <3>2, <3>3, FailedStep
  <2> QED
    BY <2>3, <2>4
<1>5. CASE GiveUp(c)
  <2>1. /\ pc[c] \in {"wait", "waitlocation"} /\ ~connected[c] /\ Respond(c, 502)
        /\ UNCHANGED <<now, location, archive, endpoint, connected, staged, links, history>>
    BY <1>5 DEF GiveUp, Refuse, cache
  <2>2. staged' = staged \ {c} /\ HistoryGrows /\ LooseTyped
    BY <1>1, <2>1, NotStaged, Unchanged DEF StagingSteps
  <2>3. /\ waiters' \in [location: SUBSET Fetchers, archive: SUBSET Clients]
        /\ waiters'["location"] \subseteq waiters["location"] \ {c}
        /\ waiters'["archive"] \subseteq waiters["archive"] \ {c}
        /\ result' = [result EXCEPT ![c] = None]
    BY <1>5 DEF GiveUp, IInv, TypeOK
  <2> QED
    BY <2>1, <2>2, <2>3, RespondStep DEF Caused, Statuses
<1>6. CASE StreamFromCache(c)
  <2>1. /\ pc[c] = "stream" /\ HistoryGrows /\ LooseTyped
        /\ UNCHANGED <<location, connected, flights, staged>>
    BY <1>6 DEF StreamFromCache, cache, links, IInv, TypeOK, HistoryGrows, LooseTyped
  <2>2. /\ staged' = staged \ {c}
        /\ c \notin waiters["location"] /\ c \notin waiters["archive"]
    BY <1>1, <2>1, NotStaged, NotWaiting DEF StagingSteps
  <2>3. CASE Respond(c, 200)
    <3>1. /\ waiters' \in [location: SUBSET Fetchers, archive: SUBSET Clients]
          /\ waiters'["location"] \subseteq waiters["location"] \ {c}
          /\ waiters'["archive"] \subseteq waiters["archive"] \ {c}
          /\ UNCHANGED result
      BY <2>1, <2>2 DEF IInv, TypeOK, flights
    <3> QED
      BY <2>1, <2>2, <2>3, <3>1, RespondStep DEF Caused, Statuses
  <2>4. CASE Goto(c, "lookup") /\ UNCHANGED answer
    BY <1>1, <2>1, <2>2, <2>4, MoveStep DEF ClientSteps, LookupSteps, StagingSteps
  <2> QED
    BY <1>6, <2>3, <2>4 DEF StreamFromCache
<1>7. CASE ServeStaged(c)
  <2>1. /\ pc[c] = "serve" /\ staged' = staged \ {c}
        /\ UNCHANGED <<now, location, archive, endpoint, connected, waiters, result, links>>
        /\ UNCHANGED <<gone, moved, degraded>>
        /\ trouble' \in {trouble, TRUE}
        /\ HistoryGrows /\ LooseTyped
    <3>1. /\ pc[c] = "serve" /\ staged' = staged \ {c}
          /\ UNCHANGED <<now, location, archive, endpoint, connected, waiters, result, links>>
          /\ UNCHANGED <<gone, moved, degraded>>
          /\ trouble' \in {trouble, TRUE}
      BY <1>7 DEF ServeStaged, cache, flights
    <3> QED
      BY <3>1, Unchanged DEF IInv, TypeOK, HistoryGrows
  <2>2. PICK status \in {200, 500} : Respond(c, status) /\ (status = 500 => trouble')
    BY <1>7 DEF ServeStaged
  <2>3. /\ waiters' \in [location: SUBSET Fetchers, archive: SUBSET Clients]
        /\ waiters'["location"] \subseteq waiters["location"] \ {c}
        /\ waiters'["archive"] \subseteq waiters["archive"] \ {c}
    BY <1>1, <2>1, NotWaiting DEF IInv, TypeOK
  <2> QED
    BY <2>1, <2>2, <2>3, RespondStep DEF Caused, Statuses
<1> QED
  BY <1>2, <1>3, <1>4, <1>5, <1>6, <1>7 DEF Handle

LEMMA FetchStep ==
    ASSUME IInv, NEW x \in Fetchers, Fetch(x)
    PROVE  IInv'
<1>1. CASE Open(x)
  <2>1. /\ pc[x] = "open" /\ HistoryGrows /\ LooseTyped
        /\ UNCHANGED <<location, connected>>
    BY <1>1 DEF Open, cache, links, IInv, TypeOK, HistoryGrows, LooseTyped
  <2>2. CASE Goto(x, "copy") /\ staged' = staged \cup {x} /\ UNCHANGED <<flights, answer>>
    BY <2>1, <2>2, MoveStep DEF ClientSteps, PopulationSteps, StagingSteps
  <2>3. ASSUME NEW outcome \in {"notfound", "error"}, Failed(x, outcome), UNCHANGED staged,
               outcome = "notfound" => gone' \/ moved',
               outcome = "error" => trouble' \/ Cancelled(x)
        PROVE  IInv'
    BY <2>1, <2>3, NotStaged, FailedStep DEF StagingSteps
  <2> QED
    BY <1>1, <2>2, <2>3 DEF Open
<1>2. CASE Copy(x)
  <2>1. /\ pc[x] = "copy" /\ HistoryGrows /\ LooseTyped
        /\ UNCHANGED <<location, connected>>
    BY <1>2 DEF Copy, cache, links, IInv, TypeOK, HistoryGrows, LooseTyped
  <2>2. CASE /\ Goto(x, IF x = Population THEN "put" ELSE "serve")
             /\ UNCHANGED <<flights, staged, answer>>
    <3>1. x \in staged
      BY <2>1 DEF IInv, StagingIsClean
    <3>2. PICK step \in {"put", "serve"} :
            /\ step \in IF x = Population THEN PopulationSteps ELSE ClientSteps
            /\ Goto(x, step)
      BY <2>2 DEF PopulationSteps, ClientSteps
    <3>3. staged' = IF step \in StagingSteps THEN staged \cup {x} ELSE staged \ {x}
      BY <2>2, <3>1 DEF StagingSteps
    <3> QED
      BY <2>1, <2>2, <3>2, <3>3, MoveStep
  <2>3. CASE Failed(x, "error") /\ staged' = staged \ {x} /\ (trouble' \/ Cancelled(x))
    BY <2>1, <2>3, FailedStep
  <2> QED
    BY <1>2, <2>2, <2>3 DEF Copy
<1> QED
  BY <1>1, <1>2 DEF Fetch

LEMMA PopulationStep ==
    ASSUME IInv, Populate \/ EndPopulation
    PROVE  IInv'
<1>1. /\ Population \in Fetchers /\ HistoryGrows /\ LooseTyped /\ pc[Population] \in {"put", "finish"}
      /\ UNCHANGED <<location, connected, answer>>
  BY DEF Populate, EndPopulation, cache, links, history, IInv, TypeOK, HistoryGrows, LooseTyped, Fetchers
<1>2. Population \in staged /\ Population \notin waiters["location"]
  BY <1>1, NotWaiting DEF IInv, StagingIsClean
<1>3. location' \in {None, "source", "bypass"} /\ (location' = "bypass" => moved')
  BY <1>1 DEF IInv, TypeOK, BypassHasACause, HistoryGrows
<1>4. CASE Goto(Population, "finish") /\ UNCHANGED <<flights, staged>>
  <2>1. staged' = staged \cup {Population}
    BY <1>2, <1>4
  <2> QED
    BY <1>1, <1>4, <2>1, MoveStep DEF PopulationSteps, StagingSteps
<1>5. ASSUME NEW outcome \in {"ok", "error"}, Finish("archive", Population, outcome),
             staged' = staged \ {Population}, outcome = "error" => trouble'
      PROVE  IInv'
  BY <1>1, <1>2, <1>3, <1>5, FinishStep DEF Outcomes
<1> QED
  BY <1>4, <1>5 DEF Populate, EndPopulation

\* The environment takes nothing away that the invariant is about.
LEMMA EnvironmentStep ==
    ASSUME IInv,
           (\E c \in Clients : HangUp(c)) \/ EvictLocation \/ EvictArchive \/ Tick \/ UNCHANGED vars
    PROVE  IInv'
<1>1. /\ UNCHANGED <<pc, endpoint, waiters, result, staged, link, handed, answer, trouble, gone, moved>>
      /\ now' \in Nat /\ archive' \in BOOLEAN /\ degraded' \in BOOLEAN
      /\ location' \in {location, None}
      /\ connected' \in [Clients -> BOOLEAN]
      /\ \A c \in Clients : connected'[c] => connected[c]
  <2>1. CASE \E c \in Clients : HangUp(c)
    BY <2>1 DEF IInv, TypeOK, HangUp, cache, flights, links, history
  <2>2. CASE EvictLocation
    BY <2>2 DEF IInv, TypeOK, EvictLocation, flights, links, history
  <2>3. CASE EvictArchive
    BY <2>3 DEF IInv, TypeOK, EvictArchive, flights, links
  <2>4. CASE Tick
    BY <2>4 DEF IInv, TypeOK, Tick, cache, flights, links, history
  <2>5. CASE UNCHANGED vars
    BY <2>5 DEF IInv, TypeOK, vars, cache, flights, links, history
  <2> QED
    BY <2>1, <2>2, <2>3, <2>4, <2>5
<1>2. TypeOK'
  BY <1>1 DEF IInv, TypeOK
<1>3. StagingIsClean' /\ WaitersWait'
  BY <1>1 DEF IInv, StagingIsClean, WaitersWait
<1>4. ResultsHaveACause' /\ BypassHasACause' /\ RefusalsHaveACause'
  BY <1>1 DEF IInv, ResultsHaveACause, BypassHasACause, RefusalsHaveACause
<1> QED
  BY <1>2, <1>3, <1>4 DEF IInv

\* IInv is inductive.
LEMMA InvStep == IInv /\ [Next]_vars => IInv'
<1> SUFFICES ASSUME IInv, [Next]_vars PROVE IInv'
  OBVIOUS
<1>1. ASSUME NEW x \in Fetchers, Locate(x) PROVE IInv'
  BY <1>1, LocateStep
<1>2. CASE Resolve
  BY <1>2, ResolveStep
<1>3. ASSUME NEW x \in Fetchers, Fetch(x) PROVE IInv'
  BY <1>3, FetchStep
<1>4. ASSUME NEW c \in Clients, Handle(c) PROVE IInv'
  BY <1>4, HandleStep
<1>5. CASE Populate \/ EndPopulation
  BY <1>5, PopulationStep
<1>6. CASE (\E c \in Clients : HangUp(c)) \/ EvictLocation \/ EvictArchive \/ Tick \/ UNCHANGED vars
  BY <1>6, EnvironmentStep
<1> QED
  BY <1>1, <1>2, <1>3, <1>4, <1>5, <1>6 DEF Next

LEMMA InvCorrect == Spec => []IInv
  BY InvInit, InvStep, PTL DEF Spec

-----------------------------------------------------------------------------
(* The life span of a link *)

\* The link a client is about to follow was made when it was handed out, and nothing has
\* been answered to the request it has not made yet.
LinksFit ==
    \A c \in Clients :
        /\ handed[c] = None <=> link[c] = None
        /\ handed[c] # None => link[c] = Unix(handed[c] + LinkTTL)
        /\ pc[c] = "linked" => answer[c] # 403

\* What LinkLifetime says of one step.
LinkStep ==
    \A c \in Clients : Signed /\ pc[c] = "linked" /\ pc'[c] # "linked" =>
        IF answer'[c] = 403
        THEN handed[c] = None \/ now - handed[c] > LinkTTL
        ELSE handed[c] # None /\ now - handed[c] < LinkTTL + Second

\* No link is handed out or followed.
LinksRest ==
    /\ UNCHANGED links
    /\ \A c \in Clients :
        /\ pc'[c] = "linked" <=> pc[c] = "linked"
        /\ pc[c] = "linked" => answer'[c] = answer[c]

LEMMA RestStep ==
    ASSUME LinksFit, LinksRest
    PROVE  LinksFit' /\ LinkStep
BY DEF LinksFit, LinksRest, LinkStep, links, Unix

\* Unix rounds down to the second: one time is in a later second than another only if it is
\* later, and in none later only if it is less than a second later.
LEMMA LaterSecond == ASSUME NEW s \in Nat, NEW t \in Nat, Unix(s) > Unix(t) PROVE s > t
BY DEF Unix

LEMMA NoLaterSecond == ASSUME NEW s \in Nat, NEW t \in Nat, ~(Unix(s) > Unix(t)) PROVE s < t + Second
BY DEF Unix

\* Whoever is not about to follow a link can move, and be answered.
LEMMA MovesRest ==
    ASSUME IInv, NEW x \in Fetchers \cup {Resolver}, pc[x] # "linked",
           NEW step, step # "linked",
           pc' = [pc EXCEPT ![x] = step],
           answer' = answer \/ (x \in Clients /\ \E status \in Statuses : answer' = [answer EXCEPT ![x] = status]),
           UNCHANGED links
    PROVE  LinksRest
BY DEF IInv, TypeOK, LinksRest, Fetchers

LEMMA RefusesRest ==
    ASSUME IInv, NEW x \in Clients, NEW outcome, pc[x] # "linked", Refuse(x, outcome), UNCHANGED links
    PROVE  LinksRest
<1>1. \E status \in Statuses : answer' = [answer EXCEPT ![x] = status] /\ pc' = [pc EXCEPT ![x] = "done"]
  <2>1. CASE outcome = "notfound"
    BY <2>1 DEF Refuse, Respond, Goto, Statuses
  <2>2. CASE outcome # "notfound"
    BY <2>2 DEF Refuse, Respond, Goto, Statuses
  <2> QED
    BY <2>1, <2>2
<1> QED
  BY <1>1, MovesRest DEF Fetchers

LEMMA FailsRest ==
    ASSUME IInv, NEW x \in Fetchers, NEW outcome, pc[x] # "linked", Failed(x, outcome), UNCHANGED links
    PROVE  LinksRest
<1>1. CASE x = Population
  BY <1>1, MovesRest DEF Failed, Finish, Goto
<1>2. CASE x # Population
  BY <1>2, RefusesRest DEF Failed, Fetchers
<1> QED
  BY <1>1, <1>2

LEMMA CoalescesRest ==
    ASSUME IInv, NEW x \in Fetchers, NEW key, NEW step, NEW runner \in {Population, Resolver}, NEW first,
           pc[x] # "linked", step # "linked", first # "linked",
           Coalesce(x, key, step, runner, first),
           UNCHANGED <<links, answer>>
    PROVE  LinksRest
BY DEF Coalesce, IInv, TypeOK, LinksRest, Fetchers

\* Handing out a link, in Resolved.
LEMMA ResolvedLinks ==
    ASSUME IInv, LinksFit, NEW x \in Fetchers, NEW loc, pc[x] \in {"start", "lookup", "waitlocation"},
           Resolved(x, loc), UNCHANGED now
    PROVE  LinksFit' /\ LinkStep
<1>1. CASE x \in Clients /\ endpoint[x] = "download" /\ loc = "source"
  <2>1. /\ pc' = [pc EXCEPT ![x] = "linked"] /\ answer' = [answer EXCEPT ![x] = 204]
        /\ link' = [link EXCEPT ![x] = Unix(now + LinkTTL)] /\ handed' = [handed EXCEPT ![x] = now]
    BY <1>1 DEF Resolved, Goto, LinkExpiry
  <2>2. now # None /\ Unix(now + LinkTTL) # None /\ x \in Fetchers
    <3>1. now \in Int /\ Unix(now + LinkTTL) \in Int
      BY DEF IInv, TypeOK, Unix
    <3> QED
      BY <3>1
  <2>3. /\ link \in [Clients -> Nat \cup {None}] /\ handed \in [Clients -> Nat \cup {None}]
        /\ answer \in [Clients -> Statuses]
        /\ \A c \in Clients : c # x => pc'[c] = pc[c]
        /\ pc'[x] = "linked"
    BY <1>1, <2>1 DEF IInv, TypeOK, Fetchers
  <2>4. LinksFit'
    <3> SUFFICES ASSUME NEW c \in Clients
                 PROVE  /\ handed'[c] = None <=> link'[c] = None
                        /\ handed'[c] # None => link'[c] = Unix(handed'[c] + LinkTTL)
                        /\ pc'[c] = "linked" => answer'[c] # 403
      BY DEF LinksFit, Unix
    <3>1. CASE c = x
      BY <2>1, <2>2, <2>3, <3>1
    <3>2. CASE c # x
      BY <2>1, <2>3, <3>2 DEF LinksFit
    <3> QED
      BY <3>1, <3>2
  <2>5. LinkStep
    BY <2>3 DEF LinkStep
  <2> QED
    BY <2>4, <2>5
<1>2. CASE x \in Clients /\ endpoint[x] = "download" /\ loc # "source"
  BY <1>2, MovesRest, RestStep DEF Resolved, Respond, Goto, Statuses
<1>3. CASE ~(x \in Clients /\ endpoint[x] = "download")
  <2>1. UNCHANGED links
    BY <1>3 DEF Resolved
  <2>2. CASE loc = "source"
    BY <1>3, <2>1, <2>2, MovesRest, RestStep DEF Resolved, Goto
  <2>3. CASE loc # "source"
    BY <1>3, <2>1, <2>3, FailsRest, RestStep DEF Resolved
  <2> QED
    BY <2>2, <2>3
<1> QED
  BY <1>1, <1>2, <1>3

\* Following a link: the request is refused with a 403, or goes on.
LEMMA FollowLinks ==
    ASSUME IInv, LinksFit, NEW c \in Clients, Reject(c) \/ ServeFromCache(c)
    PROVE  LinksFit' /\ LinkStep
<1>1. /\ pc[c] = "linked" /\ answer[c] # 403
      /\ c \in Fetchers \cup {Resolver}
      /\ link' = [link EXCEPT ![c] = None] /\ handed' = [handed EXCEPT ![c] = None]
  BY DEF Reject, ServeFromCache, Used, LinksFit, Fetchers
<1>2. PICK step \in {"done", "join"} : pc' = [pc EXCEPT ![c] = step]
  BY DEF Reject, ServeFromCache, Respond, Goto
<1>3. \A d \in Clients : d # c => pc'[d] = pc[d] /\ answer'[d] = answer[d]
  BY <1>2 DEF Reject, ServeFromCache, Respond, IInv, TypeOK, Fetchers
<1>4. pc'[c] # "linked"
  BY <1>1, <1>2 DEF IInv, TypeOK
<1>5. LinksFit'
  <2> SUFFICES ASSUME NEW d \in Clients
               PROVE  /\ handed'[d] = None <=> link'[d] = None
                      /\ handed'[d] # None => link'[d] = Unix(handed'[d] + LinkTTL)
                      /\ pc'[d] = "linked" => answer'[d] # 403
    BY DEF LinksFit, Unix
  <2> QED
    BY <1>1, <1>3, <1>4 DEF LinksFit, IInv, TypeOK
<1>6. LinkStep
  <2>1. SUFFICES ASSUME Signed
                 PROVE  IF answer'[c] = 403
                        THEN handed[c] = None \/ now - handed[c] > LinkTTL
                        ELSE handed[c] # None /\ now - handed[c] < LinkTTL + Second
    BY <1>3 DEF LinkStep
  <2>2. now \in Nat /\ (handed[c] # None => handed[c] \in Nat /\ handed[c] + LinkTTL \in Nat)
    BY DEF IInv, TypeOK
  <2>3. CASE Reject(c)
    <3>1. answer'[c] = 403
      BY <2>3 DEF Reject, Respond, IInv, TypeOK
    <3>2. ASSUME handed[c] # None PROVE now - handed[c] > LinkTTL
      <4>1. Unix(now) > Unix(handed[c] + LinkTTL)
        BY <2>3, <3>2 DEF Reject, Valid, LinksFit
      <4>2. now > handed[c] + LinkTTL
        BY <2>2, <3>2, <4>1, LaterSecond
      <4> QED
        BY <2>2, <3>2, <4>2
    <3> QED
      BY <3>1, <3>2
  <2>4. CASE ServeFromCache(c)
    <3>1. answer'[c] # 403
      BY <1>1, <2>4 DEF ServeFromCache, Respond, IInv, TypeOK
    <3>2. handed[c] # None /\ ~(Unix(now) > Unix(handed[c] + LinkTTL))
      BY <2>1, <2>4 DEF ServeFromCache, Valid, LinksFit
    <3>3. now < handed[c] + LinkTTL + Second
      BY <2>2, <3>2, NoLaterSecond
    <3> QED
      BY <2>2, <3>1, <3>2, <3>3
  <2> QED
    BY <2>3, <2>4
<1> QED
  BY <1>5, <1>6

\* Every other step leaves the links alone.
LEMMA LinksInvStep ==
    ASSUME IInv, LinksFit, [Next]_vars
    PROVE  LinksFit' /\ LinkStep
<1>1. ASSUME NEW x \in Fetchers, Locate(x)
      PROVE  LinksFit' /\ LinkStep
  <2>1. CASE Lookup(x)
    <3>1. CASE Resolved(x, location)
      BY <2>1, <3>1, ResolvedLinks DEF Lookup
    <3>2. CASE Goto(x, "joinlocation") /\ UNCHANGED <<links, answer>>
      BY <2>1, <3>2, MovesRest, RestStep DEF Lookup, Goto
    <3> QED
      BY <2>1, <3>1, <3>2 DEF Lookup
  <2>2. CASE JoinLocation(x)
    BY <2>2, CoalescesRest, RestStep DEF JoinLocation
  <2>3. CASE ReceiveLocation(x)
    <3>1. CASE Resolved(x, result[x])
      BY <2>3, <3>1, ResolvedLinks DEF ReceiveLocation
    <3>2. CASE Failed(x, result[x]) /\ UNCHANGED links
      BY <2>3, <3>2, FailsRest, RestStep DEF ReceiveLocation
    <3> QED
      BY <2>3, <3>1, <3>2 DEF ReceiveLocation
  <2> QED
    BY <1>1, <2>1, <2>2, <2>3 DEF Locate
<1>2. CASE Resolve
  <2>1. PICK step \in {"source", "bypass", "none"} : pc' = [pc EXCEPT ![Resolver] = step]
    BY <1>2 DEF Resolve, Ask, StoreLocation, ParseSource, Finish, Goto
  <2>2. UNCHANGED <<links, answer>> /\ pc[Resolver] # "linked"
    BY <1>2 DEF Resolve, Ask, StoreLocation
  <2> QED
    BY <2>1, <2>2, MovesRest, RestStep
<1>3. ASSUME NEW x \in Fetchers, Fetch(x)
      PROVE  LinksFit' /\ LinkStep
  <2>1. pc[x] # "linked" /\ UNCHANGED links
    BY <1>3 DEF Fetch, Open, Copy
  <2>2. CASE \E outcome \in {"notfound", "error"} : Failed(x, outcome)
    BY <2>1, <2>2, FailsRest, RestStep
  <2>3. CASE \E step \in {"copy", "put", "serve"} : Goto(x, step) /\ UNCHANGED answer
    BY <2>1, <2>3, MovesRest, RestStep DEF Goto
  <2> QED
    BY <1>3, <2>2, <2>3 DEF Fetch, Open, Copy
<1>4. ASSUME NEW c \in Clients, Handle(c)
      PROVE  LinksFit' /\ LinkStep
  <2>1. c \in Fetchers
    BY DEF Fetchers
  <2>2. CASE Reject(c) \/ ServeFromCache(c)
    BY <2>2, FollowLinks
  <2>3. CASE Join(c)
    BY <2>1, <2>3, CoalescesRest, RestStep DEF Join
  <2>4. CASE Receive(c) \/ GiveUp(c) \/ StreamFromCache(c) \/ ServeStaged(c)
    <3>1. pc[c] # "linked" /\ UNCHANGED links
      BY <2>4 DEF Receive, GiveUp, StreamFromCache, ServeStaged
    <3>2. CASE \E outcome \in {"error", result[c]} : Refuse(c, outcome)
      BY <3>1, <3>2, RefusesRest, RestStep
    <3>3. CASE \E status \in Statuses : Respond(c, status)
      BY <2>1, <3>1, <3>3, MovesRest, RestStep DEF Respond, Goto
    <3>4. CASE \E step \in {"stream", "lookup"} : Goto(c, step) /\ UNCHANGED answer
      BY <2>1, <3>1, <3>4, MovesRest, RestStep DEF Goto
    <3> QED
      BY <2>4, <3>2, <3>3, <3>4 DEF Receive, GiveUp, StreamFromCache, ServeStaged, Statuses
  <2> QED
    BY <1>4, <2>2, <2>3, <2>4 DEF Handle
<1>5. CASE Populate \/ EndPopulation
  <2>1. PICK step \in {"finish", "none"} : pc' = [pc EXCEPT ![Population] = step]
    BY <1>5 DEF Populate, EndPopulation, Finish, Goto
  <2>2. UNCHANGED <<links, answer>> /\ pc[Population] # "linked" /\ Population \in Fetchers
    BY <1>5 DEF Populate, EndPopulation, Fetchers
  <2> QED
    BY <2>1, <2>2, MovesRest, RestStep
<1>6. CASE (\E c \in Clients : HangUp(c)) \/ EvictLocation \/ EvictArchive \/ Tick \/ UNCHANGED vars
  <2>1. UNCHANGED <<pc, links, answer>>
    BY <1>6 DEF HangUp, EvictLocation, EvictArchive, Tick, vars
  <2> QED
    BY <2>1, RestStep DEF LinksRest
<1> QED
  BY <1>1, <1>2, <1>3, <1>4, <1>5, <1>6 DEF Next

LEMMA LinksInit == Init => LinksFit
<1> SUFFICES ASSUME Init, NEW c \in Clients
             PROVE  /\ handed[c] = None <=> link[c] = None
                    /\ handed[c] # None => link[c] = Unix(handed[c] + LinkTTL)
                    /\ pc[c] = "linked" => answer[c] # 403
  BY DEF LinksFit
<1>1. link[c] = None /\ handed[c] = None /\ answer[c] = 0
  BY DEF Init
<1> QED
  BY <1>1

-----------------------------------------------------------------------------
(* The second download *)

\* The steps of a client that looks at upstream again.
SecondSteps == LookupSteps \cup {"open", "copy", "serve"}

\* What the population wrote is there, unless the cache has failed or lost it.
Kept == archive \/ degraded

\* The population says it succeeded only when the archive was kept, so a client that cannot
\* stream it has a cause; nobody comes to the archive endpoint by way of "start".
SecondInv ==
    /\ pc[Population] = "finish" => Kept
    /\ \A c \in Clients :
        /\ result[c] = "ok" => Kept
        /\ pc[c] = "stream" => Kept
        /\ pc[c] = "start" => endpoint[c] = "download"
        /\ endpoint[c] = "archive" /\ pc[c] \in SecondSteps => degraded

LEMMA SecondInit == Init => SecondInv
BY DEF Init, SecondInv, SecondSteps, LookupSteps, Fetchers

\* Nothing is lost without a trace.
KeptStays == (degraded => degraded') /\ (Kept => Kept')

\* A step that gives x no reason to look again, and nobody else any.
LEMMA SecondFrame ==
    ASSUME IInv, SecondInv, KeptStays,
           pc'[Population] = "finish" => pc[Population] = "finish" \/ Kept',
           \A c \in Clients :
               /\ result'[c] = "ok" => result[c] = "ok" \/ Kept'
               /\ pc'[c] = "stream" => pc[c] = "stream" \/ Kept'
               /\ pc'[c] = "start" => pc[c] = "start" /\ endpoint'[c] = endpoint[c]
               /\ endpoint'[c] = "archive" /\ pc'[c] \in SecondSteps =>
                    (endpoint[c] = "archive" /\ pc[c] \in SecondSteps) \/ degraded'
    PROVE  SecondInv'
BY DEF SecondInv, KeptStays

\* One goroutine moves to a step it has a reason for.
LEMMA SecondMove ==
    ASSUME IInv, SecondInv, KeptStays, NEW x \in Fetchers \cup {Resolver}, NEW step, step # "start",
           pc' = [pc EXCEPT ![x] = step],
           x = Population /\ step = "finish" => Kept',
           x \in Clients =>
               /\ step = "stream" => Kept'
               /\ endpoint[x] = "archive" /\ step \in SecondSteps => pc[x] \in SecondSteps \/ degraded',
           \A c \in Clients : result'[c] = "ok" => result[c] = "ok" \/ Kept',
           UNCHANGED endpoint
    PROVE  SecondInv'
<1>1. \A c \in Clients : c # Population /\ pc'[c] = IF c = x THEN step ELSE pc[c]
  BY DEF IInv, TypeOK, Fetchers
<1>2. pc'[Population] = IF x = Population THEN step ELSE pc[Population]
  BY DEF IInv, TypeOK, Fetchers
<1> QED
  BY <1>1, <1>2, SecondFrame

\* A fetch that ends without an archive.
LEMMA SecondFailed ==
    ASSUME IInv, SecondInv, KeptStays, NEW x \in Fetchers, NEW outcome, outcome # "ok",
           Failed(x, outcome), UNCHANGED endpoint
    PROVE  SecondInv'
<1>1. PICK step \in {"none", "done"} : pc' = [pc EXCEPT ![x] = step]
  BY DEF Failed, Finish, Refuse, Respond, Goto
<1>2. \A c \in Clients : result'[c] = "ok" => result[c] = "ok"
  BY DEF Failed, Finish, flights, Fetchers
<1> QED
  BY <1>1, <1>2, SecondMove DEF SecondSteps, LookupSteps

\* Joining a population: only its runner and the one who joins move.
LEMMA SecondCoalesce ==
    ASSUME IInv, SecondInv, KeptStays, NEW x \in Fetchers, NEW key, NEW step,
           NEW runner \in {Population, Resolver}, NEW first,
           first \notin {"finish", "start", "stream"},
           step \in {"wait", "waitlocation"},
           step = "waitlocation" => pc[x] \in SecondSteps,
           pc[x] # "none",
           Coalesce(x, key, step, runner, first), UNCHANGED endpoint
    PROVE  SecondInv'
<1>1. \A c \in Clients : result'[c] = "ok" => result[c] = "ok"
  BY DEF Coalesce, IInv, TypeOK, Fetchers
<1>2. /\ \A c \in Clients : pc'[c] = IF c = x THEN step ELSE pc[c]
      /\ pc'[Population] = "finish" => pc[Population] = "finish"
  BY DEF Coalesce, IInv, TypeOK, Fetchers
<1> QED
  BY <1>1, <1>2, SecondFrame DEF SecondSteps, LookupSteps

\* A location leads a client to upstream only where it was already on its way.
LEMMA SecondResolved ==
    ASSUME IInv, SecondInv, KeptStays, NEW x \in Fetchers, NEW loc,
           pc[x] \in {"start", "lookup", "waitlocation"}, Resolved(x, loc)
    PROVE  SecondInv'
<1>1. CASE x \in Clients /\ endpoint[x] = "download" /\ loc = "source"
  <2>1. /\ pc' = [pc EXCEPT ![x] = "linked"] /\ endpoint' = [endpoint EXCEPT ![x] = "archive"]
        /\ result' = result
    BY <1>1 DEF Resolved, Goto, flights
  <2>2. /\ \A c \in Clients : pc'[c] = IF c = x THEN "linked" ELSE pc[c]
        /\ \A c \in Clients : c # x => endpoint'[c] = endpoint[c]
        /\ pc'[Population] = pc[Population]
    BY <1>1, <2>1 DEF IInv, TypeOK, Fetchers
  <2> QED
    BY <2>1, <2>2, SecondFrame DEF SecondSteps, LookupSteps
<1>2. CASE x \in Clients /\ endpoint[x] = "download" /\ loc # "source"
  <2>1. pc' = [pc EXCEPT ![x] = "done"] /\ UNCHANGED <<endpoint, result>>
    BY <1>2 DEF Resolved, Respond, Goto, flights
  <2> QED
    BY <2>1, SecondMove DEF SecondSteps, LookupSteps
<1>3. CASE ~(x \in Clients /\ endpoint[x] = "download")
  <2>1. UNCHANGED endpoint
    BY <1>3 DEF Resolved
  <2>2. CASE loc = "source"
    <3>1. pc' = [pc EXCEPT ![x] = "open"] /\ UNCHANGED result
      BY <1>3, <2>2 DEF Resolved, Goto, flights
    <3>2. x \in Clients => pc[x] \in SecondSteps
      BY <1>3 DEF SecondInv, SecondSteps, LookupSteps
    <3> QED
      BY <2>1, <3>1, <3>2, SecondMove
  <2>3. CASE loc # "source"
    BY <1>3, <2>1, <2>3, SecondFailed DEF Resolved
  <2> QED
    BY <2>2, <2>3
<1> QED
  BY <1>1, <1>2, <1>3

LEMMA SecondStep ==
    ASSUME IInv, SecondInv, [Next]_vars
    PROVE  SecondInv'
<1>1. ASSUME NEW x \in Fetchers, Locate(x)
      PROVE  SecondInv'
  <2>1. KeptStays
    BY <1>1 DEF Locate, Lookup, JoinLocation, ReceiveLocation, KeptStays, Kept, cache, history
  <2>2. CASE Lookup(x)
    <3>1. CASE Resolved(x, location)
      BY <2>1, <2>2, <3>1, SecondResolved DEF Lookup
    <3>2. CASE Goto(x, "joinlocation") /\ UNCHANGED <<endpoint, flights>>
      <4>1. pc' = [pc EXCEPT ![x] = "joinlocation"] /\ UNCHANGED <<endpoint, result>>
        BY <3>2 DEF Goto, flights
      <4>2. x \in Clients /\ endpoint[x] = "archive" => pc[x] \in SecondSteps
        BY <2>2 DEF Lookup, SecondInv, SecondSteps, LookupSteps
      <4> QED
        BY <2>1, <4>1, <4>2, SecondMove
    <3> QED
      BY <2>2, <3>1, <3>2 DEF Lookup
  <2>3. CASE JoinLocation(x)
    BY <2>1, <2>3, SecondCoalesce DEF JoinLocation, SecondSteps, LookupSteps
  <2>4. CASE ReceiveLocation(x)
    <3>1. CASE Resolved(x, result[x])
      BY <2>1, <2>4, <3>1, SecondResolved DEF ReceiveLocation
    <3>2. CASE Failed(x, result[x]) /\ UNCHANGED endpoint
      <4>1. result[x] # "ok"
        BY <2>4 DEF ReceiveLocation, IInv, ResultsHaveACause
      <4> QED
        BY <2>1, <3>2, <4>1, SecondFailed
    <3> QED
      BY <2>4, <3>1, <3>2 DEF ReceiveLocation
  <2> QED
    BY <1>1, <2>2, <2>3, <2>4 DEF Locate
<1>2. CASE Resolve
  <2>1. KeptStays /\ UNCHANGED endpoint
    BY <1>2 DEF Resolve, Ask, StoreLocation, KeptStays, Kept, cache, history
  <2>2. PICK step \in {"source", "bypass", "none"} : pc' = [pc EXCEPT ![Resolver] = step]
    BY <1>2 DEF Resolve, Ask, StoreLocation, ParseSource, Finish, Goto
  <2>3. \A c \in Clients : result'[c] = "ok" => result[c] = "ok"
    BY <1>2 DEF Resolve, Ask, StoreLocation, Finish, flights, Fetchers
  <2>4. Resolver \notin Clients
    OBVIOUS
  <2> QED
    BY <2>1, <2>2, <2>3, <2>4, SecondMove
<1>3. ASSUME NEW x \in Fetchers, Fetch(x)
      PROVE  SecondInv'
  <2>1. KeptStays /\ UNCHANGED endpoint /\ pc[x] \in SecondSteps
    BY <1>3 DEF Fetch, Open, Copy, KeptStays, Kept, cache, SecondSteps
  <2>2. CASE \E outcome \in {"notfound", "error"} : Failed(x, outcome)
    BY <2>1, <2>2, SecondFailed
  <2>3. CASE \E step \in {"copy", "put", "serve"} : Goto(x, step) /\ UNCHANGED flights
    BY <2>1, <2>3, SecondMove DEF Goto, flights
  <2> QED
    BY <1>3, <2>2, <2>3 DEF Fetch, Open, Copy
<1>4. ASSUME NEW c \in Clients, Handle(c)
      PROVE  SecondInv'
  <2>1. c \in Fetchers /\ c # Population
    BY DEF Fetchers
  <2>2. KeptStays /\ UNCHANGED endpoint
    BY <1>4 DEF Handle, Reject, ServeFromCache, Join, Receive, GiveUp, StreamFromCache, ServeStaged,
                KeptStays, Kept, cache, history
  <2>3. CASE Reject(c) \/ ServeFromCache(c) \/ ServeStaged(c)
    <3>1. PICK step \in {"done", "join"} : pc' = [pc EXCEPT ![c] = step]
      BY <2>3 DEF Reject, ServeFromCache, ServeStaged, Respond, Goto
    <3>2. UNCHANGED result
      BY <2>3 DEF Reject, ServeFromCache, ServeStaged, flights
    <3> QED
      BY <2>1, <2>2, <3>1, <3>2, SecondMove DEF SecondSteps, LookupSteps
  <2>4. CASE Join(c)
    <3>1. Coalesce(c, "archive", "wait", Population, "lookup") /\ pc[c] = "join"
      BY <2>4 DEF Join
    <3> QED
      BY <2>1, <2>2, <3>1, SecondCoalesce
  <2>5. CASE Receive(c)
    <3>1. PICK step \in {"done", "stream"} :
            pc' = [pc EXCEPT ![c] = step] /\ (step = "stream" => result[c] = "ok")
      BY <2>5 DEF Receive, Refuse, Respond, Goto
    <3>2. UNCHANGED result /\ (result[c] = "ok" => Kept')
      BY <2>2, <2>5 DEF Receive, flights, SecondInv, KeptStays
    <3> QED
      BY <2>1, <2>2, <3>1, <3>2, SecondMove DEF SecondSteps, LookupSteps
  <2>6. CASE GiveUp(c)
    <3>1. pc' = [pc EXCEPT ![c] = "done"] /\ result' = [result EXCEPT ![c] = None]
      BY <2>6 DEF GiveUp, Refuse, Respond, Goto
    <3>2. \A d \in Clients : result'[d] = "ok" => result[d] = "ok"
      BY <2>1, <3>1 DEF IInv, TypeOK, Fetchers
    <3> QED
      BY <2>1, <2>2, <3>1, <3>2, SecondMove DEF SecondSteps, LookupSteps
  <2>7. CASE StreamFromCache(c)
    <3>1. Kept /\ UNCHANGED result
      BY <2>7 DEF StreamFromCache, SecondInv, flights
    <3>2. PICK step \in {"done", "lookup"} :
            pc' = [pc EXCEPT ![c] = step] /\ (step = "lookup" => degraded')
      BY <2>7, <3>1 DEF StreamFromCache, Respond, Goto, Kept
    <3> QED
      BY <2>1, <2>2, <3>1, <3>2, SecondMove DEF SecondSteps, LookupSteps
  <2> QED
    BY <1>4, <2>3, <2>4, <2>5, <2>6, <2>7 DEF Handle
<1>5. CASE Populate
  <2>1. KeptStays /\ UNCHANGED endpoint /\ Population \in Fetchers /\ Population \notin Clients
    BY <1>5 DEF Populate, KeptStays, Kept, Fetchers
  <2>2. CASE Goto(Population, "finish") /\ Kept' /\ UNCHANGED flights
    BY <2>1, <2>2, SecondMove DEF Goto, flights
  <2>3. CASE Finish("archive", Population, "error")
    BY <2>1, <2>3, SecondMove DEF Finish, Goto, Fetchers
  <2> QED
    BY <1>5, <2>2, <2>3 DEF Populate, Kept
<1>6. CASE EndPopulation
  <2>1. KeptStays /\ UNCHANGED endpoint /\ Population \in Fetchers /\ Population \notin Clients /\ Kept'
    BY <1>6 DEF EndPopulation, KeptStays, Kept, cache, history, Fetchers, SecondInv
  <2>2. pc' = [pc EXCEPT ![Population] = "none"]
    BY <1>6 DEF EndPopulation, Finish, Goto
  <2> QED
    BY <2>1, <2>2, SecondMove
<1>7. CASE (\E c \in Clients : HangUp(c)) \/ EvictLocation \/ EvictArchive \/ Tick \/ UNCHANGED vars
  <2>1. KeptStays /\ UNCHANGED <<pc, endpoint, result>>
    BY <1>7 DEF HangUp, EvictLocation, EvictArchive, Tick, vars, cache, flights, history, KeptStays, Kept
  <2> QED
    BY <2>1, SecondFrame
<1> QED
  BY <1>1, <1>2, <1>3, <1>4, <1>5, <1>6, <1>7 DEF Next

-----------------------------------------------------------------------------
\* Every variable has its type.
THEOREM TypeCorrect == Spec => []TypeOK
  BY InvCorrect, PTL DEF IInv

\* A client that stayed is refused only for an answer or a failure of upstream's or of the
\* staging disk: neither the cache nor other clients can make a request fail, though it may
\* wait for two populations.
THEOREM RefusalsTheorem == Spec => []RefusalsHaveACause
  BY InvCorrect, PTL DEF IInv

\* No path out of a fetch leaves a file in the staging directory.
THEOREM StagingTheorem == Spec => []StagingIsClean
  BY InvCorrect, PTL DEF IInv

\* A link works for its whole life span and for less than a second more, however finely the
\* clock divides the second, and nobody gets past the check without one.
THEOREM LinkLifetimeTheorem == Spec => LinkLifetime
<1>1. IInv /\ LinksFit /\ [Next]_vars => LinksFit'
  BY LinksInvStep
<1>2. IInv /\ LinksFit /\ [Next]_vars => [LinkStep]_vars
  BY LinksInvStep
<1>3. [LinkStep]_vars =>
        [\A c \in Clients : Signed /\ pc[c] = "linked" /\ pc'[c] # "linked" =>
            IF answer'[c] = 403
            THEN handed[c] = None \/ now - handed[c] > LinkTTL
            ELSE handed[c] # None /\ now - handed[c] < LinkTTL + Second]_vars
  BY DEF LinkStep
<1> QED
  BY <1>1, <1>2, <1>3, InvCorrect, LinksInit, PTL DEF Spec, LinkLifetime

\* A client downloads the archive a second time only after the cache failed, or lost what the
\* population had written.
THEOREM SecondDownloadTheorem == Spec => []SecondDownloadHasACause
<1>1. IInv /\ SecondInv /\ [Next]_vars => SecondInv'
  BY SecondStep
<1>2. SecondInv => SecondDownloadHasACause
  BY DEF SecondInv, SecondDownloadHasACause, SecondSteps
<1> QED
  BY <1>1, <1>2, InvCorrect, SecondInit, PTL DEF Spec

-----------------------------------------------------------------------------
(* Coalescing *)

\* A population with someone to answer runs, and answers everyone who waits for it without a
\* result (WaitersWait says the converse).
Joined ==
    /\ waiters["location"] # {} => pc[Resolver] # "none"
    /\ waiters["archive"] # {} => pc[Population] # "none"
    /\ \A x \in Fetchers : pc[x] = "waitlocation" /\ result[x] = None => x \in waiters["location"]
    /\ \A c \in Clients : pc[c] = "wait" /\ result[c] = None => c \in waiters["archive"]

Shares ==
    /\ Joined'
    /\ [ArchiveFlight!Next]_(ArchiveFlight!vars)
    /\ [LocationFlight!Next]_(LocationFlight!vars)

\* Steps that those who wait for the archive, or for the location, do not notice.
LEMMA ArchiveUnnoticed ==
    ASSUME UNCHANGED connected, (pc'[Population] # "none") = (pc[Population] # "none"),
           \A c \in Clients : (pc'[c] = "wait") = (pc[c] = "wait"),
           \A c \in Clients : pc[c] = "wait" => result'[c] = result[c]
    PROVE  UNCHANGED ArchiveFlight!vars
  BY DEF ArchiveFlight!vars

LEMMA LocationUnnoticed ==
    ASSUME UNCHANGED connected, (pc'[Resolver] # "none") = (pc[Resolver] # "none"),
           \A x \in Fetchers : (pc'[x] = "waitlocation") = (pc[x] = "waitlocation"),
           \A x \in Fetchers : pc[x] = "waitlocation" => result'[x] = result[x]
    PROVE  UNCHANGED LocationFlight!vars
  BY DEF LocationFlight!vars

\* Whoever moves on receives the result it waited for, if it waited for one.
LEMMA MoveIsShared ==
    ASSUME IInv, Joined, NEW x \in Fetchers \cup {Resolver}, NEW step, Goto(x, step),
           step \notin {"waitlocation", "wait"},
           x \notin Clients => pc[x] # "none" /\ step # "none",
           x \in Fetchers /\ pc[x] \in {"waitlocation", "wait"} => result[x] # None,
           UNCHANGED <<flights, connected>>
    PROVE  Shares
<1>1. /\ pc'[x] = step /\ \A y \in (Fetchers \cup {Resolver}) \ {x} : pc'[y] = pc[y]
      /\ UNCHANGED <<waiters, result>>
  BY DEF Goto, IInv, TypeOK, flights
<1>2. /\ (pc'[Population] # "none") = (pc[Population] # "none")
      /\ (pc'[Resolver] # "none") = (pc[Resolver] # "none")
  BY <1>1 DEF Fetchers
<1>3. Joined'
  BY <1>1, <1>2 DEF Joined, Fetchers
<1>4. [ArchiveFlight!Next]_(ArchiveFlight!vars)
  <2>1. CASE x \in Clients /\ pc[x] = "wait"
    <3>1. result[x] # None /\ \A c \in Clients \ {x} : pc'[c] = pc[c]
      BY <1>1, <2>1 DEF Fetchers
    <3>2. ArchiveFlight!Receive(x)
      BY <1>1, <1>2, <2>1, <3>1 DEF ArchiveFlight!Receive
    <3> QED
      BY <2>1, <3>2 DEF ArchiveFlight!Next
  <2>2. CASE ~(x \in Clients /\ pc[x] = "wait")
    BY <1>1, <1>2, <2>2, ArchiveUnnoticed DEF Fetchers
  <2> QED
    BY <2>1, <2>2
<1>5. [LocationFlight!Next]_(LocationFlight!vars)
  <2>1. CASE x \in Fetchers /\ pc[x] = "waitlocation"
    <3>1. result[x] # None /\ \A y \in Fetchers \ {x} : pc'[y] = pc[y]
      BY <1>1, <2>1
    <3>2. LocationFlight!Receive(x)
      BY <1>1, <1>2, <2>1, <3>1 DEF LocationFlight!Receive
    <3> QED
      BY <2>1, <3>2 DEF LocationFlight!Next
  <2>2. CASE ~(x \in Fetchers /\ pc[x] = "waitlocation")
    BY <1>1, <1>2, <2>2, LocationUnnoticed
  <2> QED
    BY <2>1, <2>2
<1> QED
  BY <1>3, <1>4, <1>5 DEF Shares

\* Joining one population is nothing to those who wait for the other.
LEMMA LocationJoinIsShared ==
    ASSUME IInv, Joined, NEW x \in Fetchers, pc[x] = "joinlocation", UNCHANGED connected,
           Coalesce(x, "location", "waitlocation", Resolver, "ask")
    PROVE  Shares
<1>1. /\ x # Resolver /\ Resolver \notin Fetchers
      /\ waiters' = [waiters EXCEPT !["location"] = @ \cup {x}]
      /\ result' = [result EXCEPT ![x] = None]
      /\ pc' = [pc EXCEPT ![x] = "waitlocation", ![Resolver] = IF @ = "none" THEN "ask" ELSE @]
  BY DEF Coalesce, Fetchers
<1>2. /\ pc'[x] = "waitlocation" /\ \A y \in Fetchers \ {x} : pc'[y] = pc[y]
      /\ pc'[Resolver] # "none" /\ pc[x] # "none"
      /\ waiters'["location"] = waiters["location"] \cup {x}
      /\ waiters'["archive"] = waiters["archive"]
      /\ result'[x] = None /\ \A y \in Fetchers \ {x} : result'[y] = result[y]
  BY <1>1 DEF IInv, TypeOK
<1>3. Joined'
  BY <1>2 DEF Joined, Fetchers
<1>4. UNCHANGED ArchiveFlight!vars
  BY <1>2, ArchiveUnnoticed DEF Fetchers
<1>5. LocationFlight!Join(x)
  BY <1>2 DEF LocationFlight!Join
<1> QED
  BY <1>3, <1>4, <1>5 DEF Shares, LocationFlight!Next

LEMMA ArchiveJoinIsShared ==
    ASSUME IInv, Joined, NEW c \in Clients, pc[c] = "join", UNCHANGED connected,
           Coalesce(c, "archive", "wait", Population, "lookup")
    PROVE  Shares
<1>1. /\ c # Population /\ c # Resolver /\ c \in Fetchers /\ Population \in Fetchers
      /\ waiters' = [waiters EXCEPT !["archive"] = @ \cup {c}]
      /\ result' = [result EXCEPT ![c] = None]
      /\ pc' = [pc EXCEPT ![c] = "wait", ![Population] = IF @ = "none" THEN "lookup" ELSE @]
  BY DEF Coalesce, Fetchers
<1>2. /\ pc'[c] = "wait" /\ \A d \in Clients \ {c} : pc'[d] = pc[d]
      /\ pc'[Population] = IF pc[Population] = "none" THEN "lookup" ELSE pc[Population]
      /\ pc'[Resolver] = pc[Resolver]
      /\ waiters'["archive"] = waiters["archive"] \cup {c}
      /\ waiters'["location"] = waiters["location"]
      /\ result'[c] = None /\ \A y \in Fetchers \ {c} : result'[y] = result[y]
  BY <1>1 DEF IInv, TypeOK, Fetchers
<1>3. c \in Fetchers /\ c # Population /\ \A x \in Fetchers : x \in Clients \/ x = Population
  BY DEF Fetchers
<1>4. ASSUME NEW x \in Fetchers PROVE (pc'[x] = "waitlocation") = (pc[x] = "waitlocation")
  <2>1. CASE x = Population
    BY <1>2, <2>1
  <2>2. CASE x = c
    BY <1>2, <2>2
  <2>3. CASE x \in Clients \ {c}
    BY <1>2, <2>3
  <2> QED
    BY <1>3, <2>1, <2>2, <2>3
<1>5. pc[c] # "wait" /\ pc[c] # "waitlocation" /\ pc'[Population] # "none"
  BY <1>2
<1>6. Joined'
  <2>1. \A x \in Fetchers :
          pc'[x] = "waitlocation" /\ result'[x] = None => x \in waiters'["location"]
    BY <1>2, <1>4, <1>5 DEF Joined
  <2>2. \A d \in Clients : pc'[d] = "wait" /\ result'[d] = None => d \in waiters'["archive"]
    <3>1. ASSUME NEW d \in Clients, d # c PROVE result'[d] = result[d] /\ pc'[d] = pc[d]
      BY <1>2, <3>1 DEF Fetchers
    <3> QED
      BY <1>2, <3>1 DEF Joined
  <2> QED
    BY <1>2, <1>5, <2>1, <2>2 DEF Joined
<1>7. UNCHANGED LocationFlight!vars
  BY <1>2, <1>4, <1>5, LocationUnnoticed
<1>8. ArchiveFlight!Join(c)
  <2>1. ASSUME NEW d \in Clients, d # c PROVE result'[d] = result[d] /\ pc'[d] = pc[d]
    BY <1>2, <2>1 DEF Fetchers
  <2> QED
    BY <1>2, <1>5, <2>1 DEF ArchiveFlight!Join
<1> QED
  BY <1>6, <1>7, <1>8 DEF Shares, ArchiveFlight!Next

\* The end of the location's population is the return of what its callers share.
LEMMA LocationReturnIsShared ==
    ASSUME IInv, Joined, pc[Resolver] # "none", NEW outcome \in {"source", "bypass", "notfound", "error"},
           Finish("location", Resolver, outcome), UNCHANGED connected
    PROVE  Shares
<1>1. /\ pc'[Resolver] = "none" /\ \A x \in Fetchers : pc'[x] = pc[x]
      /\ result' = [x \in Fetchers |-> IF x \in waiters["location"] THEN outcome ELSE result[x]]
      /\ waiters'["location"] = {} /\ waiters'["archive"] = waiters["archive"]
  BY DEF Finish, Goto, IInv, TypeOK, Fetchers
<1>2. \A x \in Fetchers :
        pc[x] = "waitlocation" => (x \in waiters["location"] <=> result[x] = None)
  BY DEF Joined, IInv, WaitersWait
<1>3. \A c \in Clients : pc[c] = "wait" => result'[c] = result[c]
  BY <1>1 DEF IInv, WaitersWait, Fetchers
<1>4. Joined'
  BY <1>1, <1>2, <1>3 DEF Joined, Fetchers
<1>5. UNCHANGED ArchiveFlight!vars
  BY <1>1, <1>3, ArchiveUnnoticed DEF Fetchers
<1>6. LocationFlight!Return(outcome)
  BY <1>1, <1>2 DEF LocationFlight!Return
<1> QED
  BY <1>4, <1>5, <1>6 DEF Shares, LocationFlight!Next

\* So is that of the archive's; it may end with a result of the location's that it has received.
LEMMA ArchiveReturnIsShared ==
    ASSUME IInv, Joined, pc[Population] # "none", NEW outcome \in {"ok", "notfound", "error"},
           pc[Population] = "waitlocation" => result[Population] # None,
           Finish("archive", Population, outcome), UNCHANGED connected
    PROVE  Shares
<1>1. Population \in Fetchers /\ Population \notin Clients /\ Population # Resolver
  BY DEF Fetchers
<1>2. /\ pc'[Population] = "none" /\ pc'[Resolver] = pc[Resolver]
      /\ \A x \in Fetchers \ {Population} : pc'[x] = pc[x]
      /\ result' = [x \in Fetchers |-> IF x \in waiters["archive"] THEN outcome ELSE result[x]]
      /\ waiters'["archive"] = {} /\ waiters'["location"] = waiters["location"]
  BY <1>1 DEF Finish, Goto, IInv, TypeOK
<1>3. \A c \in Clients : pc[c] = "wait" => (c \in waiters["archive"] <=> result[c] = None)
  BY DEF Joined, IInv, WaitersWait
<1>4. \A x \in Fetchers : pc[x] = "waitlocation" => result'[x] = result[x]
  BY <1>2 DEF IInv, WaitersWait
<1>5. Joined'
  BY <1>1, <1>2, <1>3, <1>4 DEF Joined, Fetchers
<1>6. ArchiveFlight!Return(outcome)
  <2>1. \A c \in Clients : pc'[c] = pc[c] /\ c \in Fetchers
    BY <1>1, <1>2 DEF Fetchers
  <2> QED
    BY <1>2, <1>3, <2>1 DEF ArchiveFlight!Return
<1>7. [LocationFlight!Next]_(LocationFlight!vars)
  <2>1. CASE pc[Population] = "waitlocation"
    <3>1. LocationFlight!Receive(Population)
      BY <1>1, <1>2, <1>4, <2>1 DEF LocationFlight!Receive
    <3> QED
      BY <1>1, <3>1 DEF LocationFlight!Next
  <2>2. CASE pc[Population] # "waitlocation"
    BY <1>2, <1>4, <2>2, LocationUnnoticed
  <2> QED
    BY <2>1, <2>2
<1> QED
  BY <1>5, <1>6, <1>7 DEF Shares, ArchiveFlight!Next

\* A fetch that fails ends the population, or a request.
LEMMA FailureIsShared ==
    ASSUME IInv, Joined, NEW x \in Fetchers, NEW outcome \in {"notfound", "error"},
           pc[x] # "none", pc[x] \in {"waitlocation", "wait"} => result[x] # None,
           Failed(x, outcome), UNCHANGED connected
    PROVE  Shares
<1>1. CASE x = Population
  BY <1>1, ArchiveReturnIsShared DEF Failed
<1>2. CASE x # Population
  <2>1. x \in Clients /\ Goto(x, "done") /\ UNCHANGED flights
    BY <1>2 DEF Failed, Refuse, Respond, Fetchers
  <2> QED
    BY <2>1, MoveIsShared
<1> QED
  BY <1>1, <1>2

LEMMA ResolvedIsShared ==
    ASSUME IInv, Joined, NEW x \in Fetchers, NEW loc \in {"source", "bypass"},
           pc[x] \in {"start", "lookup", "waitlocation"},
           pc[x] = "waitlocation" => result[x] # None,
           Resolved(x, loc), UNCHANGED connected
    PROVE  Shares
<1>1. CASE Failed(x, "notfound")
  BY <1>1, FailureIsShared
<1>2. CASE \E step \in {"linked", "done", "open"} : Goto(x, step) /\ UNCHANGED flights
  BY <1>2, MoveIsShared
<1> QED
  BY <1>1, <1>2 DEF Resolved, Respond

LEMMA LocateIsShared ==
    ASSUME IInv, Joined, NEW x \in Fetchers, Locate(x)
    PROVE  Shares
<1>1. CASE Lookup(x)
  <2>1. CASE location # None /\ Resolved(x, location)
    BY <1>1, <2>1, ResolvedIsShared DEF Lookup, IInv, TypeOK
  <2>2. CASE Goto(x, "joinlocation") /\ UNCHANGED flights
    BY <1>1, <2>2, MoveIsShared DEF Lookup
  <2> QED
    BY <1>1, <2>1, <2>2 DEF Lookup
<1>2. CASE JoinLocation(x)
  BY <1>2, LocationJoinIsShared DEF JoinLocation
<1>3. CASE ReceiveLocation(x)
  <2>1. CASE result[x] \in {"source", "bypass"}
    BY <1>3, <2>1, ResolvedIsShared DEF ReceiveLocation
  <2>2. CASE result[x] \notin {"source", "bypass"}
    <3>1. result[x] \in {"notfound", "error"} /\ Failed(x, result[x])
      BY <1>3, <2>2 DEF ReceiveLocation, IInv, TypeOK, ResultsHaveACause, Outcomes
    <3> QED
      BY <1>3, <3>1, FailureIsShared DEF ReceiveLocation
  <2> QED
    BY <2>1, <2>2
<1> QED
  BY <1>1, <1>2, <1>3 DEF Locate

LEMMA ResolveIsShared == ASSUME IInv, Joined, Resolve PROVE Shares
<1>1. CASE Ask
  <2>1. ASSUME NEW raw \in Sources, Goto(Resolver, ParseSource(raw)), UNCHANGED flights
        PROVE  Shares
    BY <1>1, <2>1, MoveIsShared DEF Ask, ParseSource, Fetchers
  <2>2. ASSUME NEW outcome \in {"notfound", "error"}, Finish("location", Resolver, outcome)
        PROVE  Shares
    BY <1>1, <2>2, LocationReturnIsShared DEF Ask
  <2> QED
    BY <1>1, <2>1, <2>2 DEF Ask
<1>2. CASE StoreLocation
  BY <1>2, LocationReturnIsShared DEF StoreLocation
<1> QED
  BY <1>1, <1>2 DEF Resolve

LEMMA FetchIsShared ==
    ASSUME IInv, Joined, NEW x \in Fetchers, Fetch(x)
    PROVE  Shares
<1>1. pc[x] \in {"open", "copy"} /\ UNCHANGED connected
  BY DEF Fetch, Open, Copy
<1>2. CASE \E step \in {"copy", "put", "serve"} : Goto(x, step) /\ UNCHANGED flights
  BY <1>1, <1>2, MoveIsShared
<1>3. CASE \E outcome \in {"notfound", "error"} : Failed(x, outcome)
  BY <1>1, <1>3, FailureIsShared
<1> QED
  BY <1>2, <1>3 DEF Fetch, Open, Copy

LEMMA PopulationIsShared ==
    ASSUME IInv, Joined, Populate \/ EndPopulation
    PROVE  Shares
<1>1. pc[Population] \in {"put", "finish"} /\ Population \in Fetchers /\ UNCHANGED connected
  BY DEF Populate, EndPopulation, Fetchers
<1>2. CASE Goto(Population, "finish") /\ UNCHANGED flights
  BY <1>1, <1>2, MoveIsShared
<1>3. CASE Finish("archive", Population, "error") \/ Finish("archive", Population, "ok")
  BY <1>1, <1>3, ArchiveReturnIsShared
<1> QED
  BY <1>2, <1>3 DEF Populate, EndPopulation

\* A client that gives up leaves the population it waits for, and only that.
LEMMA GiveUpIsShared ==
    ASSUME IInv, Joined, NEW c \in Clients, GiveUp(c)
    PROVE  Shares
<1>1. c \in Fetchers /\ c # Population /\ c # Resolver
  BY DEF Fetchers
<1>2. /\ pc[c] \in {"wait", "waitlocation"} /\ ~connected[c] /\ UNCHANGED connected
      /\ pc'[c] = "done" /\ \A y \in (Fetchers \cup {Resolver}) \ {c} : pc'[y] = pc[y]
      /\ waiters'["location"] = waiters["location"] \ {c}
      /\ waiters'["archive"] = waiters["archive"] \ {c}
      /\ result'[c] = None /\ \A y \in Fetchers \ {c} : result'[y] = result[y]
  BY <1>1 DEF GiveUp, Refuse, Respond, Goto, IInv, TypeOK
<1>3. pc'[Population] = pc[Population] /\ pc'[Resolver] = pc[Resolver]
  BY <1>1, <1>2 DEF Fetchers
<1>4. Joined'
  BY <1>1, <1>2, <1>3 DEF Joined, Fetchers
<1>5. CASE pc[c] = "wait"
  <2>1. ArchiveFlight!Leave(c)
    BY <1>1, <1>2, <1>3, <1>5 DEF ArchiveFlight!Leave, Fetchers
  <2>2. UNCHANGED LocationFlight!vars
    BY <1>2, <1>3, <1>5, LocationUnnoticed
  <2> QED
    BY <1>4, <2>1, <2>2 DEF Shares, ArchiveFlight!Next
<1>6. CASE pc[c] = "waitlocation"
  <2>1. LocationFlight!Leave(c)
    BY <1>1, <1>2, <1>3, <1>6 DEF LocationFlight!Leave
  <2>2. UNCHANGED ArchiveFlight!vars
    BY <1>2, <1>3, <1>6, ArchiveUnnoticed DEF Fetchers
  <2> QED
    BY <1>1, <1>4, <2>1, <2>2 DEF Shares, LocationFlight!Next
<1> QED
  BY <1>2, <1>5, <1>6

LEMMA HandleIsShared ==
    ASSUME IInv, Joined, NEW c \in Clients, Handle(c)
    PROVE  Shares
<1>1. c \in Fetchers
  BY DEF Fetchers
<1>2. CASE Reject(c) \/ ServeFromCache(c) \/ Receive(c) \/ StreamFromCache(c) \/ ServeStaged(c)
  <2>1. \E step \in {"done", "join", "stream", "lookup"} : Goto(c, step)
    BY <1>2 DEF Reject, ServeFromCache, Receive, StreamFromCache, ServeStaged, Refuse, Respond
  <2>2. /\ pc[c] \notin {"waitlocation"} /\ (pc[c] = "wait" => result[c] # None)
        /\ UNCHANGED <<flights, connected>>
    BY <1>2 DEF Reject, ServeFromCache, Receive, StreamFromCache, ServeStaged
  <2> QED
    BY <1>1, <2>1, <2>2, MoveIsShared
<1>3. CASE Join(c)
  BY <1>3, ArchiveJoinIsShared DEF Join
<1>4. CASE GiveUp(c)
  BY <1>4, GiveUpIsShared
<1> QED
  BY <1>2, <1>3, <1>4 DEF Handle

LEMMA EnvironmentIsShared ==
    ASSUME IInv, Joined,
           (\E c \in Clients : HangUp(c)) \/ EvictLocation \/ EvictArchive \/ Tick \/ UNCHANGED vars
    PROVE  Shares
<1>1. ASSUME NEW c \in Clients, HangUp(c) PROVE Shares
  <2>1. connected' = [connected EXCEPT ![c] = FALSE] /\ UNCHANGED <<pc, waiters, result>>
    BY <1>1 DEF HangUp, flights
  <2>2. Joined' /\ c \in Fetchers
    BY <2>1 DEF Joined, Fetchers
  <2>3. ArchiveFlight!Cancel(c) /\ LocationFlight!Cancel(c)
    BY <2>1 DEF ArchiveFlight!Cancel, LocationFlight!Cancel, IInv, TypeOK
  <2> QED
    BY <2>2, <2>3 DEF Shares, ArchiveFlight!Next, LocationFlight!Next
<1>2. CASE EvictLocation \/ EvictArchive \/ Tick \/ UNCHANGED vars
  <2>1. UNCHANGED <<pc, connected, waiters, result>>
    BY <1>2 DEF EvictLocation, EvictArchive, Tick, vars, flights
  <2>2. Joined'
    BY <2>1 DEF Joined
  <2> QED
    BY <2>1, <2>2, ArchiveUnnoticed, LocationUnnoticed DEF Shares
<1> QED
  BY <1>1, <1>2

LEMMA JoinedInit == Init => Joined /\ ArchiveFlight!Init /\ LocationFlight!Init
  BY DEF Init, Joined, ArchiveFlight!Init, LocationFlight!Init, Fetchers

LEMMA JoinedStep == IInv /\ Joined /\ [Next]_vars => Shares
  BY LocateIsShared, ResolveIsShared, FetchIsShared, HandleIsShared, PopulationIsShared,
     EnvironmentIsShared DEF Next

\* Both populations are coalesced as they should be, one inside the other: every step is one of
\* Coalescing, or none, for each of them, and for any number of clients, whatever fails.
THEOREM CoalescingTheorem == Spec => IsCoalesced
<1>1. Init => Joined /\ ArchiveFlight!Init /\ LocationFlight!Init
  BY JoinedInit
<1>2. IInv /\ Joined /\ [Next]_vars =>
          /\ Joined'
          /\ [ArchiveFlight!Next]_(ArchiveFlight!vars)
          /\ [LocationFlight!Next]_(LocationFlight!vars)
  BY JoinedStep DEF Shares
<1> QED
  BY <1>1, <1>2, InvCorrect, PTL DEF Spec, IsCoalesced, ArchiveFlight!Spec, LocationFlight!Spec

\* So nobody waits for the location or the archive after its population ended without a word to it.
THEOREM NobodyIsForgottenTheorem ==
    Spec => [](ArchiveFlight!NobodyIsForgotten /\ LocationFlight!NobodyIsForgotten)
<1>1. ArchiveFlight!Init => ArchiveFlight!NobodyIsForgotten
  BY DEF ArchiveFlight!Init, ArchiveFlight!NobodyIsForgotten
<1>2. ArchiveFlight!NobodyIsForgotten /\ [ArchiveFlight!Next]_(ArchiveFlight!vars) =>
          ArchiveFlight!NobodyIsForgotten'
  BY DEF ArchiveFlight!NobodyIsForgotten, ArchiveFlight!Next, ArchiveFlight!vars,
         ArchiveFlight!Join, ArchiveFlight!Return, ArchiveFlight!Receive, ArchiveFlight!Leave,
         ArchiveFlight!Cancel
<1>3. LocationFlight!Init => LocationFlight!NobodyIsForgotten
  BY DEF LocationFlight!Init, LocationFlight!NobodyIsForgotten
<1>4. LocationFlight!NobodyIsForgotten /\ [LocationFlight!Next]_(LocationFlight!vars) =>
          LocationFlight!NobodyIsForgotten'
  BY DEF LocationFlight!NobodyIsForgotten, LocationFlight!Next, LocationFlight!vars,
         LocationFlight!Join, LocationFlight!Return, LocationFlight!Receive, LocationFlight!Leave,
         LocationFlight!Cancel
<1> QED
  BY <1>1, <1>2, <1>3, <1>4, CoalescingTheorem, PTL
     DEF IsCoalesced, ArchiveFlight!Spec, LocationFlight!Spec
=============================================================================
