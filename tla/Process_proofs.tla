---------------------------- MODULE Process_proofs ----------------------------
(***************************************************************************)
(* The safety properties of Process as theorems: its types, the order in   *)
(* which the evictor removes files, the budget it keeps, and why           *)
(* pre-warming fails; for any files, sizes, budget, configured providers   *)
(* and faults, whatever clients do meanwhile.                              *)
(***************************************************************************)
EXTENDS Process, FiniteSetTheorems, TLAPS

\* A step of pre-warming or of the environment.
Outside ==
    \/ Warm /\ UNCHANGED evictor
    \/ Environment /\ UNCHANGED <<evictor, prewarm>>

LEMMA Steps == Next => (Sweep /\ UNCHANGED prewarm) \/ Outside
  BY DEF Next, Outside

-----------------------------------------------------------------------------
(* Pre-warming *)

\* What a running entry warms is there to be warmed.
WarmsKeys ==
    /\ stage \in [Index -> Stages]
    /\ zip \in [Index -> Nat]
    /\ next \in Nat
    /\ request \in [Index -> Requests]
    /\ \A e \in Running : Entries[e] # None
    /\ \A e \in Running : request[e] # "send" => Key(e) # Refused
    /\ \A e \in Index :
        /\ e >= next => stage[e] = "idle"
        /\ stage[e] = "idle" => request[e] = "send"
        /\ stage[e] = "archives" => Entries[e].archives # None
        /\ stage[e] = "zips" => zip[e] \in 1..Len(Entries[e].zips)

LEMMA EntryType ==
    ASSUME NEW e \in Index, Entries[e] # None
    PROVE  /\ Entries[e].versions \in Paths /\ Entries[e].archives \in Paths \cup {None}
           /\ Entries[e].zips \in Seq(Paths)
  BY EntriesAssumption DEF Index

\* What an entry warms has a key, or is refused.
LEMMA KeyIsPath ==
    ASSUME WarmsKeys, NEW e \in Running
    PROVE  Key(e) \in Paths
<1>1. e \in Index /\ Entries[e] # None
  BY DEF WarmsKeys, Running
<1>2. CASE stage[e] = "versions"
  BY <1>1, <1>2, EntryType DEF Key
<1>3. CASE stage[e] = "archives"
  BY <1>1, <1>3, EntryType DEF Key, WarmsKeys
<1>4. CASE stage[e] = "zips"
  <2>1. zip[e] \in 1..Len(Entries[e].zips) /\ Entries[e].zips \in Seq(Paths)
    BY <1>1, <1>4, EntryType DEF WarmsKeys
  <2>2. Entries[e].zips[zip[e]] \in Paths
    BY <2>1
  <2> QED
    BY <1>4, <2>2 DEF Key
<1> QED
  BY <1>2, <1>3, <1>4 DEF Running

LEMMA KeyIsKey ==
    ASSUME WarmsKeys, NEW e \in Running, Key(e) # Refused
    PROVE  Key(e) \in Keys
  BY KeyIsPath DEF Paths

\* An entry that is not touched asks for what it asked for.
LEMMA SameKey ==
    ASSUME NEW e, stage'[e] = stage[e], zip'[e] = zip[e]
    PROVE  Key(e)' = Key(e)
  BY DEF Key

\* An entry whose request is answered goes on to something it has.
LEMMA MovedStep ==
    ASSUME WarmsKeys, NEW e \in Running, NEW to \in {"archives", "zips", "done"}, NEW n \in Nat,
           stage' = [stage EXCEPT ![e] = to], zip' = [zip EXCEPT ![e] = n],
           request' = [request EXCEPT ![e] = "send"], UNCHANGED next,
           to = "archives" => Entries[e].archives # None,
           to = "zips" => n \in 1..Len(Entries[e].zips)
    PROVE  WarmsKeys'
<1>1. e \in Index /\ Entries[e] # None /\ stage[e] # "idle"
  BY DEF WarmsKeys, Running
<1>2. /\ stage' \in [Index -> Stages] /\ zip' \in [Index -> Nat]
      /\ request' \in [Index -> Requests] /\ next' \in Nat
  BY <1>1 DEF WarmsKeys, Stages, Requests
<1>3. Running' \subseteq Running
  BY <1>1 DEF Running, WarmsKeys
<1>4. \A i \in Running' : request'[i] # "send" => Key(i)' # Refused
  <2> SUFFICES ASSUME NEW i \in Running', request'[i] # "send" PROVE Key(i)' # Refused
    OBVIOUS
  <2>1. i \in Running /\ i \in Index /\ i # e
    BY <1>1, <1>3 DEF Running, WarmsKeys
  <2>2. stage'[i] = stage[i] /\ zip'[i] = zip[i] /\ request'[i] = request[i]
    BY <2>1 DEF WarmsKeys
  <2> QED
    BY <2>1, <2>2, SameKey DEF WarmsKeys
<1>5. ASSUME NEW i \in Index
      PROVE  /\ i >= next' => stage'[i] = "idle"
             /\ stage'[i] = "idle" => request'[i] = "send"
             /\ stage'[i] = "archives" => Entries[i].archives # None
             /\ stage'[i] = "zips" => zip'[i] \in 1..Len(Entries[i].zips)
  BY <1>1 DEF WarmsKeys
<1> QED
  BY <1>2, <1>3, <1>4, <1>5 DEF WarmsKeys

LEMMA WarmZipsStep ==
    ASSUME WarmsKeys, NEW e \in Running, NEW from \in Nat \ {0}, WarmZips(e, from),
           request' = [request EXCEPT ![e] = "send"], UNCHANGED next
    PROVE  WarmsKeys'
<1>1. e \in Index /\ Entries[e] # None
  BY DEF WarmsKeys, Running
<1>2. Len(Entries[e].zips) \in Nat
  BY <1>1, EntryType
<1>3. PICK n \in from..Len(Entries[e].zips) + 1 :
          /\ zip' = [zip EXCEPT ![e] = n]
          /\ stage' = [stage EXCEPT ![e] = IF n > Len(Entries[e].zips) THEN "done" ELSE "zips"]
  BY DEF WarmZips
<1>4. n \in Nat /\ (n > Len(Entries[e].zips) \/ n \in 1..Len(Entries[e].zips))
  BY <1>2
<1> DEFINE to == IF n > Len(Entries[e].zips) THEN "done" ELSE "zips"
<1>5. to \in {"archives", "zips", "done"} /\ (to = "zips" => n \in 1..Len(Entries[e].zips)) /\ to # "archives"
  BY <1>4
<1>6. stage' = [stage EXCEPT ![e] = to]
  BY <1>3
<1> HIDE DEF to
<1> QED
  BY <1>3, <1>4, <1>5, <1>6, MovedStep

LEMMA AnsweredStep ==
    ASSUME WarmsKeys, NEW e \in Running, NEW ok, Answered(e, ok)
    PROVE  WarmsKeys'
<1>1. e \in Index /\ Entries[e] # None
  BY DEF WarmsKeys, Running
<1>2. request' = [request EXCEPT ![e] = "send"] /\ UNCHANGED next
  BY DEF Answered
<1>3. ASSUME NEW to \in {"archives", "done"}, stage' = [stage EXCEPT ![e] = to], UNCHANGED zip,
             to = "archives" => Entries[e].archives # None
      PROVE  WarmsKeys'
  <2>1. zip[e] \in Nat /\ zip' = [zip EXCEPT ![e] = zip[e]]
    BY <1>1, <1>3 DEF WarmsKeys
  <2> QED
    BY <1>2, <1>3, <2>1, MovedStep
<1>4. CASE stage[e] = "versions"
  BY <1>3, <1>4 DEF Answered
<1>5. CASE stage[e] = "archives" /\ WarmZips(e, 1)
  <2>1. 1 \in Nat \ {0}
    OBVIOUS
  <2> QED
    BY <1>2, <1>5, <2>1, WarmZipsStep
<1>6. CASE stage[e] = "archives" /\ stage' = [stage EXCEPT ![e] = "done"] /\ UNCHANGED zip
  BY <1>3, <1>6
<1>7. CASE stage[e] = "zips" /\ WarmZips(e, zip[e] + 1)
  <2>1. zip[e] + 1 \in Nat \ {0}
    BY <1>1 DEF WarmsKeys
  <2> QED
    BY <1>2, <1>7, <2>1, WarmZipsStep
<1> QED
  BY <1>4, <1>5, <1>6, <1>7 DEF Running, Answered

\* No other step changes what is warmed, but the launch of an entry.
LEMMA WarmsStep ==
    ASSUME WarmsKeys, [Next]_vars
    PROVE  WarmsKeys'
<1>1. ASSUME UNCHANGED <<next, stage, zip>>, request' \in [Index -> Requests],
             \A e \in Index : request'[e] # request[e] => e \in Running /\ Key(e) # Refused
      PROVE  WarmsKeys'
  <2>1. Running' = Running /\ \A e \in Running : e \in Index /\ Key(e)' = Key(e)
    BY <1>1, SameKey DEF Running
  <2> QED
    BY <1>1, <2>1 DEF WarmsKeys, Running
<1>2. CASE UNCHANGED <<next, stage, zip, request>>
  BY <1>1, <1>2 DEF WarmsKeys
<1>3. CASE Launch
  <2>1. next \in Index /\ next' = next + 1 /\ next' \in Nat /\ UNCHANGED <<zip, request>>
    BY <1>3 DEF Launch, WarmsKeys
  <2>2. Index \subseteq Nat
    BY EntriesAssumption DEF Index
  <2>3. CASE UNCHANGED stage
    BY <2>1, <2>2, <2>3 DEF WarmsKeys, Running, Key
  <2>4. CASE Entries[next] # None /\ stage' = [stage EXCEPT ![next] = "versions"]
    <3>1. request[next] = "send" /\ Running' = Running \cup {next}
      BY <2>1, <2>2, <2>4 DEF WarmsKeys, Running
    <3>2. \A e \in Running' : request'[e] # "send" => Key(e)' # Refused
      <4> SUFFICES ASSUME NEW e \in Running', request'[e] # "send" PROVE Key(e)' # Refused
        OBVIOUS
      <4>1. e \in Running /\ e # next /\ e \in Index
        BY <2>1, <3>1 DEF Running
      <4>2. stage'[e] = stage[e] /\ zip'[e] = zip[e] /\ request'[e] = request[e]
        BY <2>1, <2>4, <4>1 DEF WarmsKeys
      <4> QED
        BY <4>1, <4>2, SameKey DEF WarmsKeys
    <3>3. stage' \in [Index -> Stages] /\ \A e \in Running' : Entries[e] # None
      BY <2>1, <2>4, <3>1 DEF WarmsKeys, Stages
    <3>4. ASSUME NEW i \in Index
          PROVE  /\ i >= next' => stage'[i] = "idle"
                 /\ stage'[i] = "idle" => request'[i] = "send"
                 /\ stage'[i] = "archives" => Entries[i].archives # None
                 /\ stage'[i] = "zips" => zip'[i] \in 1..Len(Entries[i].zips)
      BY <2>1, <2>2, <2>4 DEF WarmsKeys
    <3> QED
      BY <2>1, <3>2, <3>3, <3>4 DEF WarmsKeys
  <2> QED
    BY <1>3, <2>3, <2>4 DEF Launch
<1>4. ASSUME NEW e \in Index, Handle(e) \/ FetchDirectly(e) PROVE WarmsKeys'
  <2>1. e \in Running
    BY <1>4 DEF Handle, Reject, Send, Receive, GiveUp, CancelDirect, FetchDirectly, Waiting
  <2>2. CASE \E ok \in BOOLEAN : Answered(e, ok)
    BY <2>1, <2>2, AnsweredStep
  <2>3. CASE Send(e) /\ \E how \in {"wait", "stale"} : Coalesce(e, how)
    BY <1>1, <2>1, <2>3 DEF Send, Coalesce, WarmsKeys, Requests
  <2>4. CASE Receive(e) /\ request' = [request EXCEPT ![e] = "direct"] /\ UNCHANGED <<next, stage, zip>>
    <3>1. request[e] # "send"
      BY <2>4 DEF Receive, Waiting
    <3> QED
      BY <1>1, <2>1, <2>4, <3>1 DEF WarmsKeys, Requests
  <2> QED
    BY <1>4, <2>2, <2>3, <2>4 DEF Handle, Reject, Send, Receive, GiveUp, CancelDirect, FetchDirectly
<1>5. CASE \E k \in Keys : EndFlight(k)
  BY <1>2, <1>5 DEF EndFlight
<1>6. CASE UNCHANGED prewarm
  BY <1>2, <1>6 DEF prewarm
<1> QED
  BY <1>3, <1>4, <1>5, <1>6 DEF Next, Warm, vars

-----------------------------------------------------------------------------
(* What happens to files *)

\* Outside the evictor a file stays as it is, is used now, is written anew, or is gone.
FileStep(k) ==
    \/ files'[k] = files[k]
    \/ files[k] # None /\ files'[k] = [size |-> files[k].size, mod |-> now]
    \/ files'[k] = None
    \/ files'[k] \in [size : Nat, mod : 0..now] /\ (fresh # None => k \in fresh')

FilesStep ==
    /\ files' \in [Keys -> File \cup {None}]
    /\ \A k \in Keys : FileStep(k)
    /\ fresh = None => fresh' = None
    /\ fresh # None => fresh \subseteq fresh' /\ fresh' \in SUBSET Keys
    /\ now' \in {now, now + 1}

FilesOK ==
    /\ now \in Nat
    /\ files \in [Keys -> File \cup {None}]
    /\ fresh \in (SUBSET Keys) \cup {None}

LEMMA ReadSteps ==
    ASSUME FilesOK, NEW k, Read(k), UNCHANGED <<fresh, now>>
    PROVE  FilesStep
<1>1. files' \in [Keys -> File \cup {None}]
  BY DEF Read, FilesOK, File
<1>2. ASSUME NEW j \in Keys PROVE FileStep(j)
  <2>1. CASE j = k /\ files' = [files EXCEPT ![k].mod = now]
    <3>1. files[j] \in File /\ files'[j] = [files[j] EXCEPT !.mod = now]
      BY <2>1 DEF Read, FilesOK
    <3>2. files'[j] = [size |-> files[j].size, mod |-> now]
      BY <3>1 DEF File
    <3> QED
      BY <2>1, <3>2 DEF FileStep, Read
  <2>2. CASE files'[j] = files[j]
    BY <2>2 DEF FileStep
  <2> QED
    BY <2>1, <2>2 DEF Read, FilesOK
<1> QED
  BY <1>1, <1>2 DEF FilesStep, FilesOK

LEMMA WriteSteps ==
    ASSUME FilesOK, NEW k \in Keys, Write(k), UNCHANGED now
    PROVE  FilesStep
<1>1. PICK size \in SizesOf[k], mod \in 0..now : files' = [files EXCEPT ![k] = [size |-> size, mod |-> mod]]
  BY DEF Write
<1>2. size \in Nat
  BY FilesAssumption
<1>3. files'[k] \in [size : Nat, mod : 0..now]
  BY <1>1, <1>2 DEF FilesOK
<1>4. \A j \in Keys \ {k} : files'[j] = files[j]
  BY <1>1 DEF FilesOK
<1>5. fresh # None => k \in fresh' /\ fresh \subseteq fresh' /\ fresh' \in SUBSET Keys
  BY DEF FilesOK, Write
<1>6. files' \in [Keys -> File \cup {None}] /\ (fresh = None => fresh' = None)
  BY <1>1, <1>2 DEF Write, FilesOK, File
<1> QED
  BY <1>3, <1>4, <1>5, <1>6 DEF FilesStep, FileStep

LEMMA UnlinkSteps ==
    ASSUME FilesOK, NEW k \in Keys, Unlink(k), UNCHANGED <<fresh, now>>
    PROVE  FilesStep
  BY DEF FilesOK, Unlink, FilesStep, FileStep

LEMMA NothingSteps ==
    ASSUME FilesOK, UNCHANGED <<files, fresh>>, now' \in {now, now + 1}
    PROVE  FilesStep
  BY DEF FilesOK, FilesStep, FileStep

LEMMA OutsideSteps ==
    ASSUME FilesOK, WarmsKeys, Outside
    PROVE  FilesStep
<1>1. CASE Warm
  <2>1. CASE Launch
    BY <2>1, NothingSteps DEF Launch, shared
  <2>2. ASSUME NEW e \in Index, Send(e) PROVE FilesStep
    BY <2>2, ReadSteps, NothingSteps DEF Send
  <2>3. ASSUME NEW e \in Index, Receive(e) PROVE FilesStep
    BY <2>3, ReadSteps, NothingSteps DEF Receive
  <2>4. ASSUME NEW e \in Index, Reject(e) \/ GiveUp(e) \/ CancelDirect(e) PROVE FilesStep
    BY <2>4, NothingSteps DEF Reject, GiveUp, CancelDirect, shared
  <2>5. ASSUME NEW e \in Index, FetchDirectly(e) PROVE FilesStep
    <3>1. Key(e) \in Keys
      BY <2>5, KeyIsKey DEF FetchDirectly, WarmsKeys
    <3> QED
      BY <2>5, <3>1, WriteSteps, NothingSteps DEF FetchDirectly, TryWrite
  <2>6. ASSUME NEW k \in Keys, EndFlight(k) PROVE FilesStep
    BY <2>6, WriteSteps, NothingSteps DEF EndFlight, TryWrite
  <2> QED
    BY <1>1, <2>1, <2>2, <2>3, <2>4, <2>5, <2>6 DEF Warm, Handle
<1>2. CASE Environment
  <2>1. CASE Tick \/ Signal
    BY <2>1, NothingSteps DEF Tick, Signal, FilesOK
  <2>2. ASSUME NEW k \in Keys, Serve(k) PROVE FilesStep
    BY <2>2, ReadSteps, WriteSteps, UnlinkSteps DEF Serve
  <2> QED
    BY <1>2, <2>1, <2>2 DEF Environment
<1> QED
  BY <1>1, <1>2 DEF Outside

-----------------------------------------------------------------------------
(* The order of eviction *)

\* k's file, if there is one, was sampled, and has been used since if at all.
Known(k) == files[k] # None => sampled[k] # None /\ files[k].mod >= sampled[k].mod

\* The evictor knows the files it has come to, but those written since the sweep began and
\* those it failed to remove.
Sampling ==
    /\ phase \in {"start", "waiting", "measure"} => \A k \in Keys : sampled[k] = None
    /\ phase # "evict" => skipped = {}
    /\ phase = "collect" => \A k \in Keys \ (fresh \cup todo) : Known(k)
    /\ phase = "evict" => \A k \in Keys \ (fresh \cup skipped) : Known(k)

\* Nothing was used in the future.
Times ==
    \A k \in Keys : /\ files[k] # None => files[k].mod <= now
                    /\ sampled[k] # None => sampled[k].mod <= now

EInv ==
    /\ WarmsKeys /\ FilesOK
    /\ phase \in Phases
    /\ sampled \in [Keys -> File \cup {None}]
    /\ phase \in {"measure", "collect", "evict"} => fresh # None
    /\ Times
    /\ Sampling

LEMMA EInit == Init => EInv
<1> SUFFICES ASSUME Init PROVE EInv
  OBVIOUS
<1>1. WarmsKeys
  BY DEF Init, PrewarmInit, WarmsKeys, Running, Stages, Requests
<1>2. FilesOK
  BY DEF Init, SharedInit, FilesOK
<1> QED
  BY <1>1, <1>2 DEF Init, SharedInit, EvictorInit, EInv, Phases, Times, Sampling

\* Files may be used, written and removed beside the evictor.
LEMMA EOutside ==
    ASSUME EInv, FilesStep, UNCHANGED evictor, WarmsKeys'
    PROVE  EInv'
<1>1. now \in Nat /\ now' \in Nat /\ now <= now'
  BY DEF EInv, FilesOK, FilesStep
<1>2. ASSUME NEW k \in Keys
      PROVE  /\ files'[k] \in File \cup {None}
             /\ files'[k] # None => files'[k].mod <= now'
             /\ Known(k) /\ (fresh # None => k \notin fresh') /\ fresh # None => Known(k)'
  <2>1. FileStep(k) /\ UNCHANGED sampled
    BY DEF FilesStep, evictor
  <2>2. files[k] \in File \cup {None} /\ sampled[k] \in File \cup {None}
    BY DEF EInv, FilesOK
  <2>3. CASE files'[k] = files[k]
    BY <1>1, <2>1, <2>2, <2>3 DEF EInv, Times, Known, File
  <2>4. CASE files[k] # None /\ files'[k] = [size |-> files[k].size, mod |-> now]
    BY <1>1, <2>1, <2>2, <2>4 DEF EInv, Times, Known, File
  <2>5. CASE files'[k] = None
    BY <2>5 DEF Known
  <2>6. CASE files'[k] \in [size : Nat, mod : 0..now] /\ (fresh # None => k \in fresh')
    BY <1>1, <2>6 DEF File
  <2> QED
    BY <2>1, <2>3, <2>4, <2>5, <2>6 DEF FileStep
<1>3. files' \in [Keys -> File \cup {None}]
  BY DEF FilesStep
<1>4. FilesOK' /\ (fresh # None => fresh' # None /\ fresh \subseteq fresh')
  BY <1>1, <1>3, NoneAssumption DEF EInv, FilesOK, FilesStep, File
<1>5. Times'
  BY <1>1, <1>2 DEF EInv, FilesOK, Times, evictor, File
<1>6. Sampling'
  BY <1>2, <1>4 DEF EInv, Sampling, Phases, evictor
<1> QED
  BY <1>4, <1>5, <1>6 DEF EInv, evictor, File, Phases

LEMMA ESweep ==
    ASSUME EInv, Sweep, UNCHANGED prewarm, WarmsKeys'
    PROVE  EInv'
<1>1. {} # None
  BY NoneAssumption
<1>2. CASE StartSweep \/ Measured \/ ScanFailed \/ Evicted
  BY <1>1, <1>2 DEF StartSweep, Measured, ScanFailed, Evicted, Walk, EndSweep, EInv, FilesOK, File,
                    Phases, Times, Sampling
<1>3. CASE Return \/ Collected
  BY <1>3 DEF Return, Collected, shared, EInv, FilesOK, File, Phases, Times, Sampling, Known
<1>4. ASSUME NEW k \in Keys, Visit(k) PROVE EInv'
  <2>1. UNCHANGED <<now, files, fresh, phase, skipped>> /\ todo' = todo \ {k}
    BY <1>4 DEF Visit, shared
  <2>2. FilesOK'
    BY <2>1 DEF EInv, FilesOK, File
  <2>3. /\ sampled' \in [Keys -> File \cup {None}]
        /\ \A j \in Keys : sampled'[j] = sampled[j] \/ (j = k /\ sampled'[j] = files[j] /\ phase = "collect")
        /\ files[k] # None /\ k \notin fresh /\ phase = "collect" => sampled'[k] = files[k]
    BY <1>4 DEF Visit, EInv, FilesOK
  <2>4. Times'
    BY <2>1, <2>3 DEF EInv, Times
  <2>5. \A j \in Keys : Known(j) \/ (j = k /\ j \notin fresh /\ phase = "collect") => Known(j)'
    <3>1. files[k] # None => files[k].mod \in Nat
      BY DEF EInv, FilesOK, File
    <3> QED
      BY <2>1, <2>3, <3>1 DEF Known
  <2>6. Sampling'
    BY <1>4, <2>1, <2>3, <2>5 DEF EInv, Sampling, Visit
  <2> QED
    BY <2>1, <2>2, <2>3, <2>4, <2>6 DEF EInv, File, Phases
<1>5. ASSUME NEW k \in Keys, Remove(k) PROVE EInv'
  <2>1. /\ UNCHANGED <<now, fresh, phase, todo>> /\ phase = "evict"
        /\ sampled' = [sampled EXCEPT ![k] = None]
    BY <1>5 DEF Remove
  <2>2. \/ files' = [files EXCEPT ![k] = None] /\ UNCHANGED skipped
        \/ UNCHANGED files /\ skipped' = skipped \cup {k}
    BY <1>5 DEF Remove, Unlink
  <2>3. FilesOK'
    BY <2>1, <2>2 DEF EInv, FilesOK, File
  <2>4. Times'
    BY <2>1, <2>2 DEF EInv, FilesOK, Times
  <2>5. Sampling'
    BY <2>1, <2>2 DEF EInv, FilesOK, Sampling, Known
  <2> QED
    BY <2>1, <2>3, <2>4, <2>5 DEF EInv, File, Phases
<1> QED
  BY <1>2, <1>3, <1>4, <1>5 DEF Sweep

LEMMA EStep == EInv /\ [Next]_vars => EInv'
<1> SUFFICES ASSUME EInv, [Next]_vars PROVE EInv'
  OBVIOUS
<1>1. WarmsKeys'
  BY WarmsStep DEF EInv
<1>2. CASE Sweep /\ UNCHANGED prewarm
  BY <1>1, <1>2, ESweep
<1>3. CASE Outside
  <2>1. UNCHANGED evictor
    BY <1>3 DEF Outside
  <2> QED
    BY <1>1, <1>3, <2>1, OutsideSteps, EOutside DEF EInv
<1>4. CASE UNCHANGED vars
  <2>1. FilesStep /\ UNCHANGED evictor
    BY <1>4, NothingSteps DEF vars, shared, EInv
  <2> QED
    BY <1>1, <2>1, EOutside
<1> QED
  BY <1>2, <1>3, <1>4, Steps

\* The evictor removes files in the order of their last use, as it sampled it, whatever clients
\* and pre-warming do to them meanwhile.
THEOREM OrderTheorem == Spec => EvictsOldestFirst
<1>1. EInv /\ [Next]_vars => [OldestFirst]_vars
  <2> SUFFICES ASSUME EInv, Next, NEW k \in Keys, phase = "evict", phase' = "evict",
                      sampled[k] # None, sampled'[k] = None,
                      NEW j \in Settled \ (skipped \cup {k})
               PROVE  files[j].mod >= sampled[k].mod
    BY DEF OldestFirst
  <2>1. UNCHANGED sampled \/ \E i \in Keys : Remove(i)
    BY DEF Next, evictor, Sweep, StartSweep, Walk, Visit, Measured, EndSweep, Collected, ScanFailed,
           Evicted, Return
  <2>2. PICK i \in Keys : Remove(i)
    BY <2>1
  <2>3. i = k
    BY <2>2 DEF Remove, EInv
  <2>4. j \in Keys /\ Known(j) /\ files[j] # None
    BY DEF EInv, Sampling, Settled
  <2>5. sampled[k].mod <= sampled[j].mod
    BY <2>2, <2>3, <2>4 DEF Remove, Oldest, Candidates, Known
  <2>6. sampled[k].mod \in Nat /\ sampled[j].mod \in Nat /\ files[j].mod \in Nat
    BY <2>4 DEF EInv, FilesOK, Known, File
  <2> QED
    BY <2>4, <2>5, <2>6 DEF Known
<1> QED
  BY <1>1, EInit, EStep, PTL DEF Spec, EvictsOldestFirst

-----------------------------------------------------------------------------
(* The budget *)

\* The bytes of files, when that of k has f[k] of them, each with its place in its file.
BytesOf(f) == {b \in Keys \X Nat : b[2] \in 1..f[b[1]]}

LEMMA FewerBytes ==
    ASSUME NEW f \in [Keys -> Nat], NEW g \in [Keys -> Nat], \A k \in Keys : f[k] <= g[k],
           IsFiniteSet(BytesOf(g))
    PROVE  IsFiniteSet(BytesOf(f)) /\ Cardinality(BytesOf(f)) <= Cardinality(BytesOf(g))
<1>1. BytesOf(f) \subseteq BytesOf(g)
  BY DEF BytesOf
<1> QED
  BY <1>1, FS_Subset

\* A file of n bytes more.
LEMMA MoreBytes ==
    ASSUME NEW f \in [Keys -> Nat], NEW g \in [Keys -> Nat], NEW k \in Keys,
           f[k] = 0, \A j \in Keys \ {k} : f[j] = g[j], IsFiniteSet(BytesOf(f))
    PROVE  IsFiniteSet(BytesOf(g)) /\ Cardinality(BytesOf(g)) = Cardinality(BytesOf(f)) + g[k]
<1> DEFINE new == {k} \X (1..g[k])
<1>1. g[k] \in Nat
  OBVIOUS
<1>2. IsFiniteSet(1..g[k]) /\ Cardinality(1..g[k]) = g[k]
  BY <1>1, FS_Interval
<1>3. IsFiniteSet({k}) /\ Cardinality({k}) = 1
  BY FS_Singleton
<1>4. IsFiniteSet(new) /\ Cardinality(new) = Cardinality({k}) * Cardinality(1..g[k])
  BY <1>2, <1>3, FS_Product
<1>5. Cardinality(new) = g[k]
  BY <1>1, <1>2, <1>3, <1>4
<1>6. BytesOf(g) = BytesOf(f) \cup new /\ BytesOf(f) \cap new = {}
  <2>1. ASSUME NEW b PROVE b \in BytesOf(g) <=> b \in BytesOf(f) \/ b \in new
    BY DEF BytesOf
  <2>2. ASSUME NEW b \in new PROVE b \notin BytesOf(f)
    BY DEF BytesOf
  <2> QED
    BY <2>1, <2>2
<1>7. Cardinality({}) = 0 /\ Cardinality(BytesOf(f)) \in Nat
  BY FS_EmptySet, FS_CardinalityType
<1> HIDE DEF new
<1>8. /\ IsFiniteSet(BytesOf(f) \cup new)
      /\ Cardinality(BytesOf(f) \cup new)
            = Cardinality(BytesOf(f)) + Cardinality(new) - Cardinality(BytesOf(f) \cap new)
  BY <1>4, FS_Union
<1>9. Cardinality(BytesOf(f) \cap new) = 0
  BY <1>6, <1>7
<1>10. BytesOf(g) = BytesOf(f) \cup new
  BY <1>6
<1> QED
  BY <1>1, <1>5, <1>7, <1>8, <1>9, <1>10

\* The bytes of a file that the total has to account for, once the walk has come to it: those of
\* the file, unless it is new or gone, those of its sample then, until its turn comes.
Counted ==
    [k \in Keys |-> IF k \in todo THEN 0
                    ELSE IF k \in Settled THEN files[k].size
                    ELSE IF sampled[k] # None THEN sampled[k].size
                    ELSE 0]

\* The total accounts for all of them.
Budget ==
    /\ total \in Nat /\ todo \subseteq Keys /\ skipped \subseteq Keys
    /\ phase = "evict" => todo = {}
    /\ phase \in {"collect", "evict"} =>
        /\ IsFiniteSet(BytesOf(Counted)) /\ Cardinality(BytesOf(Counted)) <= total
        /\ \A k \in todo : sampled[k] = None
        /\ \A k \in Settled : sampled[k] # None => sampled[k].size = files[k].size

LEMMA CountedType == EInv => Counted \in [Keys -> Nat]
<1> SUFFICES ASSUME EInv, NEW k \in Keys PROVE Counted[k] \in Nat
  BY DEF Counted
<1> QED
  BY DEF Counted, Settled, EInv, FilesOK, File

LEMMA CountedTypes == EInv /\ EInv' => Counted \in [Keys -> Nat] /\ Counted' \in [Keys -> Nat]
<1>1. EInv' => (Counted \in [Keys -> Nat])'
  BY CountedType, PTL
<1> QED
  BY <1>1, CountedType

\* A step that leaves the phase as it is, and no file more to account for.
LEMMA SameTotal ==
    ASSUME EInv, EInv', Budget, phase' = phase, total' = total, todo' \subseteq todo, skipped' \subseteq Keys,
           \A k \in Keys : Counted'[k] <= Counted[k],
           phase \in {"collect", "evict"} => \A k \in todo' : sampled'[k] = None,
           phase \in {"collect", "evict"} =>
               \A k \in Settled' : sampled'[k] # None => sampled'[k].size = files'[k].size
    PROVE  Budget'
<1>1. Counted \in [Keys -> Nat] /\ Counted' \in [Keys -> Nat]
  BY CountedTypes
<1>2. IsFiniteSet(BytesOf(Counted)) =>
        /\ IsFiniteSet(BytesOf(Counted')) /\ Cardinality(BytesOf(Counted')) <= Cardinality(BytesOf(Counted))
        /\ Cardinality(BytesOf(Counted')) \in Nat /\ Cardinality(BytesOf(Counted)) \in Nat
  BY <1>1, FewerBytes, FS_CardinalityType
<1>3. BytesOf(Counted)' = BytesOf(Counted')
  BY DEF BytesOf
<1>4. phase' \in {"collect", "evict"} =>
        IsFiniteSet(BytesOf(Counted)') /\ Cardinality(BytesOf(Counted)') <= total'
  BY <1>2, <1>3 DEF Budget
<1> QED
  BY <1>4 DEF Budget

\* What others do to files never adds to what the total accounts for: what they write is new.
LEMMA BOutside ==
    ASSUME EInv, EInv', Budget, FilesStep, UNCHANGED evictor
    PROVE  Budget'
<1>1. UNCHANGED <<phase, todo, total, sampled, skipped>>
  BY DEF evictor
<1>2. CASE phase \in {"collect", "evict"}
  <2>1. fresh # None /\ fresh \subseteq fresh'
    BY <1>2 DEF EInv, FilesStep
  <2>2. ASSUME NEW k \in Settled'
        PROVE  k \in Settled /\ files'[k].size = files[k].size
    <3>1. k \in Keys /\ k \notin fresh' /\ files'[k] # None /\ FileStep(k)
      BY <2>2 DEF Settled, FilesStep
    <3>2. files'[k] = files[k] \/ (files[k] # None /\ files'[k] = [size |-> files[k].size, mod |-> now])
      BY <2>1, <3>1 DEF FileStep
    <3> QED
      BY <2>1, <3>1, <3>2 DEF Settled
  <2>3. \A k \in Settled' : sampled'[k] # None => sampled'[k].size = files'[k].size
    BY <1>1, <1>2, <2>2 DEF Budget
  <2>4. Counted \in [Keys -> Nat]
    BY CountedType
  <2>5. ASSUME NEW k \in Keys PROVE Counted'[k] <= Counted[k]
    <3>1. CASE k \in todo \/ k \in Settled'
      BY <1>1, <2>2, <2>4, <3>1 DEF Counted
    <3>2. CASE k \notin todo /\ k \notin Settled' /\ k \in Settled
      BY <1>1, <1>2, <2>4, <3>2 DEF Counted, Budget
    <3>3. CASE k \notin todo /\ k \notin Settled' /\ k \notin Settled
      BY <1>1, <2>4, <3>3 DEF Counted
    <3> QED
      BY <3>1, <3>2, <3>3
  <2> QED
    BY <1>1, <1>2, <2>3, <2>5, SameTotal DEF Budget
<1>3. CASE phase \notin {"collect", "evict"}
  BY <1>1, <1>3 DEF Budget
<1> QED
  BY <1>2, <1>3

\* The walk counts a file that it collects.
LEMMA BVisit ==
    ASSUME EInv, EInv', Budget, NEW k \in Keys, Visit(k)
    PROVE  Budget'
<1>1. /\ UNCHANGED <<phase, files, fresh, skipped>> /\ todo' = todo \ {k} /\ k \in todo
      /\ phase \in {"measure", "collect"} /\ UNCHANGED Settled
  BY DEF Visit, shared, Settled
<1>2. files[k] # None => files[k].size \in Nat
  BY DEF EInv, FilesOK, File
<1>3. CASE phase = "measure"
  BY <1>1, <1>2, <1>3 DEF Visit, Budget
<1>4. CASE phase = "collect" /\ files[k] # None /\ total' = total + files[k].size
           /\ sampled' = [sampled EXCEPT ![k] = files[k]]
  <2>1. Counted \in [Keys -> Nat] /\ Counted' \in [Keys -> Nat]
    BY CountedTypes
  <2>2. sampled'[k] = files[k] /\ \A j \in Keys \ {k} : sampled'[j] = sampled[j]
    BY <1>4 DEF EInv
  <2>3. Counted[k] = 0 /\ Counted'[k] = files[k].size
    BY <1>1, <1>4, <2>2 DEF Counted, EInv
  <2>4. \A j \in Keys \ {k} : Counted'[j] = Counted[j]
    BY <1>1, <2>2 DEF Counted
  <2>5. IsFiniteSet(BytesOf(Counted)) /\ Cardinality(BytesOf(Counted)) <= total
    BY <1>4 DEF Budget
  <2>6. /\ IsFiniteSet(BytesOf(Counted'))
        /\ Cardinality(BytesOf(Counted')) = Cardinality(BytesOf(Counted)) + Counted'[k]
    BY <2>1, <2>3, <2>4, <2>5, MoreBytes
  <2>7. BytesOf(Counted)' = BytesOf(Counted')
    BY DEF BytesOf
  <2>8. Cardinality(BytesOf(Counted)) \in Nat
    BY <2>5, FS_CardinalityType
  <2>9. IsFiniteSet(BytesOf(Counted)') /\ Cardinality(BytesOf(Counted)') <= total'
    BY <1>2, <1>4, <2>3, <2>5, <2>6, <2>7, <2>8 DEF Budget
  <2>10. \A j \in todo' : sampled'[j] = None
    BY <1>1, <1>4, <2>2 DEF Budget
  <2>11. \A j \in Settled' : sampled'[j] # None => sampled'[j].size = files'[j].size
    BY <1>1, <1>4, <2>2 DEF Budget, Settled
  <2> QED
    BY <1>1, <1>2, <1>4, <2>9, <2>10, <2>11 DEF Budget
<1>5. CASE phase = "collect" /\ (files[k] = None \/ k \in fresh) /\ UNCHANGED <<total, sampled>>
  <2>1. Counted \in [Keys -> Nat]
    BY CountedType
  <2>2. sampled[k] = None /\ k \notin Settled
    BY <1>1, <1>5 DEF Budget, Settled
  <2>3. \A j \in Keys : Counted'[j] <= Counted[j]
    BY <1>1, <1>5, <2>1, <2>2 DEF Counted
  <2> QED
    BY <1>1, <1>5, <2>3, SameTotal DEF Budget
<1> QED
  BY <1>1, <1>3, <1>4, <1>5 DEF Visit

\* What is evicted is discounted; what cannot be removed is not.
LEMMA BRemove ==
    ASSUME EInv, EInv', Budget, NEW k \in Keys, Remove(k)
    PROVE  Budget'
<1>1. /\ UNCHANGED <<phase, fresh, todo>> /\ phase = "evict" /\ todo = {}
      /\ sampled' = [sampled EXCEPT ![k] = None] /\ sampled[k] # None
  BY DEF Remove, Oldest, Candidates, Budget
<1>2. sampled'[k] = None /\ \A j \in Keys \ {k} : sampled'[j] = sampled[j]
  BY <1>1 DEF EInv
<1>3. sampled[k].size \in Nat
  BY <1>1 DEF EInv, File
<1>4. Counted \in [Keys -> Nat] /\ Counted' \in [Keys -> Nat]
  BY CountedTypes
<1>5. CASE Unlink(k) /\ total' = total - sampled[k].size /\ UNCHANGED skipped
  <2>1. files'[k] = None /\ \A j \in Keys \ {k} : files'[j] = files[j]
    BY <1>5 DEF Unlink, EInv, FilesOK
  <2>2. Settled' = Settled \ {k}
    BY <1>1, <2>1 DEF Settled
  <2>3. Counted'[k] = 0 /\ Counted[k] = sampled[k].size
    BY <1>1, <1>2, <2>2 DEF Counted, Budget
  <2>4. \A j \in Keys \ {k} : Counted'[j] = Counted[j]
    BY <1>1, <1>2, <2>1, <2>2 DEF Counted
  <2>5. IsFiniteSet(BytesOf(Counted)) /\ Cardinality(BytesOf(Counted)) <= total
    BY <1>1 DEF Budget
  <2>6. \A j \in Keys : Counted'[j] <= Counted[j]
    BY <1>3, <1>4, <2>3, <2>4
  <2>7. IsFiniteSet(BytesOf(Counted'))
    BY <1>4, <2>5, <2>6, FewerBytes
  <2>8. Cardinality(BytesOf(Counted)) = Cardinality(BytesOf(Counted')) + Counted[k]
    BY <1>4, <2>3, <2>4, <2>7, MoreBytes
  <2>9. BytesOf(Counted)' = BytesOf(Counted')
    BY DEF BytesOf
  <2>10. Cardinality(BytesOf(Counted')) \in Nat
    BY <2>7, FS_CardinalityType
  <2>11. total' \in Nat /\ IsFiniteSet(BytesOf(Counted)') /\ Cardinality(BytesOf(Counted)') <= total'
    BY <1>3, <1>5, <2>3, <2>5, <2>7, <2>8, <2>9, <2>10 DEF Budget
  <2>12. \A j \in Settled' : sampled'[j] # None => sampled'[j].size = files'[j].size
    BY <1>1, <1>2, <2>1, <2>2 DEF Budget, Settled
  <2> QED
    BY <1>1, <1>5, <2>11, <2>12 DEF Budget
<1>6. CASE skipped' = skipped \cup {k} /\ UNCHANGED <<files, total>>
  <2>1. UNCHANGED Settled
    BY <1>1, <1>6 DEF Settled
  <2>2. \A j \in Keys : Counted'[j] <= Counted[j]
    BY <1>1, <1>2, <1>4, <1>6, <2>1 DEF Counted
  <2>3. \A j \in Settled' : sampled'[j] # None => sampled'[j].size = files'[j].size
    BY <1>1, <1>2, <1>6, <2>1 DEF Budget, Settled
  <2> QED
    BY <1>1, <1>6, <2>2, <2>3, SameTotal DEF Budget
<1> QED
  BY <1>5, <1>6 DEF Remove

\* Nothing is counted when the walk begins.
LEMMA BWalk ==
    ASSUME EInv, Budget, Walk("measure") \/ Walk("collect"), phase \in {"start", "waiting", "measure"}
    PROVE  Budget'
<1>1. /\ todo' = Keys /\ total' = 0 /\ UNCHANGED <<sampled, skipped>> /\ phase' \in {"measure", "collect"}
      /\ \A k \in Keys : sampled[k] = None
  BY DEF Walk, EInv, Sampling
<1>2. \A k \in Keys : Counted'[k] = 0
  BY <1>1 DEF Counted
<1>3. BytesOf(Counted') = {}
  BY <1>2 DEF BytesOf
<1>4. BytesOf(Counted)' = BytesOf(Counted')
  BY DEF BytesOf
<1>5. IsFiniteSet(BytesOf(Counted)') /\ Cardinality(BytesOf(Counted)') <= total'
  BY <1>1, <1>3, <1>4, FS_EmptySet
<1>6. todo' \subseteq Keys /\ \A k \in todo' : sampled'[k] = None
  BY <1>1
<1>7. \A k \in Settled' : sampled'[k] = None
  BY <1>1 DEF Settled
<1> QED
  BY <1>1, <1>5, <1>6, <1>7 DEF Budget

LEMMA BSweep ==
    ASSUME EInv, EInv', Budget, Sweep
    PROVE  Budget'
<1>1. CASE EndSweep
  BY <1>1 DEF EndSweep, Budget
<1>2. CASE StartSweep \/ Measured
  BY <1>1, <1>2, BWalk DEF StartSweep, Measured
<1>3. CASE ScanFailed \/ Evicted
  BY <1>1, <1>3 DEF ScanFailed, Evicted
<1>4. CASE Return
  BY <1>4 DEF Return, Budget
<1>5. CASE Collected
  <2>1. UNCHANGED <<files, fresh, todo, total, sampled, skipped>> /\ todo = {} /\ phase = "collect" /\ phase' = "evict"
    BY <1>5 DEF Collected, shared
  <2>2. UNCHANGED <<Settled, Counted>>
    BY <2>1 DEF Counted, Settled
  <2>3. BytesOf(Counted)' = BytesOf(Counted)
    BY <2>2 DEF BytesOf
  <2> QED
    BY <2>1, <2>2, <2>3 DEF Budget
<1> QED
  BY <1>2, <1>3, <1>4, <1>5, BVisit, BRemove DEF Sweep

LEMMA BInit == Init => Budget
  BY DEF Init, EvictorInit, Budget

LEMMA BStep == EInv /\ Budget /\ [Next]_vars => Budget'
<1> SUFFICES ASSUME EInv, Budget, [Next]_vars PROVE Budget'
  OBVIOUS
<1>1. EInv'
  BY EStep
<1>2. CASE Sweep
  BY <1>1, <1>2, BSweep
<1>3. CASE Outside
  <2>1. UNCHANGED evictor
    BY <1>3 DEF Outside
  <2> QED
    BY <1>1, <1>3, <2>1, OutsideSteps, BOutside DEF EInv
<1>4. CASE UNCHANGED vars
  <2>1. FilesStep /\ UNCHANGED evictor
    BY <1>4, NothingSteps DEF vars, shared, EInv
  <2> QED
    BY <1>1, <2>1, BOutside
<1> QED
  BY <1>2, <1>3, <1>4, Steps

\* However many files there are and of whatever sizes, a sweep that evicts ends at the low-water
\* mark or with nothing left to try, although it takes no lock.
THEOREM BudgetTheorem == Spec => SweepKeepsBudget
<1>1. EInv /\ Budget /\ [Next]_vars => [KeepsBudget]_vars
  <2> SUFFICES ASSUME EInv, Budget, Next, phase = "evict", phase' = "waiting"
               PROVE  Cardinality(Bytes(Settled)) <= Target \/ Settled \subseteq skipped
    BY DEF KeepsBudget
  <2>1. ~ UNCHANGED phase
    OBVIOUS
  <2>2. Evicted
    BY <2>1 DEF Next, evictor, Sweep, StartSweep, Walk, Visit, Remove, Measured, EndSweep, Collected,
                ScanFailed, Return
  <2>3. CASE Candidates = {}
    <3>1. \A k \in Settled : k \notin skipped => Known(k) /\ files[k] # None
      BY DEF EInv, Sampling, Settled
    <3> QED
      BY <2>3, <3>1 DEF Known, Candidates, Settled
  <2>4. CASE total <= Target
    <3>1. todo = {} /\ IsFiniteSet(BytesOf(Counted)) /\ Cardinality(BytesOf(Counted)) <= total
      BY DEF Budget
    <3>2. \A k \in Settled : k \in Keys /\ files[k].size \in Nat /\ Counted[k] = files[k].size
      BY <3>1 DEF Counted, Settled, EInv, FilesOK, File
    <3>3. Bytes(Settled) \subseteq BytesOf(Counted)
      BY <3>2 DEF Bytes, BytesOf
    <3>4. Cardinality(Bytes(Settled)) <= Cardinality(BytesOf(Counted)) /\ IsFiniteSet(Bytes(Settled))
      BY <3>1, <3>3, FS_Subset
    <3>5. Cardinality(Bytes(Settled)) \in Nat /\ Cardinality(BytesOf(Counted)) \in Nat
      BY <3>1, <3>4, FS_CardinalityType
    <3>6. total \in Nat /\ Target \in Int
      BY BudgetAssumption DEF Budget, Target
    <3> QED
      BY <2>4, <3>1, <3>4, <3>5, <3>6
  <2> QED
    BY <2>2, <2>3, <2>4 DEF Evicted
<1> QED
  BY <1>1, EInit, EStep, BInit, BStep, PTL DEF Spec, SweepKeepsBudget

-----------------------------------------------------------------------------
(* Types, and the number of entries warmed at a time *)

\* What the handler and the history hold.
Values ==
    /\ request \in [Index -> Requests]
    /\ reply \in [Index -> Replies \cup {None}]
    /\ flights \subseteq Keys /\ failed \subseteq Index /\ troubled \subseteq Index
    /\ served \in Nat /\ stopping \in BOOLEAN

LEMMA AnsweredValues ==
    ASSUME Values, NEW e \in Index, NEW ok \in BOOLEAN, Answered(e, ok), flights' \subseteq Keys,
           troubled' \subseteq Index, UNCHANGED <<served, stopping>>
    PROVE  Values'
<1>1. request' \in [Index -> Requests] /\ reply' \in [Index -> Replies \cup {None}]
  BY DEF Values, Answered, Requests
<1>2. failed' \subseteq Index
  BY DEF Values, Answered
<1> QED
  BY <1>1, <1>2 DEF Values

LEMMA CoalesceValues ==
    ASSUME WarmsKeys, Values, NEW e \in Running, NEW how \in {"wait", "stale"}, Coalesce(e, how),
           Key(e) # Refused,
           UNCHANGED <<served, stopping, troubled>>
    PROVE  Values'
<1>1. Key(e) \in Keys
  BY KeyIsKey
<1> QED
  BY <1>1 DEF Values, Coalesce, Requests

LEMMA ValuesStep ==
    ASSUME WarmsKeys, Values, [Next]_vars
    PROVE  Values'
<1>1. CASE UNCHANGED <<request, reply, flights, failed, troubled, stopping>> /\ served' \in Nat
  BY <1>1 DEF Values
<1>2. CASE Launch
  BY <1>1, <1>2 DEF Launch, shared, Values
<1>3. ASSUME NEW e \in Index, Send(e) PROVE Values'
  <2>1. e \in Running /\ Key(e) # Refused /\ UNCHANGED <<served, stopping, troubled>>
    BY <1>3 DEF Send
  <2>2. CASE Answered(e, TRUE) /\ UNCHANGED flights
    BY <2>1, <2>2, AnsweredValues DEF Values
  <2>3. CASE Coalesce(e, "stale") \/ Coalesce(e, "wait")
    BY <2>1, <2>3, CoalesceValues
  <2> QED
    BY <1>3, <2>2, <2>3 DEF Send
<1>4. ASSUME NEW e \in Index, Receive(e) PROVE Values'
  <2>1. UNCHANGED <<served, stopping, flights, troubled>>
    BY <1>4 DEF Receive
  <2>2. CASE \E ok \in BOOLEAN : Answered(e, ok)
    BY <2>1, <2>2, AnsweredValues DEF Values
  <2>3. CASE /\ request' = [request EXCEPT ![e] = "direct"]
             /\ reply' = [reply EXCEPT ![e] = None] /\ UNCHANGED failed
    BY <2>1, <2>3 DEF Values, Requests
  <2> QED
    BY <1>4, <2>2, <2>3 DEF Receive
<1>5. ASSUME NEW e \in Index, GiveUp(e) \/ CancelDirect(e) PROVE Values'
  <2>1. UNCHANGED <<served, stopping, flights, troubled>> /\ \E ok \in BOOLEAN : Answered(e, ok)
    BY <1>5 DEF GiveUp, CancelDirect, shared
  <2> QED
    BY <2>1, AnsweredValues DEF Values
<1>6. ASSUME NEW e \in Index, FetchDirectly(e) PROVE Values'
  <2>1. UNCHANGED <<served, stopping, flights>> /\ \E ok \in BOOLEAN : Answered(e, ok)
    BY <1>6 DEF FetchDirectly
  <2>2. troubled' \in {troubled, troubled \cup {e}}
    BY <1>6 DEF FetchDirectly
  <2>3. troubled' \subseteq Index
    BY <2>2 DEF Values
  <2> QED
    BY <2>1, <2>3, AnsweredValues DEF Values
<1>7. ASSUME NEW k \in Keys, EndFlight(k) PROVE Values'
  <2>1. PICK outcome \in Replies :
            reply' = [e \in Index |-> IF e \in Told(k) THEN outcome ELSE reply[e]]
    BY <1>7 DEF EndFlight
  <2>2. UNCHANGED <<served, stopping, request, failed>> /\ flights' = flights \ {k}
    BY <1>7 DEF EndFlight
  <2>3. reply' \in [Index -> Replies \cup {None}]
    BY <2>1 DEF Values
  <2>4. troubled' \in {troubled, troubled \cup Told(k)}
    BY <1>7 DEF EndFlight
  <2>5. troubled' \subseteq Index
    BY <2>4 DEF Values, Told
  <2> QED
    BY <2>2, <2>3, <2>5 DEF Values
<1>8. ASSUME NEW e \in Index, Reject(e) PROVE Values'
  <2>1. UNCHANGED <<served, stopping, flights>> /\ Answered(e, FALSE) /\ e \in Running
    BY <1>8 DEF Reject, shared
  <2>2. troubled' \subseteq Index
    BY <1>8 DEF Reject, Values
  <2> QED
    BY <2>1, <2>2, AnsweredValues DEF Values
<1>9. CASE Sweep /\ UNCHANGED prewarm
  <2>1. UNCHANGED <<served, stopping>>
    BY <1>9 DEF Sweep, StartSweep, Visit, Remove, Measured, Collected, ScanFailed, Evicted, Return, shared
  <2> QED
    BY <1>1, <1>9, <2>1 DEF prewarm, Values
<1>10. CASE Environment /\ UNCHANGED <<evictor, prewarm>>
  <2>1. CASE Tick \/ \E k \in Keys : Serve(k)
    BY <1>1, <1>10, <2>1 DEF Tick, Serve, Values, prewarm
  <2>2. CASE Signal
    BY <1>10, <2>2 DEF Signal, Values, prewarm
  <2> QED
    BY <1>10, <2>1, <2>2 DEF Environment
<1>11. CASE UNCHANGED vars
  BY <1>1, <1>11 DEF vars, shared, prewarm, Values
<1> QED
  BY <1>2, <1>3, <1>4, <1>5, <1>6, <1>7, <1>8, <1>9, <1>10, <1>11 DEF Next, Warm, Handle

\* The loop starts an entry only when there is a slot, and no other step occupies one.
Slots ==
    /\ next \in 1..Len(Entries) + 1
    /\ Cardinality(Running) <= MaxConcurrency

LEMMA RunningIsFinite == IsFiniteSet(Running) /\ Cardinality(Running) \in Nat
<1>1. Len(Entries) \in Nat /\ Index = 1..Len(Entries)
  BY EntriesAssumption DEF Index
<1>2. IsFiniteSet(Index)
  BY <1>1, FS_Interval
<1> QED
  BY <1>2, FS_Subset, FS_CardinalityType DEF Running

LEMMA FewerRunning ==
    ASSUME Slots, Running' \subseteq Running, UNCHANGED next
    PROVE  Slots'
<1>1. Cardinality(Running') <= Cardinality(Running) /\ IsFiniteSet(Running')
  BY RunningIsFinite, FS_Subset
<1>2. Cardinality(Running') \in Nat /\ Cardinality(Running) \in Nat
  BY <1>1, RunningIsFinite, FS_CardinalityType
<1> QED
  BY <1>1, <1>2, EntriesAssumption DEF Slots

LEMMA AnsweredSlots ==
    ASSUME WarmsKeys, Slots, NEW e \in Running, NEW ok, Answered(e, ok)
    PROVE  Slots'
<1>1. e \in Index
  BY DEF Running
<1>2. \E to \in Stages : stage' = [stage EXCEPT ![e] = to]
  BY DEF Answered, WarmZips, Stages
<1>3. Running' \subseteq Running
  BY <1>1, <1>2 DEF Running, WarmsKeys
<1> QED
  BY <1>3, FewerRunning DEF Answered

LEMMA SlotsStep ==
    ASSUME WarmsKeys, Slots, [Next]_vars
    PROVE  Slots'
<1>1. CASE UNCHANGED <<next, stage>>
  BY <1>1, FewerRunning DEF Running
<1>2. CASE Launch
  <2>1. Len(Entries) \in Nat /\ Index = 1..Len(Entries)
    BY EntriesAssumption DEF Index
  <2>2. next' \in 1..Len(Entries) + 1
    BY <1>2, <2>1 DEF Launch
  <2>3. CASE UNCHANGED stage
    BY <2>2, <2>3 DEF Slots, Running
  <2>4. CASE stage' = [stage EXCEPT ![next] = "versions"] /\ Cardinality(Running) < MaxConcurrency
    <3>1. Running' \subseteq Running \cup {next}
      BY <2>4 DEF Running, WarmsKeys
    <3>2. /\ IsFiniteSet(Running \cup {next})
          /\ Cardinality(Running \cup {next}) <= Cardinality(Running) + 1
          /\ Cardinality(Running \cup {next}) \in Nat
      BY RunningIsFinite, FS_AddElement, FS_CardinalityType
    <3>3. Cardinality(Running') <= Cardinality(Running \cup {next}) /\ IsFiniteSet(Running')
      BY <3>1, <3>2, FS_Subset
    <3>4. Cardinality(Running') \in Nat
      BY <3>3, FS_CardinalityType
    <3> QED
      BY <2>2, <2>4, <3>2, <3>3, <3>4, RunningIsFinite, EntriesAssumption DEF Slots
  <2> QED
    BY <1>2, <2>3, <2>4 DEF Launch
<1>3. ASSUME NEW e \in Index, Handle(e) \/ FetchDirectly(e) PROVE Slots'
  <2>1. e \in Running
    BY <1>3 DEF Handle, Reject, Send, Receive, GiveUp, CancelDirect, FetchDirectly, Waiting
  <2>2. (\E ok \in BOOLEAN : Answered(e, ok)) \/ UNCHANGED <<next, stage>>
    BY <1>3 DEF Handle, Reject, Send, Coalesce, Receive, GiveUp, CancelDirect, FetchDirectly
  <2> QED
    BY <1>1, <2>1, <2>2, AnsweredSlots
<1>4. CASE \E k \in Keys : EndFlight(k)
  BY <1>1, <1>4 DEF EndFlight
<1>5. CASE UNCHANGED prewarm
  BY <1>1, <1>5 DEF prewarm
<1> QED
  BY <1>2, <1>3, <1>4, <1>5 DEF Next, Warm, vars

LEMMA TInit == Init => Values /\ Slots
<1> SUFFICES ASSUME Init PROVE Values /\ Slots
  OBVIOUS
<1>1. Values
  BY DEF Init, SharedInit, PrewarmInit, Values, Requests
<1>2. Running = {}
  BY DEF Init, PrewarmInit, Running
<1>3. Cardinality(Running) = 0
  BY <1>2, FS_EmptySet
<1>4. Len(Entries) \in Nat
  BY EntriesAssumption
<1> QED
  BY <1>1, <1>3, <1>4, EntriesAssumption DEF Init, PrewarmInit, Slots

\* The types of every variable, and the bound on what is warmed at a time; that the total of the
\* evictor is never negative is due to its accounting for every sample.
THEOREM TypeTheorem == Spec => []TypeOK
<1>1. EInv /\ Budget /\ Values /\ Slots => TypeOK
  <2> SUFFICES ASSUME EInv, Budget, Values, Slots PROVE TypeOK
    OBVIOUS
  <2>1. EvictorTypeOK
    BY DEF EInv, Budget, EvictorTypeOK
  <2>2. PrewarmTypeOK
    BY DEF EInv, WarmsKeys, Values, Slots, PrewarmTypeOK
  <2> QED
    BY <2>1, <2>2 DEF EInv, FilesOK, Values, TypeOK
<1>2. EInv /\ Values /\ Slots /\ [Next]_vars => Values' /\ Slots'
  BY ValuesStep, SlotsStep DEF EInv
<1> QED
  BY <1>1, <1>2, EInit, BInit, TInit, EStep, BStep, PTL DEF Spec

-----------------------------------------------------------------------------
(* Why pre-warming fails *)

WInv ==
    /\ DOMAIN reply = Index /\ troubled \subseteq Index
    /\ \A e \in Index : reply[e] # None => reply[e] \in Replies
    /\ \A e \in Index : reply[e] # None /\ reply[e] # "ok" => e \in troubled
    /\ stopping \/ failed \subseteq troubled

LEMMA WInit == Init => WInv
  BY DEF Init, PrewarmInit, WInv

LEMMA WAnswered ==
    ASSUME WInv, NEW e \in Index, NEW ok \in BOOLEAN, Answered(e, ok),
           troubled \subseteq troubled', troubled' \subseteq Index,
           stopping => stopping', ok \/ e \in troubled' \/ stopping'
    PROVE  WInv'
  BY DEF WInv, Answered

LEMMA WStep == WInv /\ [Next]_vars => WInv'
<1> SUFFICES ASSUME WInv, [Next]_vars PROVE WInv'
  OBVIOUS
<1>1. CASE UNCHANGED <<reply, failed, troubled>> /\ (stopping => stopping')
  BY <1>1 DEF WInv
<1>2. CASE Launch
  BY <1>1, <1>2 DEF Launch, shared
<1>3. ASSUME NEW e \in Index, Send(e) PROVE WInv'
  <2>1. UNCHANGED <<stopping, troubled>> /\ troubled \subseteq Index
    BY <1>3 DEF Send, WInv
  <2>2. CASE Answered(e, TRUE)
    BY <2>1, <2>2, WAnswered
  <2>3. CASE UNCHANGED <<reply, failed>>
    BY <1>1, <2>1, <2>3
  <2> QED
    BY <1>3, <2>2, <2>3 DEF Send, Coalesce
<1>4. ASSUME NEW e \in Index, Receive(e) PROVE WInv'
  <2>1. UNCHANGED <<stopping, troubled>> /\ reply[e] # None /\ troubled \subseteq Index
    BY <1>4 DEF Receive, WInv
  <2>2. CASE Answered(e, TRUE)
    BY <2>1, <2>2, WAnswered
  <2>3. CASE reply' = [reply EXCEPT ![e] = None] /\ UNCHANGED failed
    BY <2>1, <2>3 DEF WInv
  <2>4. CASE reply[e] # "ok" /\ Answered(e, request[e] = "stale" /\ reply[e] = "error")
    <3>1. e \in troubled
      BY <2>1, <2>4 DEF WInv
    <3>2. PICK ok \in BOOLEAN : Answered(e, ok)
      BY <2>4
    <3> QED
      BY <2>1, <3>1, <3>2, WAnswered
  <2> QED
    BY <1>4, <2>2, <2>3, <2>4 DEF Receive
<1>5. ASSUME NEW e \in Index, GiveUp(e) \/ CancelDirect(e) PROVE WInv'
  <2>1. stopping /\ UNCHANGED <<stopping, troubled>> /\ troubled \subseteq Index
    BY <1>5 DEF GiveUp, CancelDirect, shared, WInv
  <2>2. PICK ok \in BOOLEAN : Answered(e, ok)
    BY <1>5 DEF GiveUp, CancelDirect
  <2> QED
    BY <2>1, <2>2, WAnswered
<1>6. ASSUME NEW e \in Index, Reject(e) \/ FetchDirectly(e) PROVE WInv'
  <2>1. troubled \subseteq Index /\ UNCHANGED stopping
    BY <1>6 DEF Reject, FetchDirectly, shared, WInv
  <2>2. CASE Answered(e, TRUE) /\ UNCHANGED troubled
    BY <2>1, <2>2, WAnswered
  <2>3. CASE Answered(e, FALSE) /\ troubled' = troubled \cup {e}
    BY <2>1, <2>3, WAnswered
  <2> QED
    BY <1>6, <2>2, <2>3 DEF Reject, FetchDirectly
<1>7. ASSUME NEW k \in Keys, EndFlight(k) PROVE WInv'
  <2>1. PICK outcome \in Replies :
            /\ reply' = [e \in Index |-> IF e \in Told(k) THEN outcome ELSE reply[e]]
            /\ \/ outcome = "ok" /\ UNCHANGED troubled
               \/ outcome # "ok" /\ troubled' = troubled \cup Told(k)
    BY <1>7 DEF EndFlight
  <2>2. Told(k) \subseteq Index /\ UNCHANGED <<failed, stopping>>
    BY <1>7 DEF EndFlight, Told
  <2> QED
    BY <2>1, <2>2 DEF WInv
<1>8. CASE UNCHANGED prewarm /\ (stopping => stopping')
  BY <1>1, <1>8 DEF prewarm
<1>9. CASE Sweep /\ UNCHANGED prewarm
  <2>1. UNCHANGED stopping
    BY <1>9 DEF Sweep, StartSweep, Visit, Remove, Measured, Collected, ScanFailed, Evicted, Return, shared
  <2> QED
    BY <1>8, <1>9, <2>1
<1>10. CASE Environment /\ UNCHANGED <<evictor, prewarm>>
  <2>1. stopping => stopping'
    BY <1>10 DEF Environment, Tick, Serve, Signal
  <2> QED
    BY <1>8, <1>10, <2>1
<1>11. CASE UNCHANGED vars
  BY <1>8, <1>11 DEF vars, shared
<1> QED
  BY <1>2, <1>3, <1>4, <1>5, <1>6, <1>7, <1>9, <1>10, <1>11 DEF Next, Warm, Handle

\* Pre-warming fails for an entry only when upstream or the staging disk failed it, the handler
\* refuses one of its paths, or the process is told to stop.
THEOREM WarmTheorem == Spec => []WarmFailuresHaveACause
<1>1. WInv => WarmFailuresHaveACause
  BY DEF WInv, WarmFailuresHaveACause
<1> QED
  BY <1>1, WInit, WStep, PTL DEF Spec
=============================================================================
