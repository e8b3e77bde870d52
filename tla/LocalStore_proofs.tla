-------------------------- MODULE LocalStore_proofs --------------------------
(***************************************************************************)
(* Proofs about LocalStore for any number of Puts, removals and crashes:   *)
(* the type invariant, that the key never names a torn file, that a crash  *)
(* takes an acknowledged Put back only with a directory that was new, and  *)
(* that the layer implements ObjectStore.                                  *)
(***************************************************************************)
EXTENDS LocalStore, TLAPS

USE NamesAssumption, CrashesAssumption

\* Whatever the key has named since the last surviving state is a file of a Put that got as far
\* as its rename, with its data on disk; and the state an acknowledged Put made is below the
\* floor, or lost with the directory.  A directory that is absent holds nothing.
LogInv ==
    \A i \in 1..Len(log) : log[i] # None =>
        /\ data[log[i]] = "stable"
        /\ pc[log[i]] \in {"syncdir", "ok", "failed"}

WriterInv ==
    \A w \in Writers :
        /\ pc[w] = "rename"  => data[w] = "stable"
        /\ pc[w] = "syncdir" => \E i \in 1..Len(log) : log[i] = w
        /\ pc[w] = "ok"      => \/ \E i \in 1..floor : log[i] = w
                             \/ \A i \in 1..Len(log) : log[i] # w

IInv == TypeOK /\ LogInv /\ WriterInv

-----------------------------------------------------------------------------
\* Appending to a non-empty sequence keeps what was there and adds one state at the end.
LEMMA AppendFacts ==
    ASSUME NEW S, NEW s \in Seq(S), NEW e \in S
    PROVE  /\ Append(s, e) \in Seq(S)
           /\ Len(Append(s, e)) = Len(s) + 1
           /\ \A i \in 1..Len(s) : Append(s, e)[i] = s[i]
           /\ Append(s, e)[Len(s) + 1] = e
  OBVIOUS

\* A prefix of a sequence.
LEMMA PrefixFacts ==
    ASSUME NEW S, NEW s \in Seq(S), NEW n \in 1..Len(s)
    PROVE  /\ SubSeq(s, 1, n) \in Seq(S)
           /\ Len(SubSeq(s, 1, n)) = n
           /\ \A i \in 1..n : SubSeq(s, 1, n)[i] = s[i]
  OBVIOUS
\* The step Len(log) + 1 is the only one Append adds: what held of every state of the log and
\* holds of the new one holds of all.
LEMMA LastIsNew ==
    ASSUME NEW n \in Nat, NEW i \in 1..(n + 1)
    PROVE  i \in 1..n \/ i = n + 1
  OBVIOUS

-----------------------------------------------------------------------------
LEMMA InvInit == Init => IInv
<1> SUFFICES ASSUME Init PROVE IInv
  OBVIOUS
<1>1. log \in Seq(Names) /\ Len(log) = 1 /\ log[1] = None
  BY DEF Init, Names
<1>2. TypeOK
  BY <1>1 DEF Init, TypeOK, Steps, Contents, Names
<1>3. LogInv
  BY <1>1 DEF LogInv
<1>4. WriterInv
  BY DEF Init, WriterInv
<1> QED
  BY <1>2, <1>3, <1>4 DEF IInv

\* A step of Put before the rename changes the writer's own file only, which the key never named.
LEMMA EarlyStep ==
    ASSUME IInv, NEW w \in Writers, NEW step \in Steps, NEW content \in Contents,
           pc[w] \in {"idle", "copy", "sync"},
           step \in {"copy", "sync", "rename", "failed"},
           step = "rename" => content = "stable",
           pc' = [pc EXCEPT ![w] = step],
           data' = [data EXCEPT ![w] = content],
           dir' \in {"absent", "new", "durable"},
           UNCHANGED <<log, floor, removed, crashes>>
    PROVE  IInv'
<1>1. TypeOK'
  BY DEF IInv, TypeOK
<1>2. ASSUME NEW i \in 1..Len(log), log[i] # None
      PROVE  log[i] \in Writers /\ log[i] # w
  BY <1>2 DEF IInv, LogInv, TypeOK, Names
<1>3. LogInv'
  BY <1>2 DEF IInv, LogInv, TypeOK
<1>4. WriterInv'
  BY DEF IInv, WriterInv, TypeOK
<1> QED
  BY <1>1, <1>3, <1>4 DEF IInv

\* An error return changes nothing but the writer's step.
LEMMA FailStep ==
    ASSUME IInv, NEW w \in Writers, Fail(w), UNCHANGED data, dir' \in {"absent", "new", "durable"},
           pc[w] # "ok"
    PROVE  IInv'
<1>1. TypeOK'
  BY DEF IInv, TypeOK, Fail, Goto, Steps
<1>2. LogInv'
  BY DEF IInv, LogInv, TypeOK, Fail, Goto
<1>3. WriterInv'
  BY DEF IInv, WriterInv, TypeOK, Fail, Goto
<1> QED
  BY <1>1, <1>2, <1>3 DEF IInv

LEMMA RenameStep ==
    ASSUME IInv, NEW w \in Writers, Rename(w)
    PROVE  IInv'
<1>1. CASE Fail(w)
  BY <1>1, FailStep DEF Rename, IInv, TypeOK
<1>2. CASE /\ Goto(w, "syncdir")
           /\ log' = Append(log, w)
           /\ UNCHANGED <<floor, removed, crashes>>
  <2>1. log \in Seq(Names) /\ w \in Names /\ Len(log) \in Nat
    BY DEF IInv, TypeOK, Names
  <2>2. /\ log' \in Seq(Names)
        /\ Len(log') = Len(log) + 1
        /\ \A i \in 1..Len(log) : log'[i] = log[i]
        /\ log'[Len(log) + 1] = w
    BY <1>2, <2>1, AppendFacts
  <2>3. pc' = [pc EXCEPT ![w] = "syncdir"] /\ UNCHANGED <<data, dir>>
    BY <1>2 DEF Rename, Goto
  <2>4. TypeOK'
    BY <1>2, <2>2, <2>3 DEF IInv, TypeOK, Steps
  <2>5. LogInv'
    <3> SUFFICES ASSUME NEW i \in 1..(Len(log) + 1), log'[i] # None
                 PROVE  data'[log'[i]] = "stable" /\ pc'[log'[i]] \in {"syncdir", "ok", "failed"}
      BY <2>2 DEF LogInv
    <3>1. CASE i \in 1..Len(log)
      BY <3>1, <2>2, <2>3 DEF IInv, LogInv, TypeOK
    <3>2. CASE i = Len(log) + 1
      BY <3>2, <2>2, <2>3 DEF IInv, WriterInv, TypeOK, Rename
    <3> QED
      BY <2>1, <3>1, <3>2, LastIsNew
  <2>6. WriterInv'
    <3> SUFFICES ASSUME NEW v \in Writers
                 PROVE  /\ pc'[v] = "rename"  => data'[v] = "stable"
                        /\ pc'[v] = "syncdir" => \E i \in 1..Len(log') : log'[i] = v
                        /\ pc'[v] = "ok"      => \/ \E i \in 1..floor' : log'[i] = v
                                                 \/ \A i \in 1..Len(log') : log'[i] # v
      BY DEF WriterInv
    <3>1. CASE v = w
      BY <3>1, <2>1, <2>2, <2>3 DEF IInv, TypeOK
    <3>2. CASE v # w
      <4>1. pc'[v] = pc[v] /\ data'[v] = data[v] /\ floor' = floor
        BY <3>2, <2>3, <1>2 DEF IInv, TypeOK
      <4>2. 1..Len(log) \subseteq 1..Len(log') /\ 1..floor \subseteq 1..Len(log)
        BY <2>1, <2>2 DEF IInv, TypeOK
      <4>3. \A i \in 1..Len(log') : i \in 1..Len(log) \/ log'[i] = w
        BY <2>1, <2>2
      <4>4. pc[v] = "syncdir" => \E i \in 1..Len(log') : log'[i] = v
        BY <4>2, <2>2 DEF IInv, WriterInv
      <4>5. ASSUME pc[v] = "ok"
            PROVE  \/ \E i \in 1..floor : log'[i] = v
                   \/ \A i \in 1..Len(log') : log'[i] # v
        <5>1. CASE \E i \in 1..floor : log[i] = v
          BY <5>1, <4>2, <2>2
        <5>2. CASE \A i \in 1..Len(log) : log[i] # v
          BY <5>2, <3>2, <4>3, <2>2
        <5> QED
          BY <4>5, <5>1, <5>2 DEF IInv, WriterInv
      <4>6. pc'[v] = "rename" => data'[v] = "stable"
        BY <4>1 DEF IInv, WriterInv
      <4>7. pc'[v] = "syncdir" => \E i \in 1..Len(log') : log'[i] = v
        BY <4>1, <4>4
      <4>8. ASSUME pc'[v] = "ok"
            PROVE  \/ \E i \in 1..floor' : log'[i] = v
                   \/ \A i \in 1..Len(log') : log'[i] # v
        <5>1. pc[v] = "ok" /\ floor' = floor
          BY <4>1, <4>8
        <5> QED
          BY <5>1, <4>5
      <4> QED
        BY <4>6, <4>7, <4>8
    <3> QED
      BY <3>1, <3>2
  <2> QED
    BY <2>4, <2>5, <2>6 DEF IInv
<1> QED
  BY <1>1, <1>2 DEF Rename

LEMMA SyncDirStep ==
    ASSUME IInv, NEW w \in Writers, SyncDir(w)
    PROVE  IInv'
<1>1. CASE Fail(w)
  BY <1>1, FailStep DEF SyncDir, IInv, TypeOK
<1>2. CASE /\ Goto(w, "ok")
           /\ floor' = Len(log)
           /\ UNCHANGED <<log, removed, crashes>>
  <2>1. pc' = [pc EXCEPT ![w] = "ok"] /\ UNCHANGED <<data, log, dir>> /\ pc[w] = "syncdir"
    BY <1>2 DEF SyncDir, Goto
  <2>2. TypeOK'
    BY <1>2, <2>1 DEF IInv, TypeOK, Steps
  <2>3. LogInv'
    BY <2>1 DEF IInv, LogInv, TypeOK
  <2>4. 1..floor \subseteq 1..Len(log)
    BY DEF IInv, TypeOK
  <2>5. WriterInv'
    BY <1>2, <2>1, <2>4 DEF IInv, WriterInv, TypeOK
  <2> QED
    BY <2>2, <2>3, <2>5 DEF IInv
<1> QED
  BY <1>1, <1>2 DEF SyncDir

LEMMA UnlinkStep ==
    ASSUME IInv, NEW d \in Removers, Unlink(d)
    PROVE  IInv'
<1>1. log \in Seq(Names) /\ None \in Names /\ Len(log) \in Nat \ {0} /\ Entry \in Names
  BY DEF IInv, TypeOK, Names, Entry
<1>2. /\ log' \in Seq(Names)
      /\ Len(log') = Len(log) + 1
      /\ \A i \in 1..Len(log) : log'[i] = log[i]
      /\ log'[Len(log) + 1] = None
  BY <1>1, AppendFacts DEF Unlink
<1>3. TypeOK'
  BY <1>1, <1>2 DEF IInv, TypeOK, Unlink
<1>4. LogInv'
  <2> SUFFICES ASSUME NEW i \in 1..(Len(log) + 1), log'[i] # None
               PROVE  data'[log'[i]] = "stable" /\ pc'[log'[i]] \in {"syncdir", "ok", "failed"}
    BY <1>2 DEF LogInv
  <2>1. i \in 1..Len(log)
    BY <1>1, <1>2, LastIsNew
  <2> QED
    BY <2>1, <1>2 DEF IInv, LogInv, Unlink
<1>5. 1..Len(log) \subseteq 1..Len(log') /\ 1..floor \subseteq 1..Len(log)
  BY <1>1, <1>2 DEF IInv, TypeOK
<1>6. \A i \in 1..Len(log') : i \in 1..Len(log) \/ log'[i] = None
  BY <1>1, <1>2
<1>7. WriterInv'
  BY <1>2, <1>5, <1>6 DEF IInv, WriterInv, Unlink
<1> QED
  BY <1>3, <1>4, <1>7 DEF IInv

LEMMA ProcessCrashStep ==
    ASSUME IInv, ProcessCrash
    PROVE  IInv'
<1>1. TypeOK'
  BY DEF IInv, TypeOK, ProcessCrash, CallsLost, Steps
<1>2. LogInv'
  BY DEF IInv, LogInv, TypeOK, Names, ProcessCrash, CallsLost
<1>3. WriterInv'
  BY DEF IInv, WriterInv, TypeOK, ProcessCrash, CallsLost
<1> QED
  BY <1>1, <1>2, <1>3 DEF IInv

\* What a node crash leaves of the calls and of the files.
LEMMA NodeCrashFacts ==
    ASSUME IInv, NodeCrash
    PROVE  /\ pc' = [w \in Writers |-> IF pc[w] \in {"idle", "ok"} THEN pc[w] ELSE "failed"]
           /\ \A w \in Writers : data[w] = "stable" => data'[w] = "stable"
           /\ data' \in [Writers -> Contents] /\ pc' \in [Writers -> Steps]
           /\ crashes' \in 0..Crashes /\ removed' = removed
<1>1. /\ pc' = [w \in Writers |-> IF pc[w] \in {"idle", "ok"} THEN pc[w] ELSE "failed"]
      /\ \A w \in Writers : data[w] = "stable" => data'[w] = "stable"
  BY DEF NodeCrash, CallsLost
<1>2. data' \in [Writers -> Contents] /\ pc' \in [Writers -> Steps]
  BY DEF IInv, TypeOK, NodeCrash, CallsLost, Contents, Steps
<1>3. crashes' \in 0..Crashes /\ removed' = removed
  BY DEF IInv, TypeOK, NodeCrash
<1> QED
  BY <1>1, <1>2, <1>3

LEMMA KeepStep ==
    ASSUME IInv, NodeCrash, Keep
    PROVE  IInv'
<1>1. PICK kept \in floor..Len(log) : log' = SubSeq(log, 1, kept) /\ floor' = kept
  BY DEF Keep
<1>2. log \in Seq(Names) /\ kept \in 1..Len(log) /\ 1..floor \subseteq 1..kept
  BY DEF IInv, TypeOK
<1>3. /\ log' \in Seq(Names)
      /\ Len(log') = kept
      /\ \A i \in 1..kept : log'[i] = log[i]
  BY <1>1, <1>2, PrefixFacts
<1>4. /\ pc' = [w \in Writers |-> IF pc[w] \in {"idle", "ok"} THEN pc[w] ELSE "failed"]
      /\ \A w \in Writers : data[w] = "stable" => data'[w] = "stable"
  BY NodeCrashFacts
<1>5. TypeOK'
  <2>1. dir' \in {"absent", "new", "durable"}
    BY DEF IInv, TypeOK, Keep
  <2> QED
    BY <1>1, <1>2, <1>3, <2>1, NodeCrashFacts DEF IInv, TypeOK
<1>6. LogInv'
  BY <1>2, <1>3, <1>4 DEF IInv, LogInv, TypeOK, Names
<1>7. WriterInv'
  <2> SUFFICES ASSUME NEW w \in Writers, pc'[w] = "ok"
               PROVE  \/ \E i \in 1..floor' : log'[i] = w
                      \/ \A i \in 1..Len(log') : log'[i] # w
    BY <1>4 DEF WriterInv
  <2>1. CASE \E i \in 1..floor : log[i] = w
    BY <2>1, <1>1, <1>2, <1>3
  <2>2. CASE \A i \in 1..Len(log) : log[i] # w
    BY <2>2, <1>2, <1>3
  <2> QED
    BY <1>4, <2>1, <2>2 DEF IInv, WriterInv
<1> QED
  BY <1>5, <1>6, <1>7 DEF IInv

LEMMA UprootStep ==
    ASSUME IInv, NodeCrash, Uproot
    PROVE  IInv'
<1>1. log' = <<None>> /\ floor' = 1 /\ dir' = "absent"
  BY DEF Uproot
<1>2. log' \in Seq(Names) /\ Len(log') = 1 /\ log'[1] = None
  BY <1>1 DEF Names
<1>3. TypeOK'
  BY <1>1, <1>2, NodeCrashFacts DEF IInv, TypeOK
<1>4. LogInv'
  BY <1>2 DEF LogInv
<1>5. WriterInv'
  BY <1>2, NodeCrashFacts DEF WriterInv
<1> QED
  BY <1>3, <1>4, <1>5 DEF IInv

LEMMA NodeCrashStep ==
    ASSUME IInv, NodeCrash
    PROVE  IInv'
  BY KeepStep, UprootStep DEF NodeCrash

LEMMA CreateStep ==
    ASSUME IInv, NEW w \in Writers, Create(w)
    PROVE  IInv'
<1>1. pc[w] = "idle" /\ dir' \in {"absent", "new", "durable"}
  BY DEF Create, IInv, TypeOK
<1>2. CASE Fail(w) /\ UNCHANGED data
  BY <1>1, <1>2, FailStep
<1>3. CASE /\ Goto(w, "copy")
           /\ data' = [data EXCEPT ![w] = "partial"]
           /\ UNCHANGED <<log, floor, removed, crashes>>
  BY <1>1, <1>3, EarlyStep DEF Goto, Steps, Contents
<1> QED
  BY <1>2, <1>3 DEF Create

LEMMA CopyStep ==
    ASSUME IInv, NEW w \in Writers, Copy(w)
    PROVE  IInv'
<1>1. pc[w] = "copy" /\ dir' \in {"absent", "new", "durable"}
  BY DEF Copy, IInv, TypeOK
<1>2. CASE Fail(w) /\ UNCHANGED data
  BY <1>1, <1>2, FailStep
<1>3. CASE /\ Goto(w, "sync")
           /\ data' = [data EXCEPT ![w] = "whole"]
           /\ UNCHANGED <<log, floor, removed, crashes>>
  BY <1>1, <1>3, EarlyStep DEF Goto, Steps, Contents
<1> QED
  BY <1>2, <1>3 DEF Copy

LEMMA SyncStep ==
    ASSUME IInv, NEW w \in Writers, Sync(w)
    PROVE  IInv'
<1>1. pc[w] = "sync" /\ dir' \in {"absent", "new", "durable"}
  BY DEF Sync, IInv, TypeOK
<1>2. CASE Fail(w) /\ UNCHANGED data
  BY <1>1, <1>2, FailStep
<1>3. CASE /\ Goto(w, "rename")
           /\ data' = [data EXCEPT ![w] = "stable"]
           /\ UNCHANGED <<log, floor, removed, crashes>>
  BY <1>1, <1>3, EarlyStep DEF Goto, Steps, Contents
<1> QED
  BY <1>2, <1>3 DEF Sync

\* IInv is inductive.
LEMMA InvStep == IInv /\ [Next]_vars => IInv'
<1> SUFFICES ASSUME IInv, [Next]_vars PROVE IInv'
  OBVIOUS
<1>1. ASSUME NEW w \in Writers, Put(w) PROVE IInv'
  BY <1>1, CreateStep, CopyStep, SyncStep, RenameStep, SyncDirStep DEF Put
<1>2. ASSUME NEW d \in Removers, Unlink(d) PROVE IInv'
  BY <1>2, UnlinkStep
<1>3. CASE ProcessCrash
  BY <1>3, ProcessCrashStep
<1>4. CASE NodeCrash
  BY <1>4, NodeCrashStep
<1>5. CASE UNCHANGED vars
  <2>1. TypeOK'
    BY <1>5 DEF IInv, TypeOK, vars
  <2>2. LogInv'
    BY <1>5 DEF IInv, LogInv, vars
  <2>3. WriterInv'
    BY <1>5 DEF IInv, WriterInv, vars
  <2> QED
    BY <2>1, <2>2, <2>3 DEF IInv
<1> QED
  BY <1>1, <1>2, <1>3, <1>4, <1>5 DEF Next

LEMMA InvCorrect == Spec => []IInv
  BY InvInit, InvStep, PTL DEF Spec

-----------------------------------------------------------------------------
\* Every variable has its type (local.go), whatever fails and crashes.
THEOREM TypeCorrect == Spec => []TypeOK
  BY InvCorrect, PTL DEF IInv

\* "A truncated blob is never served as a HIT": the key never names a file that was cut short.
THEOREM NeverTornTheorem == Spec => []NeverTorn
<1>1. IInv => NeverTorn
  BY DEF IInv, TypeOK, LogInv, NeverTorn, Entry
<1> QED
  BY <1>1, InvCorrect, PTL

\* Whatever fails and crashes, and whoever else writes or removes the key: an object that a Put
\* acknowledged is taken back only with a directory that was new.
THEOREM AckedTheorem == Spec => LostOnlyWithItsDirectory
<1> DEFINE Kept(w) == pc[w] = "ok" /\ Held(w) =>
                          (pc[w] = "ok" /\ Held(w))' \/ (dir = "new" /\ dir' = "absent")
<1>1. IInv /\ [Next]_vars => [\A w \in Writers : Kept(w)]_vars
  <2> SUFFICES ASSUME IInv, Next, NEW w \in Writers, pc[w] = "ok", Held(w),
                      ~(dir = "new" /\ dir' = "absent")
               PROVE  pc'[w] = "ok" /\ \E i \in 1..Len(log') : log'[i] = w
    BY DEF Held
  <2>1. PICK i \in 1..floor : log[i] = w
    BY DEF IInv, WriterInv, Held
  <2>2. log \in Seq(Names) /\ Len(log) \in Nat /\ floor \in 1..Len(log) /\ i \in 1..Len(log)
    BY <2>1 DEF IInv, TypeOK
  <2>3. ASSUME NEW e \in Names, log' = Append(log, e) PROVE i \in 1..Len(log') /\ log'[i] = w
    BY <2>1, <2>2, <2>3, AppendFacts
  <2>4. ASSUME NEW v \in Writers, Put(v)
        PROVE  pc'[w] = "ok" /\ \E j \in 1..Len(log') : log'[j] = w
    <3>1. v # w /\ pc'[w] = pc[w]
      BY <2>4 DEF Put, Create, Copy, Sync, Rename, SyncDir, Fail, Goto, IInv, TypeOK
    <3>2. log' = log \/ log' = Append(log, v)
      BY <2>4 DEF Put, Create, Copy, Sync, Rename, SyncDir, Fail
    <3>3. v \in Names
      BY DEF Names
    <3> QED
      BY <2>1, <2>2, <2>3, <3>1, <3>2, <3>3
  <2>5. ASSUME NEW d \in Removers, Unlink(d)
        PROVE  pc'[w] = "ok" /\ \E j \in 1..Len(log') : log'[j] = w
    BY <2>3, <2>5 DEF Unlink, Names
  <2>6. ASSUME ProcessCrash
        PROVE  pc'[w] = "ok" /\ \E j \in 1..Len(log') : log'[j] = w
    BY <2>1, <2>2, <2>6 DEF ProcessCrash, CallsLost
  <2>7. ASSUME NodeCrash
        PROVE  pc'[w] = "ok" /\ \E j \in 1..Len(log') : log'[j] = w
    <3>1. pc'[w] = "ok"
      BY <2>7, NodeCrashFacts
    <3>2. PICK kept \in floor..Len(log) : log' = SubSeq(log, 1, kept)
      BY <2>7 DEF NodeCrash, Uproot, Keep
    <3>3. kept \in 1..Len(log) /\ i \in 1..kept
      BY <2>1, <2>2
    <3>4. Len(log') = kept /\ log'[i] = log[i]
      BY <2>2, <3>2, <3>3, PrefixFacts
    <3> QED
      BY <2>1, <3>1, <3>3, <3>4
  <2> QED
    BY <2>4, <2>5, <2>6, <2>7 DEF Next
<1> QED
  BY <1>1, InvCorrect, PTL DEF Spec, LostOnlyWithItsDirectory

-----------------------------------------------------------------------------
(* The refinement *)

\* No state of the log is torn, so the mapping shows the log as it is.
HistoryIsLog == History = log

LEMMA HistoryLemma == IInv => HistoryIsLog
<1> SUFFICES ASSUME IInv PROVE History = log
  BY DEF HistoryIsLog
<1>1. ASSUME NEW i \in 1..Len(log) PROVE Object(log[i]) = log[i]
  BY <1>1 DEF IInv, LogInv, Object
<1>2. log = [i \in 1..Len(log) |-> log[i]]
  BY DEF IInv, TypeOK
<1> QED
  BY <1>1, <1>2 DEF History

LEMMA HistoryNext == IInv' => HistoryIsLog'
  BY HistoryLemma, PTL

LEMMA RefineInit == Init => Abstract!Init
<1> SUFFICES ASSUME Init PROVE Abstract!Init
  OBVIOUS
<1>1. History = log
  BY InvInit, HistoryLemma DEF HistoryIsLog
<1>2. Status = [w \in Writers |-> "new"]
  BY DEF Init, Status
<1>3. (dir = "durable") \in BOOLEAN
  OBVIOUS
<1> QED
  BY <1>1, <1>2, <1>3 DEF Init, Abstract!Init
\* A step of Put is one of the object store's, or invisible; so are the others.
LEMMA RefinePut ==
    ASSUME IInv, IInv', NEW w \in Writers, Put(w)
    PROVE  [Abstract!Next]_(Abstract!vars)
<1>1. History = log /\ History' = log'
  BY HistoryLemma, HistoryNext DEF HistoryIsLog
<1>2. /\ Status \in [Writers -> {"new", "shown", "ok", "failed"}]
      /\ pc \in [Writers -> Steps]
  BY DEF IInv, TypeOK, Status, Steps
<1>0. (dir' = "durable") = (dir = "durable")
  BY DEF Put, Create, Copy, Sync, Rename, SyncDir
<1>3. CASE Fail(w)
  <2>1. /\ pc[w] \in {"idle", "copy", "sync", "rename", "syncdir"}
        /\ pc' = [pc EXCEPT ![w] = "failed"] /\ UNCHANGED <<log, floor>>
    BY <1>3 DEF Put, Create, Copy, Sync, Rename, SyncDir, Fail, Goto
  <2>2. Abstract!Fail(w)
    BY <1>0, <1>1, <1>2, <2>1 DEF Abstract!Fail, Status
  <2> QED
    BY <2>2 DEF Abstract!Next
<1>4. CASE ~Fail(w) /\ (Create(w) \/ Copy(w) \/ Sync(w))
  <2>1. PICK step \in {"copy", "sync", "rename"} :
            /\ pc[w] \in {"idle", "copy", "sync"}
            /\ pc' = [pc EXCEPT ![w] = step] /\ UNCHANGED <<log, floor>>
    BY <1>4 DEF Create, Copy, Sync, Goto
  <2>2. UNCHANGED <<History, floor, Status>>
    BY <1>1, <1>2, <2>1 DEF Status
  <2> QED
    BY <1>0, <2>2 DEF Abstract!vars
<1>5. CASE ~Fail(w) /\ Rename(w)
  <2>1. /\ pc[w] = "rename" /\ pc' = [pc EXCEPT ![w] = "syncdir"]
        /\ log' = Append(log, w) /\ floor' = floor
    BY <1>5 DEF Rename, Goto
  <2>2. Abstract!Show(w)
    BY <1>0, <1>1, <1>2, <2>1 DEF Abstract!Show, Status
  <2> QED
    BY <2>2 DEF Abstract!Next
<1>6. CASE ~Fail(w) /\ SyncDir(w)
  <2>1. /\ pc[w] = "syncdir" /\ pc' = [pc EXCEPT ![w] = "ok"]
        /\ floor' = Len(log) /\ log' = log
    BY <1>6 DEF SyncDir, Goto
  <2>2. Abstract!Ack(w)
    BY <1>0, <1>1, <1>2, <2>1 DEF Abstract!Ack, Status
  <2> QED
    BY <2>2 DEF Abstract!Next
<1> QED
  BY <1>3, <1>4, <1>5, <1>6 DEF Put

\* A crash loses the calls under way, in the object store's words too.
LEMMA RefineLost ==
    ASSUME IInv, CallsLost
    PROVE  Abstract!CallsLost
<1> DEFINE lost == {w \in Writers : pc[w] \notin {"idle", "ok", "failed"}}
<1>1. lost \in SUBSET {w \in Writers : Status[w] \in {"new", "shown"}}
  BY DEF Status
<1>2. Status' = [w \in Writers |-> IF w \in lost THEN "failed" ELSE Status[w]]
  BY DEF Status, CallsLost
<1> QED
  BY <1>1, <1>2 DEF Abstract!CallsLost

LEMMA RefineNext ==
    ASSUME IInv, IInv', [Next]_vars
    PROVE  [Abstract!Next]_(Abstract!vars)
<1>1. History = log /\ History' = log'
  BY HistoryLemma, HistoryNext DEF HistoryIsLog
<1>2. log \in Seq(Names) /\ floor \in 1..Len(log)
  BY DEF IInv, TypeOK
<1>3. ASSUME NEW w \in Writers, Put(w) PROVE [Abstract!Next]_(Abstract!vars)
  BY <1>3, RefinePut
<1>4. ASSUME NEW d \in Removers, Unlink(d) PROVE [Abstract!Next]_(Abstract!vars)
  <2>1. Abstract!Remove
    BY <1>1, <1>4 DEF Unlink, Entry, Abstract!Remove, Status
  <2> QED
    BY <2>1 DEF Abstract!Next
<1>5. CASE ProcessCrash
  <2>1. log' = SubSeq(log, 1, Len(log)) /\ floor' = floor /\ Len(log) \in floor..Len(log)
    BY <1>2, <1>5 DEF ProcessCrash
  <2>2. Abstract!Crash
    BY <1>1, <1>5, <2>1, RefineLost DEF ProcessCrash, Abstract!Crash
  <2> QED
    BY <2>2 DEF Abstract!Next
<1>6. CASE NodeCrash
  <2>1. Abstract!CallsLost
    BY <1>6, RefineLost DEF NodeCrash
  <2>2. CASE Keep
    <3>1. PICK kept \in floor..Len(log) : log' = SubSeq(log, 1, kept) /\ floor' = kept
      BY <2>2 DEF Keep
    <3>2. (dir' = "durable") \in {dir = "durable", TRUE}
      BY <2>2 DEF Keep
    <3>3. Abstract!Crash
      BY <1>1, <2>1, <3>1, <3>2 DEF Abstract!Crash
    <3> QED
      BY <3>3 DEF Abstract!Next
  <2>3. CASE Uproot
    <3>1. Abstract!Uproot
      BY <1>1, <2>1, <2>3 DEF Uproot, Abstract!Uproot
    <3> QED
      BY <3>1 DEF Abstract!Next
  <2> QED
    BY <1>6, <2>2, <2>3 DEF NodeCrash
<1>7. CASE UNCHANGED vars
  BY <1>1, <1>7 DEF vars, Abstract!vars, Status
<1> QED
  BY <1>3, <1>4, <1>5, <1>6, <1>7 DEF Next

\* The layer is an object store: readers never observe a partial file, and what a Put
\* acknowledged no crash takes back unless it takes a place that was made for the key and not
\* rooted yet, whatever steps the file system takes in between.
THEOREM Refinement == Spec => IsObjectStore
<1>1. Init => Abstract!Init
  BY RefineInit
<1>2. IInv /\ IInv' /\ [Next]_vars => [Abstract!Next]_(Abstract!vars)
  BY RefineNext
<1> QED
  BY <1>1, <1>2, InvCorrect, PTL DEF Spec, IsObjectStore, Abstract!Spec
=============================================================================
