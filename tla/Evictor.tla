------------------------------ MODULE Evictor ------------------------------
(***************************************************************************)
(* The cache evictor (internal/cache/evictor.go): a sweep measures the     *)
(* cache and, when it is over budget, samples every file and removes the   *)
(* least recently used down to a low-water mark.  It takes no lock: files  *)
(* are written, touched and removed between any two of its steps.          *)
(***************************************************************************)
EXTENDS Shared, FiniteSets

CONSTANT MaxBytes \* the budget; positive, or main.run starts no evictor

ASSUME BudgetAssumption == MaxBytes \in Nat \ {0}

VARIABLES
    phase,   \* where the evictor is: a sweep measures, collects and evicts
    todo,    \* the files the walk has not come to
    total,   \* the bytes it has counted, less those it has evicted
    sampled, \* sampled[k]: k's file as collected, or None; None once its turn has come
    skipped  \* history: the files this sweep failed to remove

evictor == <<phase, todo, total, sampled, skipped>>

Phases == {"start", "waiting", "measure", "collect", "evict", "stopped"}

EvictorInit ==
    /\ phase = "start"
    /\ todo = {}
    /\ total = 0
    /\ sampled = [k \in Keys |-> None]
    /\ skipped = {}

\* 90% of the budget.
Target == (MaxBytes * 9) \div 10

EndSweep ==
    /\ phase' = "waiting"
    /\ fresh' = None
    /\ todo' = {}
    /\ total' = 0
    /\ sampled' = [k \in Keys |-> None]
    /\ skipped' = {}

Walk(next) ==
    /\ phase' = next
    /\ todo' = Keys
    /\ total' = 0
    /\ fresh' = {}
    /\ UNCHANGED <<sampled, skipped>>

-----------------------------------------------------------------------------
\* A sweep begins: at once, then when the ticker fires.  With ctx cancelled too, select takes
\* either arm.
StartSweep ==
    /\ phase \in {"start", "waiting"}
    /\ Walk("measure")
    /\ UNCHANGED <<now, files, stopping, served>>

Return ==
    /\ phase = "waiting"
    /\ stopping
    /\ phase' = "stopped"
    /\ UNCHANGED <<shared, todo, total, sampled, skipped>>

\* The walk comes to k.  A file removed by then is skipped; one that appeared since the walk
\* began is seen or not.
Visit(k) ==
    /\ phase \in {"measure", "collect"}
    /\ k \in todo
    /\ todo' = todo \ {k}
    /\ \/ /\ files[k] # None
          /\ total' = total + files[k].size
          /\ sampled' = IF phase = "collect" THEN [sampled EXCEPT ![k] = files[k]] ELSE sampled
       \/ /\ files[k] = None \/ k \in fresh
          /\ UNCHANGED <<total, sampled>>
    /\ UNCHANGED <<shared, phase, skipped>>

\* totalSize returns: within the budget, or to be collected.
Measured ==
    /\ phase = "measure"
    /\ todo = {}
    /\ \/ total <= MaxBytes /\ EndSweep
       \/ total > MaxBytes /\ Walk("collect")
    /\ UNCHANGED <<now, files, stopping, served>>

Collected ==
    /\ phase = "collect"
    /\ todo = {}
    /\ phase' = "evict"
    /\ UNCHANGED <<shared, todo, total, sampled, skipped>>

\* A directory cannot be read: the sweep is given up.
ScanFailed ==
    /\ phase \in {"measure", "collect"}
    /\ "scan" \in Faulty
    /\ EndSweep
    /\ UNCHANGED <<now, files, stopping, served>>

Candidates == {k \in Keys : sampled[k] # None}

\* Mutant: the files are taken in the order of the walk.
InWalkOrder(k) == k \in Candidates

\* k is next in an order by modification time; ties are in any order.
Oldest(k) == k \in Candidates /\ \A j \in Candidates : sampled[k].mod <= sampled[j].mod

\* Mutant: the bytes of a file that cannot be removed are counted as evicted.
RemoveUncounted(k) ==
    /\ phase = "evict"
    /\ total > Target
    /\ Oldest(k)
    /\ sampled' = [sampled EXCEPT ![k] = None]
    /\ total' = total - sampled[k].size
    /\ \/ Unlink(k) /\ UNCHANGED skipped
       \/ /\ files[k] = None \/ "remove" \in Faulty
          /\ skipped' = skipped \cup {k}
          /\ UNCHANGED files
    /\ UNCHANGED <<now, fresh, stopping, served, phase, todo>>

\* os.Remove by path: whatever file is there now.  A file that cannot be removed, because it is
\* gone for instance, does not count, and the next has its turn.
Remove(k) ==
    /\ phase = "evict"
    /\ total > Target
    /\ Oldest(k)
    /\ sampled' = [sampled EXCEPT ![k] = None]
    /\ \/ /\ Unlink(k)
          /\ total' = total - sampled[k].size
          /\ UNCHANGED skipped
       \/ /\ files[k] = None \/ "remove" \in Faulty
          /\ skipped' = skipped \cup {k}
          /\ UNCHANGED <<files, total>>
    /\ UNCHANGED <<now, fresh, stopping, served, phase, todo>>

Evicted ==
    /\ phase = "evict"
    /\ total <= Target \/ Candidates = {}
    /\ EndSweep
    /\ UNCHANGED <<now, files, stopping, served>>

Sweep ==
    \/ StartSweep
    \/ \E k \in Keys : Visit(k) \/ Remove(k)
    \/ Measured \/ Collected \/ ScanFailed \/ Evicted
    \/ Return

-----------------------------------------------------------------------------
(* Properties *)

EvictorTypeOK ==
    /\ phase \in Phases
    /\ todo \subseteq Keys
    /\ total \in Nat
    /\ sampled \in [Keys -> File \cup {None}]
    /\ skipped \subseteq Keys

\* The files the sweep had to deal with: those there throughout, not written meanwhile.
Settled == {k \in Keys \ fresh : files[k] # None}

\* The bytes of the files of ks, each with its place in its file.
Bytes(ks) == UNION {{k} \X (1..files[k].size) : k \in ks}

\* "evicts the least-recently-used files down to the low-water mark" (evictor.go, lines 97-98):
\* a sweep that has evicted leaves no more than that, new files aside, unless it tried to remove
\* everything; removals that fail and files that others remove meanwhile do not excuse it.
KeepsBudget ==
    phase = "evict" /\ phase' = "waiting" =>
        Cardinality(Bytes(Settled)) <= Target \/ Settled \subseteq skipped

\* "Oldest mtime first" (evictor.go, line 121), although files are touched and replaced
\* under the sweep: it removes a file only when none is left that was last used before that
\* one was sampled as used, but those it failed to remove and new ones.
OldestFirst ==
    \A k \in Keys : phase = "evict" /\ sampled[k] # None /\ sampled'[k] = None /\ phase' = "evict"
                    /\ files'[k] = None =>
        \A j \in Settled \ (skipped \cup {k}) : files[j].mod >= sampled[k].mod
=============================================================================
