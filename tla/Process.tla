------------------------------ MODULE Process ------------------------------
(***************************************************************************)
(* The process as cmd/terrastrata/main.go puts it together: the evictor    *)
(* and pre-warming run beside the requests of clients, over the same       *)
(* cache, until a signal cancels the context of both.                      *)
(***************************************************************************)
EXTENDS Evictor, Prewarm

vars == <<shared, evictor, prewarm>>

Init == SharedInit /\ EvictorInit /\ PrewarmInit

Environment == Tick \/ (\E k \in Keys : Serve(k)) \/ Signal

Next ==
    \/ Sweep /\ UNCHANGED prewarm
    \/ Warm /\ UNCHANGED evictor
    \/ Environment /\ UNCHANGED <<evictor, prewarm>>

\* The Go scheduler runs the loop of pre-warming and its requests.  Nothing is assumed of
\* upstream and of the evictor.
Spec ==
    /\ Init
    /\ [][Next]_vars
    /\ WF_vars(Launch /\ UNCHANGED evictor)
    /\ \A e \in Index : WF_vars(Handle(e) /\ UNCHANGED evictor)

-----------------------------------------------------------------------------
(* Properties *)

\* Every variable holds a value of its type; at most MaxConcurrency entries are warmed at a time
\* (prewarm.go, lines 24-25 and 85-102).
TypeOK ==
    /\ now \in Nat
    /\ files \in [Keys -> File \cup {None}]
    /\ fresh \in (SUBSET Keys) \cup {None}
    /\ served \in Nat
    /\ stopping \in BOOLEAN
    /\ EvictorTypeOK
    /\ PrewarmTypeOK

\* However pre-warming and clients write, touch and drop files meanwhile, a sweep that evicts
\* ends at the low-water mark or with nothing left to try (evictor.go, lines 97-146).
SweepKeepsBudget == [][KeepsBudget]_vars

\* It removes the files in the order of their last use, as it sampled it (the same lines).
EvictsOldestFirst == [][OldestFirst]_vars

\* Once ctx is cancelled pre-warming returns: no request of its own waits for upstream, and
\* the wait for a slot, which does not watch ctx, ends (prewarm.go, lines 77-106).
StopEndsPrewarm == stopping ~> Returned
=============================================================================
