----------------------------- MODULE Coalescing -----------------------------
(***************************************************************************)
(* What the handlers count on when they coalesce the requests for one key: *)
(* "coalesce runs fn at most once for a given key while a call is in       *)
(* flight, sharing the single result among all concurrent callers"         *)
(* (coalesce in internal/mirror/handler.go and internal/modules/handler.go *)
(* over golang.org/x/sync/singleflight).                                   *)
(*                                                                         *)
(* A call of fn, once begun, goes on until it has a result, and the result *)
(* goes to everyone who joined it and still waits.  Nobody gets anything   *)
(* else, and only a caller whose own context is cancelled leaves early.    *)
(***************************************************************************)

CONSTANTS
    Callers, \* requests, or other calls, that may want the key
    Results, \* what fn may return
    None     \* no result

VARIABLES
    running,  \* a call of fn is in flight
    waiting,  \* the callers its result will go to
    sent,     \* sent[c]: the result that c has yet to receive, or None
    cancelled \* the callers whose context is done

vars == <<running, waiting, sent, cancelled>>

Init ==
    /\ running = FALSE
    /\ waiting = {}
    /\ sent = [c \in Callers |-> None]
    /\ cancelled = {}

\* DoChan: c joins the call in flight, or starts one.
Join(c) ==
    /\ c \notin waiting /\ sent[c] = None
    /\ waiting' = waiting \cup {c}
    /\ running' = TRUE
    /\ UNCHANGED <<sent, cancelled>>

\* fn returns.
Return(v) ==
    /\ running
    /\ running' = FALSE
    /\ sent' = [c \in Callers |-> IF c \in waiting THEN v ELSE sent[c]]
    /\ waiting' = {}
    /\ UNCHANGED cancelled

Receive(c) ==
    /\ sent[c] # None
    /\ sent' = [sent EXCEPT ![c] = None]
    /\ UNCHANGED <<running, waiting, cancelled>>

\* c waits no longer; what it left behind goes on without it.
Leave(c) ==
    /\ c \in cancelled
    /\ c \in waiting \/ sent[c] # None
    /\ waiting' = waiting \ {c}
    /\ sent' = [sent EXCEPT ![c] = None]
    /\ UNCHANGED <<running, cancelled>>

Cancel(c) ==
    /\ cancelled' = cancelled \cup {c}
    /\ UNCHANGED <<running, waiting, sent>>

Next ==
    \/ \E c \in Callers : Join(c) \/ Receive(c) \/ Leave(c) \/ Cancel(c)
    \/ \E v \in Results : Return(v)

Spec == Init /\ [][Next]_vars

-----------------------------------------------------------------------------
(* Properties *)

\* Whoever waits, waits for a call in flight: no caller is left behind by one that has ended.
NobodyIsForgotten == waiting # {} => running
=============================================================================
