----------------------------- MODULE ObjectStore -----------------------------
(***************************************************************************)
(* What the local cache layer promises about one key.  Local.Put in        *)
(* internal/cache/local.go says: "Readers never observe a partial file,    *)
(* and a committed object survives a node crash whole".                    *)
(*                                                                         *)
(* The key goes through a history of states, each a whole object or none.  *)
(* A Put shows its object in one step and is acknowledged later.  A node   *)
(* crash takes the key back some way, but never behind a state that was    *)
(* settled, and an acknowledgement settles all that was shown before it.   *)
(* The second half of the promise is kept only where the key's place is    *)
(* rooted: until a crash has spared it, a place that was made for the key  *)
(* may be lost with all it held.                                           *)
(***************************************************************************)
EXTENDS Naturals, Sequences

CONSTANTS
    Writers,  \* calls of Put; each has one object to store, named after it
    None      \* no object

VARIABLES
    log,    \* the states the key has been in, oldest first
    floor,  \* how much of log no crash can take back
    status, \* status[w]: "new", "shown", "ok" or "failed"
    rooted  \* no crash can take the key's place away

vars == <<log, floor, status, rooted>>

Init ==
    /\ log = <<None>>
    /\ floor = 1
    /\ status = [w \in Writers |-> "new"]
    /\ rooted \in BOOLEAN

\* The object replaces the one before it, at once and whole.
Show(w) ==
    /\ status[w] = "new"
    /\ log' = Append(log, w)
    /\ status' = [status EXCEPT ![w] = "shown"]
    /\ UNCHANGED <<floor, rooted>>

Ack(w) ==
    /\ status[w] = "shown"
    /\ floor' = Len(log)
    /\ status' = [status EXCEPT ![w] = "ok"]
    /\ UNCHANGED <<log, rooted>>

\* A Put that fails may have shown its object; it says nothing about crashes.
Fail(w) ==
    /\ status[w] \in {"new", "shown"}
    /\ status' = [status EXCEPT ![w] = "failed"]
    /\ UNCHANGED <<log, floor, rooted>>

\* A Delete, or an eviction.
Remove ==
    /\ log[Len(log)] # None
    /\ log' = Append(log, None)
    /\ UNCHANGED <<floor, status, rooted>>

\* The process stops, or the node: calls under way are lost, those not begun still can begin.
CallsLost ==
    \E lost \in SUBSET {w \in Writers : status[w] \in {"new", "shown"}} :
        status' = [w \in Writers |-> IF w \in lost THEN "failed" ELSE status[w]]

\* After a node crash what is left is what the disk has.
Crash ==
    /\ CallsLost
    /\ \E kept \in floor..Len(log) :
            /\ log' = SubSeq(log, 1, kept)
            /\ floor' \in {floor, kept}
    /\ rooted' \in {rooted, TRUE}

\* A node crash takes the place away.
Uproot ==
    /\ ~rooted
    /\ CallsLost
    /\ log' = <<None>>
    /\ floor' = 1
    /\ UNCHANGED rooted

Next ==
    \/ \E w \in Writers : Show(w) \/ Ack(w) \/ Fail(w)
    \/ Remove
    \/ Crash
    \/ Uproot

Spec == Init /\ [][Next]_vars
=============================================================================
