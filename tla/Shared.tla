------------------------------- MODULE Shared -------------------------------
(***************************************************************************)
(* What the goroutines main.run starts have in common: the context that a  *)
(* termination signal cancels, and the files of the local cache as a walk  *)
(* over the cache directory finds them.  Temporary and staging files are   *)
(* not among them: the walk leaves them out.                               *)
(***************************************************************************)
EXTENDS Integers

CONSTANTS
    Keys,    \* cache keys, each a file
    SizesOf, \* SizesOf[k]: the sizes the file of k may have
    None,    \* no file
    MaxTime, \* bound: the clock stops here
    MaxServed, \* bound: what requests of clients do to files
    Faulty   \* what may fail, of Faults

Faults == {"touch", "write", "read", "scan", "remove", "staging", "upstream"}

ASSUME FilesAssumption ==
    /\ SizesOf \in [Keys -> SUBSET Nat]
    /\ MaxTime \in Nat /\ MaxServed \in Nat
    /\ Faulty \subseteq Faults
ASSUME NoneAssumption == \A ks \in SUBSET Keys : ks # None

VARIABLES
    now,      \* the clock
    files,    \* files[k]: the size and modification time of k's file, or None
    fresh,    \* history: the keys written since the sweep began to walk, or None between sweeps
    stopping, \* ctx is cancelled
    served    \* what clients have done to files

shared == <<now, files, fresh, stopping, served>>

\* A modification time may be any up to now: the temporary file is written before it is renamed.
File == [size : Nat, mod : Nat]

SharedInit ==
    /\ now = 0
    /\ files = [k \in Keys |-> None]
    /\ fresh = None
    /\ served = 0
    /\ stopping = FALSE

\* Local.Put's rename.
Write(k) ==
    /\ \E size \in SizesOf[k], mod \in 0..now :
            files' = [files EXCEPT ![k] = [size |-> size, mod |-> mod]]
    /\ fresh' = IF fresh = None THEN None ELSE fresh \cup {k}

\* A Put whose error is only logged.
TryWrite(k) ==
    \/ Write(k)
    \/ "write" \in Faulty /\ UNCHANGED <<files, fresh>>

\* Local.Get finds the file, and touches it if it can.
Read(k) ==
    /\ files[k] # None
    /\ \/ files' = [files EXCEPT ![k].mod = now]
       \/ "touch" \in Faulty /\ UNCHANGED files

Unlink(k) ==
    /\ files[k] # None
    /\ files' = [files EXCEPT ![k] = None]

-----------------------------------------------------------------------------
(* The environment *)

Tick ==
    /\ now < MaxTime
    /\ now' = now + 1
    /\ UNCHANGED <<files, fresh, stopping, served>>

\* Requests of clients, which read and populate the same files, and drop those that fail
\* verification.
Serve(k) ==
    /\ \/ Read(k) /\ UNCHANGED fresh
       \/ Write(k)
       \/ Unlink(k) /\ UNCHANGED fresh
    /\ served < MaxServed /\ served' = served + 1
    /\ UNCHANGED <<now, stopping>>

\* SIGINT or SIGTERM.
Signal ==
    /\ ~stopping
    /\ stopping' = TRUE
    /\ UNCHANGED <<now, files, fresh, served>>
=============================================================================
