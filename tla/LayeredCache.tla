---------------------------- MODULE LayeredCache ----------------------------
(***************************************************************************)
(* The two-layer cache of internal/cache/layered.go: every replica has a   *)
(* local layer of its own (local.go) in front of one durable layer that    *)
(* all replicas share (s3.go).  The module follows one cache key: objects  *)
(* under different keys never meet in this code.                           *)
(*                                                                         *)
(* A caller is a request goroutine inside one replica.  It calls Get and,  *)
(* when that did not serve it, may Put what it fetched from upstream.      *)
(* Layered takes no lock, so each file-system or bucket operation of a     *)
(* call is a step of its own and the calls of a replica interleave.        *)
(* A Put leaves a detached goroutine behind (putDurable) that uploads      *)
(* whatever the local layer holds when it gets to run.                     *)
(***************************************************************************)
EXTENDS Naturals

CONSTANTS
    Replicas,        \* processes that share the bucket
    Callers,         \* request goroutines
    Home,            \* the replica a caller runs in
    Uploads,         \* bound: putDurable goroutines alive at once
    Published,       \* contents upstream may publish under the key
    Foreign,         \* contents that may turn up in the bucket by other hands
    None,            \* no object
    RegistryDigest,  \* content whose digest the registry publishes, or None
    IndexDigest,     \* content named by the cached archives index, or None
    HasDurable,      \* an S3 bucket is configured
    Verifying,       \* WithDurableVerifier was given
    Immutable,       \* a hit is never refetched (zips; not the versions index)
    Faulty,          \* layers whose operations may fail
    Evicting,        \* the local object may be evicted at any time
    Crashing         \* replicas may crash and restart

Content == Published \cup Foreign

ASSUME ContentAssumption == None \notin Content /\ Published \cap Foreign = {}
ASSUME ReplicaAssumption == None \notin Replicas
ASSUME HomeAssumption == Home \in [Callers -> Replicas]
ASSUME DigestAssumption == {RegistryDigest, IndexDigest} \subseteq Content \cup {None}
ASSUME SwitchAssumption ==
    /\ {HasDurable, Verifying, Immutable, Evicting, Crashing} \subseteq BOOLEAN
    /\ Faulty \subseteq {"local", "durable"}

VARIABLES
    local,       \* local[r]: the object in replica r's local layer, or None
    durable,     \* the object in the bucket, or None
    pc,          \* pc[p]: the step of Layered.Get that caller p is about to take
    source,      \* source[p]: the object behind p's open durable stream
    opened,      \* opened[p]: the object behind the reader p will return
    reopened,    \* reopened[p]: the object verifyWarmed opened for p
    res,         \* res[p]: what p's last Get returned, and from where
    upc,         \* upc[u]: the step of putDurable that goroutine u is about to take
    uhome,       \* uhome[u]: the replica u runs in, or None while there is no u
    usource,     \* usource[u]: the local object u is sending
    \* The rest only records history, for the properties.
    kept,        \* kept[r]: a Put returned nil in r, and the key was not removed there since
    overlapped,  \* overlapped[p]: a Put returned nil in p's replica during p's call
    swapped,     \* swapped[p]: another call wrote over the copy while p's reader was on it
    abandoned,   \* abandoned[r]: a failure or a crash cut short the check of what r holds
    owed         \* owed[u]: the objects of which the bucket is to get one from upload u; none
                 \* once it failed

calls   == <<pc, source, opened, reopened, res>>
uploads == <<upc, uhome, usource>>
history == <<kept, overlapped, swapped, abandoned, owed>>
vars    == <<local, durable, calls, uploads, history>>

NoResult == [status |-> "none", body |-> None, via |-> "none"]

Steps == {"idle", "durable", "warm", "readback", "reopen", "verify", "discard", "direct"}

Results == [status: {"none", "hit", "miss", "err"},
            body: Content \cup {None},
            via: {"none", "local", "durable", "warm", "direct", "rejected"}]

Init ==
    /\ local = [r \in Replicas |-> None]
    /\ durable = None
    /\ pc = [p \in Callers |-> "idle"]
    /\ source = [p \in Callers |-> None]
    /\ opened = [p \in Callers |-> None]
    /\ reopened = [p \in Callers |-> None]
    /\ res = [p \in Callers |-> NoResult]
    /\ upc = [u \in Uploads |-> "idle"]
    /\ uhome = [u \in Uploads |-> None]
    /\ usource = [u \in Uploads |-> None]
    /\ kept = [r \in Replicas |-> FALSE]
    /\ overlapped = [p \in Callers |-> FALSE]
    /\ swapped = [p \in Callers |-> FALSE]
    /\ abandoned = [r \in Replicas |-> FALSE]
    /\ owed = [u \in Uploads |-> {}]

-----------------------------------------------------------------------------
(* Helpers: the layers' own operations are atomic at their point of effect. *)

\* A call under way has no result yet.
Goto(p, step) ==
    /\ pc' = [pc EXCEPT ![p] = step]
    /\ res' = [res EXCEPT ![p] = NoResult]

\* Get returns; its readers are closed, or handed over as the body of the result.
Return(p, status, body, via) ==
    /\ pc' = [pc EXCEPT ![p] = "idle"]
    /\ res' = [res EXCEPT ![p] = [status |-> status, body |-> body, via |-> via]]

\* os.Rename publishes an object in one step; readers keep the file they opened.
Publish(p, c) ==
    /\ local' = [local EXCEPT ![Home[p]] = c]
    /\ swapped' = [q \in Callers |-> swapped[q] \/ (Home[q] = Home[p] /\ pc[q] = "reopen")]

\* The key is gone from r's layer; so is what Put had accepted there.
Remove(r) ==
    /\ local' = [local EXCEPT ![r] = None]
    /\ kept' = [kept EXCEPT ![r] = FALSE]

\* The uploads of p's replica that have not read the key yet may send c as well.
OwedToo(p, c) ==
    [u \in Uploads |-> IF upc[u] = "read" /\ uhome[u] = Home[p] THEN owed[u] \cup {c} ELSE owed[u]]

\* What DurableVerifier compares with: the digest the registry publishes, if it answers, and
\* failing that the one in the cached archives index.
ExpectedDigest(registryUp) ==
    IF registryUp /\ RegistryDigest # None THEN RegistryDigest ELSE IndexDigest

\* An object no digest can be had for passes.
Accepts(c, registryUp) == ExpectedDigest(registryUp) \in {None, c}

-----------------------------------------------------------------------------
(* Layered.Get *)

\* Mutant: an error of the local layer is taken for a miss.
LookupForgiving(p) ==
    /\ pc[p] = "idle"
    /\ \/ /\ local[Home[p]] # None
          /\ Return(p, "hit", local[Home[p]], "local")
       \/ /\ local[Home[p]] = None \/ "local" \in Faulty
          /\ IF HasDurable THEN Goto(p, "durable") ELSE Return(p, "miss", None, "local")
    /\ overlapped' = [overlapped EXCEPT ![p] = FALSE]
    /\ swapped' = [swapped EXCEPT ![p] = FALSE]
    /\ UNCHANGED <<local, durable, source, opened, reopened, uploads, kept, abandoned, owed>>

\* local.Get: a hit is served as it is; a miss goes on to the durable layer.
Lookup(p) ==
    /\ pc[p] = "idle"
    /\ \/ /\ local[Home[p]] # None
          /\ Return(p, "hit", local[Home[p]], "local")
       \/ /\ local[Home[p]] = None
          /\ IF HasDurable THEN Goto(p, "durable") ELSE Return(p, "miss", None, "local")
       \/ /\ "local" \in Faulty
          /\ Return(p, "err", None, "local")
    /\ overlapped' = [overlapped EXCEPT ![p] = FALSE]
    /\ swapped' = [swapped EXCEPT ![p] = FALSE]
    /\ UNCHANGED <<local, durable, source, opened, reopened, uploads, kept, abandoned, owed>>

\* durable.Get: a hit is a stream of the object as it is in the bucket now.
OpenDurable(p) ==
    /\ pc[p] = "durable"
    /\ \/ /\ durable # None
          /\ source' = [source EXCEPT ![p] = durable]
          /\ Goto(p, "warm")
       \/ /\ durable = None
          /\ Return(p, "miss", None, "durable")
          /\ UNCHANGED source
       \/ /\ "durable" \in Faulty
          /\ Return(p, "err", None, "durable")
          /\ UNCHANGED source
    /\ UNCHANGED <<local, durable, opened, reopened, uploads, history>>

\* local.Put of the stream.  It can fail before the rename (the disk, or the stream itself)
\* or after it (the directory fsync); either way Get falls back to the bucket.
Warm(p) ==
    /\ pc[p] = "warm"
    /\ \/ /\ Publish(p, source[p])
          /\ Goto(p, "readback")
          /\ abandoned' = [abandoned EXCEPT ![Home[p]] = FALSE]
          /\ owed' = OwedToo(p, source[p])
       \/ /\ Faulty # {}
          /\ Goto(p, "direct")
          /\ UNCHANGED <<local, swapped, abandoned, owed>>
       \/ /\ "local" \in Faulty
          /\ Publish(p, source[p])
          /\ Goto(p, "direct")
          /\ abandoned' = [abandoned EXCEPT ![Home[p]] = TRUE]
          /\ owed' = OwedToo(p, source[p])
    /\ source' = [source EXCEPT ![p] = None]
    /\ UNCHANGED <<durable, opened, reopened, uploads, kept, overlapped>>

\* Mutant: the warmed copy is served without verification.
ReadBackTrusting(p) ==
    /\ pc[p] = "readback"
    /\ IF local[Home[p]] # None THEN Return(p, "hit", local[Home[p]], "warm") ELSE Goto(p, "direct")
    /\ UNCHANGED <<local, durable, source, opened, reopened, uploads, history>>

\* local.Get of the warmed copy: this reader is the one handed to the caller.
ReadBack(p) ==
    /\ pc[p] = "readback"
    /\ \/ /\ local[Home[p]] # None
          /\ IF Verifying
                THEN /\ opened' = [opened EXCEPT ![p] = local[Home[p]]]
                     /\ Goto(p, "reopen")
                ELSE /\ Return(p, "hit", local[Home[p]], "warm")
                     /\ UNCHANGED opened
          /\ UNCHANGED abandoned
       \/ /\ local[Home[p]] = None
          /\ Goto(p, "direct")
          /\ UNCHANGED <<opened, abandoned>>
       \/ /\ "local" \in Faulty
          /\ Goto(p, "direct")
          /\ abandoned' = [abandoned EXCEPT ![Home[p]] = TRUE]
          /\ UNCHANGED opened
    /\ UNCHANGED <<local, durable, source, reopened, uploads, kept, overlapped, swapped, owed>>

\* The degraded-disk fallback: a second durable.Get, returned as it comes.
Direct(p) ==
    /\ pc[p] = "direct"
    /\ \/ durable # None /\ Return(p, "hit", durable, "direct")
       \/ durable = None /\ Return(p, "miss", None, "direct")
       \/ "durable" \in Faulty /\ Return(p, "err", None, "direct")
    /\ UNCHANGED <<local, durable, source, opened, reopened, uploads, history>>

\* Mutant: a copy that vanished passes the verification.
ReopenLenient(p) ==
    /\ pc[p] = "reopen"
    /\ \/ /\ local[Home[p]] # None
          /\ reopened' = [reopened EXCEPT ![p] = local[Home[p]]]
          /\ Goto(p, "verify")
          /\ UNCHANGED opened
       \/ /\ local[Home[p]] = None
          /\ opened' = [opened EXCEPT ![p] = None]
          /\ Return(p, "hit", opened[p], "warm")
          /\ UNCHANGED reopened
    /\ UNCHANGED <<local, durable, source, uploads, history>>

\* verifyWarmed opens the key again; a copy that vanished fails the verification.
Reopen(p) ==
    /\ pc[p] = "reopen"
    /\ \/ /\ local[Home[p]] # None
          /\ reopened' = [reopened EXCEPT ![p] = local[Home[p]]]
          /\ Goto(p, "verify")
          /\ UNCHANGED opened
       \/ /\ local[Home[p]] = None \/ "local" \in Faulty
          /\ opened' = [opened EXCEPT ![p] = None]
          /\ Goto(p, "discard")
          /\ UNCHANGED reopened
    /\ UNCHANGED <<local, durable, source, uploads, history>>

\* The verifier hashes what verifyWarmed opened; Get returns what it opened before.
Verify(p) ==
    /\ pc[p] = "verify"
    /\ \/ /\ \E registryUp \in BOOLEAN : Accepts(reopened[p], registryUp)
          /\ Return(p, "hit", opened[p], "warm")
       \/ /\ \E registryUp \in BOOLEAN : ~Accepts(reopened[p], registryUp)
          /\ Goto(p, "discard")
       \/ /\ "local" \in Faulty
          /\ Goto(p, "discard")
    /\ opened' = [opened EXCEPT ![p] = None]
    /\ reopened' = [reopened EXCEPT ![p] = None]
    /\ UNCHANGED <<local, durable, source, uploads, history>>

\* local.Delete of whatever the key names by now; Get reports a miss.
Discard(p) ==
    /\ pc[p] = "discard"
    /\ \/ /\ Remove(Home[p])
          /\ UNCHANGED abandoned
       \/ /\ "local" \in Faulty
          /\ abandoned' = [abandoned EXCEPT ![Home[p]] = TRUE]
          /\ UNCHANGED <<local, kept>>
    /\ Return(p, "miss", None, "rejected")
    /\ UNCHANGED <<durable, source, opened, reopened, uploads, overlapped, swapped, owed>>

-----------------------------------------------------------------------------
(* Layered.Put and putDurable *)

\* go l.putDurable(key), after a Put of c.
StartUpload(p, c) ==
    IF HasDurable
    THEN \E u \in Uploads :
            /\ upc[u] = "idle"
            /\ upc' = [upc EXCEPT ![u] = "read"]
            /\ uhome' = [uhome EXCEPT ![u] = Home[p]]
            /\ owed' = [OwedToo(p, c) EXCEPT ![u] = {c}]
            /\ UNCHANGED usource
    ELSE owed' = OwedToo(p, c) /\ UNCHANGED uploads

\* A caller its last Get did not serve (or that found a stale index) has fetched c from
\* upstream and calls Put.  Its local.Put can fail before or after the rename.
Put(p, c) ==
    /\ pc[p] = "idle"
    /\ res[p].status \in {"miss", "err"} \/ (~Immutable /\ res[p].status = "hit")
    /\ res' = [res EXCEPT ![p] = NoResult]
    /\ \/ /\ Publish(p, c)
          /\ StartUpload(p, c)
          /\ kept' = [kept EXCEPT ![Home[p]] = TRUE]
          /\ overlapped' = [q \in Callers |->
                               overlapped[q] \/ (Home[q] = Home[p] /\ pc[q] # "idle")]
          /\ abandoned' = [abandoned EXCEPT ![Home[p]] = FALSE]
       \/ /\ "local" \in Faulty
          /\ UNCHANGED <<local, uploads, history>>
       \/ /\ "local" \in Faulty
          /\ Publish(p, c)
          /\ abandoned' = [abandoned EXCEPT ![Home[p]] = FALSE]
          /\ owed' = OwedToo(p, c)
          /\ UNCHANGED <<uploads, kept, overlapped>>
    /\ UNCHANGED <<durable, pc, source, opened, reopened>>

EndUpload(u) ==
    /\ upc' = [upc EXCEPT ![u] = "idle"]
    /\ uhome' = [uhome EXCEPT ![u] = None]

\* putDurable reads the key back from the local layer, which may have changed since the Put.
UploadRead(u) ==
    /\ upc[u] = "read"
    /\ \/ /\ local[uhome[u]] # None
          /\ usource' = [usource EXCEPT ![u] = local[uhome[u]]]
          /\ upc' = [upc EXCEPT ![u] = "send"]
          /\ UNCHANGED <<uhome, owed>>
       \/ /\ local[uhome[u]] = None \/ "local" \in Faulty
          /\ EndUpload(u)
          /\ owed' = [owed EXCEPT ![u] = {}]
          /\ UNCHANGED usource
    /\ UNCHANGED <<local, durable, calls, kept, overlapped, swapped, abandoned>>

\* Mutant: an object that is in the bucket already is not sent again.
UploadOnce(u) ==
    /\ upc[u] = "send"
    /\ EndUpload(u)
    /\ usource' = [usource EXCEPT ![u] = None]
    /\ \/ durable' = (IF durable = None THEN usource[u] ELSE durable) /\ UNCHANGED owed
       \/ "durable" \in Faulty /\ UNCHANGED durable /\ owed' = [owed EXCEPT ![u] = {}]
    /\ UNCHANGED <<local, calls, kept, overlapped, swapped, abandoned>>

\* durable.Put; an upload that fails or times out may or may not have been applied, and is
\* only logged.
UploadSend(u) ==
    /\ upc[u] = "send"
    /\ EndUpload(u)
    /\ usource' = [usource EXCEPT ![u] = None]
    /\ \/ /\ durable' = usource[u]
          /\ UNCHANGED owed
       \/ /\ "durable" \in Faulty
          /\ durable' \in {durable, usource[u]}
          /\ owed' = [owed EXCEPT ![u] = {}]
    /\ UNCHANGED <<local, calls, kept, overlapped, swapped, abandoned>>

-----------------------------------------------------------------------------
(* The environment *)

\* The evictor (or an operator) removes the local object.
Evict(r) ==
    /\ Evicting
    /\ local[r] # None
    /\ Remove(r)
    /\ UNCHANGED <<durable, calls, uploads, overlapped, swapped, abandoned, owed>>

\* Replica r stops and restarts: its calls and its uploads are gone, its local layer stays
\* (a persistent volume) or is empty again (an emptyDir).
Crash(r) ==
    /\ Crashing
    /\ LET here == {p \in Callers : Home[p] = r}
           mine == {u \in Uploads : uhome[u] = r}
       IN  /\ pc' = [p \in Callers |-> IF p \in here THEN "idle" ELSE pc[p]]
           /\ source' = [p \in Callers |-> IF p \in here THEN None ELSE source[p]]
           /\ opened' = [p \in Callers |-> IF p \in here THEN None ELSE opened[p]]
           /\ reopened' = [p \in Callers |-> IF p \in here THEN None ELSE reopened[p]]
           /\ res' = [p \in Callers |-> IF p \in here THEN NoResult ELSE res[p]]
           /\ upc' = [u \in Uploads |-> IF u \in mine THEN "idle" ELSE upc[u]]
           /\ uhome' = [u \in Uploads |-> IF u \in mine THEN None ELSE uhome[u]]
           /\ usource' = [u \in Uploads |-> IF u \in mine THEN None ELSE usource[u]]
           /\ owed' = [u \in Uploads |-> IF u \in mine THEN {} ELSE owed[u]]
    /\ abandoned' = [abandoned EXCEPT ![r] = TRUE]
    /\ Remove(r) \/ UNCHANGED <<local, kept>>
    /\ UNCHANGED <<durable, overlapped, swapped>>

\* Other hands, or corruption, change the object in the bucket; or remove it.
ChangeBucket ==
    /\ \E c \in Foreign : durable' \in {c, None}
    /\ UNCHANGED <<local, calls, uploads, history>>

-----------------------------------------------------------------------------
\* The steps of a call that has begun, and of an upload.
Continue(p) ==
    \/ OpenDurable(p) \/ Warm(p) \/ ReadBack(p) \/ Direct(p)
    \/ Reopen(p) \/ Verify(p) \/ Discard(p)

Upload(u) == UploadRead(u) \/ UploadSend(u)

Next ==
    \/ \E p \in Callers : Lookup(p)
    \/ \E p \in Callers : Continue(p)
    \/ \E p \in Callers, c \in Published : Put(p, c)
    \/ \E u \in Uploads : Upload(u)
    \/ \E r \in Replicas : Evict(r)
    \/ \E r \in Replicas : Crash(r)
    \/ ChangeBucket

Spec == Init /\ [][Next]_vars

-----------------------------------------------------------------------------
(* Properties *)

\* Every variable holds a value of its type.
TypeOK ==
    /\ local \in [Replicas -> Content \cup {None}]
    /\ durable \in Content \cup {None}
    /\ pc \in [Callers -> Steps]
    /\ source \in [Callers -> Content \cup {None}]
    /\ opened \in [Callers -> Content \cup {None}]
    /\ reopened \in [Callers -> Content \cup {None}]
    /\ res \in [Callers -> Results]
    /\ upc \in [Uploads -> {"idle", "read", "send"}]
    /\ uhome \in [Uploads -> Replicas \cup {None}]
    /\ usource \in [Uploads -> Content \cup {None}]
    /\ kept \in [Replicas -> BOOLEAN]
    /\ overlapped \in [Callers -> BOOLEAN]
    /\ swapped \in [Callers -> BOOLEAN]
    /\ abandoned \in [Replicas -> BOOLEAN]
    /\ owed \in [Uploads -> SUBSET Content]

Served(p, via) == res[p].status = "hit" /\ res[p].via = via

\* A hit on the local layer is never an object that only the bucket's tampering put there:
\* an unverified warm copy is gone before another Get can find it (layered.go, lines 12-19).
LocalHitVerified == \A p \in Callers : Served(p, "local") => res[p].body \notin Foreign

\* The call of p has a warm copy to verify or to discard; it may have warmed it itself, or have
\* come upon one.
Checking(p) ==
    \/ pc[p] \in {"readback", "reopen", "discard"}
    \/ pc[p] = "verify" /\ reopened[p] \in Foreign

\* An object of other hands is in a local layer only while some call of the replica is about to
\* find out, or because a failing disk or a crash kept the call from it: "the bytes must not be
\* served: the local copy is discarded" (layered.go, lines 13-14 and 122-148).
ForeignCopyIsChecked ==
    \A r \in Replicas : local[r] \in Foreign =>
        abandoned[r] \/ \E p \in Callers : Home[p] = r /\ Checking(p)

\* The reader that Get returns after warming was opened (layered.go, line 122) before the
\* verifier opened the key for itself (line 157).  Get returns bytes the verifier has not seen
\* only if another call of the replica wrote over the copy in between; a copy that was evicted,
\* lost or could not be read is never a way past the verifier.
WarmHitVerified ==
    \A p \in Callers : Served(p, "warm") /\ res[p].body \in Foreign => swapped[p]

\* "WithDurableVerifier makes every durable-layer hit pass through v before it is served"
\* (layered.go, line 37): no Get, whichever way it went, returns an object from other hands.
DurableHitsVerified == \A p \in Callers : res[p].body \notin Foreign

\* What a Put has accepted stays in the replica until it is evicted or lost with the volume;
\* the Delete of a rejected copy (layered.go, lines 141-145) takes it only in a Get that was
\* already under way when the Put returned, never in one that began afterwards.
AckedStaysLocal ==
    [][\A r \in Replicas : kept[r] /\ local'[r] = None =>
          \/ Evict(r) \/ Crash(r)
          \/ \E p \in Callers : Home[p] = r /\ overlapped[p] /\ Discard(p)]_vars

\* An upload that ends without having failed (or found the key evicted) leaves in the bucket an
\* object that its replica has held since the Put that started it, whatever was in the bucket
\* before (layered.go, lines 185-205).
UploadLands ==
    [][\A u \in Uploads : upc[u] # "idle" /\ upc'[u] = "idle" =>
          durable' \in owed[u] \/ owed'[u] = {}]_vars
=============================================================================
