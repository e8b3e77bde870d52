------------------------- MODULE LayeredCache_proofs -------------------------
(***************************************************************************)
(* Theorems about LayeredCache, for any number of replicas, callers,       *)
(* uploads and contents.  Tampering with the bucket, failures of the       *)
(* bucket, evictions, uploads and the other replicas are unrestricted.     *)
(*                                                                         *)
(* Layered takes no lock, so what layered.go promises depends on how the   *)
(* calls of a replica overlap, and on what can go wrong between warming a  *)
(* copy and verifying it.  Every theorem names the conditions it needs and *)
(* no others:                                                              *)
(*   OneAtATime  a replica has one request for the key under way at a time *)
(*   DigestKnown verification is on and a digest can always be had         *)
(*   SoundDisk   the local disk does not fail and no replica crashes       *)
(***************************************************************************)
EXTENDS LayeredCache, TLAPS

OneAtATime == \A p, q \in Callers : Home[p] = Home[q] => p = q

DigestKnown ==
    /\ Verifying = TRUE
    /\ RegistryDigest \in Published \cup {None}
    /\ IndexDigest \in Published

SoundDisk == "local" \notin Faulty /\ Crashing = FALSE

\* A putDurable goroutine that is under way belongs to a replica.
UploadsAreHomed == \A u \in Uploads : upc[u] # "idle" => uhome[u] \in Replicas

\* A call that warms has a stream to warm from.
StreamsAreOpen == \A p \in Callers : pc[p] = "warm" => source[p] # None

TypeInv == TypeOK /\ UploadsAreHomed /\ StreamsAreOpen

-----------------------------------------------------------------------------
\* What a step of a call, of an upload or of the environment starts from.
LEMMA Types ==
    /\ \A p \in Callers : Home[p] \in Replicas
    /\ NoResult \in Results
    /\ "idle" \in Steps /\ "durable" \in Steps /\ "warm" \in Steps /\ "readback" \in Steps
    /\ "reopen" \in Steps /\ "verify" \in Steps /\ "discard" \in Steps /\ "direct" \in Steps
BY HomeAssumption DEF NoResult, Results, Steps

\* A result record of the right parts is a result.
LEMMA ResultType ==
    ASSUME NEW status \in {"none", "hit", "miss", "err"}, NEW body \in Content \cup {None},
           NEW via \in {"none", "local", "durable", "warm", "direct", "rejected"}
    PROVE  [status |-> status, body |-> body, via |-> via] \in Results
BY DEF Results

\* Moving on to the next step of Get, and returning from it, keep a call well typed.
LEMMA GotoType ==
    ASSUME TypeOK, NEW p \in Callers, NEW step \in Steps, Goto(p, step)
    PROVE  pc' \in [Callers -> Steps] /\ res' \in [Callers -> Results]
BY Types DEF TypeOK, Goto

\* So does writing an object into a replica.
LEMMA PublishType ==
    ASSUME TypeOK, NEW p \in Callers, NEW c \in Content \cup {None}, Publish(p, c)
    PROVE  local' \in [Replicas -> Content \cup {None}] /\ swapped' \in [Callers -> BOOLEAN]
<1>1. local' \in [Replicas -> Content \cup {None}]
  BY DEF TypeOK, Publish
<1>2. swapped' \in [Callers -> BOOLEAN]
  BY Zenon DEF TypeOK, Publish
<1> QED
  BY <1>1, <1>2

LEMMA ReturnType ==
    ASSUME TypeOK, NEW p \in Callers, NEW status \in {"none", "hit", "miss", "err"},
           NEW body \in Content \cup {None},
           NEW via \in {"none", "local", "durable", "warm", "direct", "rejected"},
           Return(p, status, body, via)
    PROVE  pc' \in [Callers -> Steps] /\ res' \in [Callers -> Results]
<1>1. "idle" \in Steps
  BY DEF Steps
<1>2. [status |-> status, body |-> body, via |-> via] \in Results
  BY ResultType
<1> QED
  BY <1>1, <1>2 DEF TypeOK, Return

\* Every step of the specification keeps every variable in its type.
LEMMA TypeStep == TypeInv /\ [Next]_vars => TypeInv'
<1> SUFFICES ASSUME TypeInv, [Next]_vars PROVE TypeInv'
  OBVIOUS
<1> USE Types DEF TypeInv, TypeOK, UploadsAreHomed, StreamsAreOpen
<1>1. ASSUME NEW p \in Callers, Lookup(p) PROVE TypeInv'
  <2>1. pc' \in [Callers -> Steps] /\ res' \in [Callers -> Results]
    BY <1>1, GotoType, ReturnType DEF Lookup
  <2>2. StreamsAreOpen'
    BY <1>1 DEF Lookup, Goto, Return
  <2> QED
    BY <1>1, <2>1, <2>2 DEF Lookup, uploads
<1>2. ASSUME NEW p \in Callers, OpenDurable(p) PROVE TypeInv'
  <2>1. pc' \in [Callers -> Steps] /\ res' \in [Callers -> Results]
    BY <1>2, GotoType, ReturnType DEF OpenDurable
  <2>2. StreamsAreOpen'
    BY <1>2 DEF OpenDurable, Goto, Return
  <2> QED
    BY <1>2, <2>1, <2>2 DEF OpenDurable, uploads, history
<1>3. ASSUME NEW p \in Callers, Warm(p) PROVE TypeInv'
  <2>1. pc' \in [Callers -> Steps] /\ res' \in [Callers -> Results]
    BY <1>3, GotoType DEF Warm
  <2>2. owed' \in [Uploads -> SUBSET Content]
    <3>1. source[p] \in Content
      BY <1>3 DEF Warm
    <3> QED
      BY <1>3, <3>1 DEF Warm, OwedToo
  <2>3. StreamsAreOpen'
    BY <1>3 DEF Warm, Goto
  <2>4. local' \in [Replicas -> Content \cup {None}] /\ swapped' \in [Callers -> BOOLEAN]
    BY <1>3, PublishType DEF Warm
  <2> QED
    BY <1>3, <2>1, <2>2, <2>3, <2>4 DEF Warm, uploads
<1>4. ASSUME NEW p \in Callers, ReadBack(p) PROVE TypeInv'
  <2>1. pc' \in [Callers -> Steps] /\ res' \in [Callers -> Results]
    BY <1>4, GotoType, ReturnType DEF ReadBack
  <2>2. StreamsAreOpen'
    BY <1>4 DEF ReadBack, Goto, Return
  <2> QED
    BY <1>4, <2>1, <2>2 DEF ReadBack, uploads
<1>5. ASSUME NEW p \in Callers, Direct(p) PROVE TypeInv'
  <2>1. pc' \in [Callers -> Steps] /\ res' \in [Callers -> Results]
    BY <1>5, GotoType, ReturnType DEF Direct
  <2>2. StreamsAreOpen'
    BY <1>5 DEF Direct, Return
  <2> QED
    BY <1>5, <2>1, <2>2 DEF Direct, uploads, history
<1>6. ASSUME NEW p \in Callers, Reopen(p) PROVE TypeInv'
  <2>1. pc' \in [Callers -> Steps] /\ res' \in [Callers -> Results]
    BY <1>6, GotoType DEF Reopen
  <2>2. StreamsAreOpen'
    BY <1>6 DEF Reopen, Goto
  <2> QED
    BY <1>6, <2>1, <2>2 DEF Reopen, uploads, history
<1>7. ASSUME NEW p \in Callers, Verify(p) PROVE TypeInv'
  <2>1. pc' \in [Callers -> Steps] /\ res' \in [Callers -> Results]
    BY <1>7, GotoType, ReturnType DEF Verify
  <2>2. StreamsAreOpen'
    BY <1>7 DEF Verify, Goto, Return
  <2> QED
    BY <1>7, <2>1, <2>2 DEF Verify, uploads, history
<1>8. ASSUME NEW p \in Callers, Discard(p) PROVE TypeInv'
  <2>1. pc' \in [Callers -> Steps] /\ res' \in [Callers -> Results]
    BY <1>8, ReturnType DEF Discard
  <2>2. StreamsAreOpen'
    BY <1>8 DEF Discard, Return
  <2> QED
    BY <1>8, <2>1, <2>2 DEF Discard, Remove, uploads
<1>9. ASSUME NEW p \in Callers, NEW c \in Published, Put(p, c) PROVE TypeInv'
  <2>1. /\ local' \in [Replicas -> Content \cup {None}]
        /\ swapped' \in [Callers -> BOOLEAN]
    BY <1>9, PublishType DEF Put, Content, history
  <2>2. /\ upc' \in [Uploads -> {"idle", "read", "send"}]
        /\ uhome' \in [Uploads -> Replicas \cup {None}]
        /\ usource' \in [Uploads -> Content \cup {None}]
        /\ UploadsAreHomed'
    BY <1>9 DEF Put, StartUpload, uploads
  <2>3. owed' \in [Uploads -> SUBSET Content]
    <3>1. OwedToo(p, c) \in [Uploads -> SUBSET Content] /\ {c} \in SUBSET Content
      BY DEF OwedToo, Content
    <3> QED
      BY <1>9, <3>1 DEF Put, StartUpload, history
  <2>4. /\ kept' \in [Replicas -> BOOLEAN]
        /\ overlapped' \in [Callers -> BOOLEAN]
        /\ abandoned' \in [Replicas -> BOOLEAN]
    BY <1>9 DEF Put, history
  <2> QED
    BY <1>9, <2>1, <2>2, <2>3, <2>4 DEF Put
<1>10. ASSUME NEW u \in Uploads, UploadRead(u) PROVE TypeInv'
  BY <1>10 DEF UploadRead, EndUpload, calls
<1>11. ASSUME NEW u \in Uploads, UploadSend(u) PROVE TypeInv'
  BY <1>11 DEF UploadSend, EndUpload, calls
<1>12. ASSUME NEW r \in Replicas, Evict(r) PROVE TypeInv'
  BY <1>12 DEF Evict, Remove, calls, uploads
<1>13. ASSUME NEW r \in Replicas, Crash(r) PROVE TypeInv'
  BY <1>13 DEF Crash, Remove
<1>14. ASSUME ChangeBucket PROVE TypeInv'
  BY <1>14 DEF ChangeBucket, Content, calls, uploads, history
<1>15. CASE UNCHANGED vars
  BY <1>15 DEF vars, calls, uploads, history
<1> QED
  BY <1>1, <1>2, <1>3, <1>4, <1>5, <1>6, <1>7, <1>8, <1>9, <1>10, <1>11, <1>12, <1>13, <1>14,
     <1>15 DEF Next, Continue, Upload

\* The initial state is well typed.
LEMMA TypeInit == Init => TypeInv
BY Types DEF Init, TypeInv, TypeOK, UploadsAreHomed, StreamsAreOpen

\* Type correctness: every reachable state of the layered cache is well typed.
THEOREM TypeCorrect == Spec => []TypeOK
<1>1. TypeInv => TypeOK
  BY DEF TypeInv
<1> QED
  BY <1>1, TypeInit, TypeStep, PTL DEF Spec

-----------------------------------------------------------------------------
(* What a Put has accepted *)

\* A replica holds what a Put of it has accepted, and a call that is past its lookup there has
\* not begun since.
PutsAreHeld ==
    /\ \A r \in Replicas : kept[r] => local[r] # None
    /\ \A p \in Callers : pc[p] # "idle" /\ kept[Home[p]] => overlapped[p]

AckInv == TypeInv /\ PutsAreHeld

LEMMA AckInit == Init => AckInv
  BY TypeInit DEF Init, AckInv, PutsAreHeld

\* A step of p that leaves the layers and what was accepted alone, and does not begin a call.
LEMMA StillHeld ==
    ASSUME AckInv, NEW p \in Callers, pc[p] # "idle", UNCHANGED <<local, kept, overlapped>>,
           \A q \in Callers \ {p} : pc'[q] = pc[q]
    PROVE  PutsAreHeld'
  BY DEF AckInv, PutsAreHeld

LEMMA AckStep == AckInv /\ [Next]_vars => AckInv'
<1> SUFFICES ASSUME AckInv, [Next]_vars PROVE PutsAreHeld'
  BY TypeStep DEF AckInv
<1> USE Types, ContentAssumption DEF AckInv, TypeInv, TypeOK, PutsAreHeld, Content
<1>1. ASSUME NEW p \in Callers, Lookup(p) PROVE PutsAreHeld'
  BY <1>1 DEF Lookup, Goto, Return
<1>2. ASSUME NEW p \in Callers,
             OpenDurable(p) \/ ReadBack(p) \/ Direct(p) \/ Reopen(p) \/ Verify(p)
      PROVE  PutsAreHeld'
  <2>1. pc[p] # "idle" /\ UNCHANGED <<local, kept, overlapped>>
    BY <1>2 DEF OpenDurable, ReadBack, Direct, Reopen, Verify, history
  <2>2. \A q \in Callers \ {p} : pc'[q] = pc[q]
    BY <1>2 DEF OpenDurable, ReadBack, Direct, Reopen, Verify, Goto, Return
  <2> QED
    BY <2>1, <2>2, StillHeld
<1>3. ASSUME NEW p \in Callers, Warm(p) PROVE PutsAreHeld'
  <2>1. source[p] # None /\ UNCHANGED <<kept, overlapped>> /\ pc[p] # "idle"
    BY <1>3 DEF Warm, StreamsAreOpen
  <2>2. /\ \E step : Goto(p, step)
        /\ UNCHANGED local \/ local' = [local EXCEPT ![Home[p]] = source[p]]
    BY <1>3 DEF Warm, Publish
  <2> QED
    BY <2>1, <2>2 DEF Goto
<1>4. ASSUME NEW p \in Callers, Discard(p) PROVE PutsAreHeld'
  <2>1. \/ Remove(Home[p])
        \/ UNCHANGED <<local, kept>>
    BY <1>4 DEF Discard
  <2>2. Return(p, "miss", None, "rejected") /\ UNCHANGED overlapped /\ pc[p] # "idle"
    BY <1>4 DEF Discard
  <2> QED
    BY <2>1, <2>2 DEF Remove, Return
<1>5. ASSUME NEW p \in Callers, NEW c \in Published, Put(p, c) PROVE PutsAreHeld'
  <2>1. c # None /\ UNCHANGED pc
    BY <1>5 DEF Put
  <2>2. CASE /\ local' = [local EXCEPT ![Home[p]] = c]
             /\ kept' = [kept EXCEPT ![Home[p]] = TRUE]
             /\ overlapped' = [q \in Callers |->
                                  overlapped[q] \/ (Home[q] = Home[p] /\ pc[q] # "idle")]
    BY <2>1, <2>2
  <2>3. CASE /\ UNCHANGED <<kept, overlapped>>
             /\ UNCHANGED local \/ local' = [local EXCEPT ![Home[p]] = c]
    BY <2>1, <2>3
  <2> QED
    BY <1>5, <2>2, <2>3 DEF Put, Publish, history
<1>6. ASSUME NEW u \in Uploads, Upload(u) PROVE PutsAreHeld'
  BY <1>6 DEF Upload, UploadRead, UploadSend, calls
<1>7. ASSUME NEW r \in Replicas, Evict(r) PROVE PutsAreHeld'
  BY <1>7 DEF Evict, Remove, calls
<1>8. ASSUME NEW r \in Replicas, Crash(r) PROVE PutsAreHeld'
  BY <1>8 DEF Crash, Remove
<1>9. CASE ChangeBucket \/ UNCHANGED vars
  BY <1>9 DEF ChangeBucket, vars, calls, history
<1> QED
  BY <1>1, <1>2, <1>3, <1>4, <1>5, <1>6, <1>7, <1>8, <1>9 DEF Next, Continue

\* However the calls of a replica overlap and whatever fails, the Delete of a rejected copy takes
\* an object that a Put has accepted only in a Get that was under way when the Put returned.
THEOREM AckedTheorem == Spec => AckedStaysLocal
<1> DEFINE Kept(r) == kept[r] /\ local'[r] = None =>
                          \/ Evict(r) \/ Crash(r)
                          \/ \E p \in Callers : Home[p] = r /\ overlapped[p] /\ Discard(p)
<1>1. AckInv /\ [Next]_vars => [\A r \in Replicas : Kept(r)]_vars
  <2> SUFFICES ASSUME AckInv, Next, NEW r \in Replicas, kept[r], local'[r] = None
               PROVE  \/ Evict(r) \/ Crash(r)
                      \/ \E p \in Callers : Home[p] = r /\ overlapped[p] /\ Discard(p)
    OBVIOUS
  <2> USE Types, ContentAssumption DEF AckInv, TypeInv, TypeOK, PutsAreHeld, Content
  <2>0. local[r] # None /\ ~UNCHANGED local
    OBVIOUS
  <2>1. ASSUME NEW p \in Callers, Discard(p) PROVE Home[p] = r /\ overlapped[p]
    <3>1. Home[p] = r
      BY <2>0, <2>1 DEF Discard, Remove
    <3> QED
      BY <2>1, <3>1 DEF Discard
  <2>2. ASSUME NEW p \in Callers, Warm(p) PROVE FALSE
    BY <2>0, <2>2 DEF Warm, Publish, StreamsAreOpen
  <2>3. ASSUME NEW p \in Callers, NEW c \in Published, Put(p, c) PROVE FALSE
    BY <2>0, <2>3 DEF Put, Publish
  <2>4. ASSUME NEW s \in Replicas, Evict(s) PROVE s = r
    BY <2>0, <2>4 DEF Evict, Remove
  <2>5. ASSUME NEW s \in Replicas, Crash(s) PROVE s = r
    BY <2>0, <2>5 DEF Crash, Remove
  <2>6. ASSUME NEW p \in Callers,
               \/ Lookup(p) \/ OpenDurable(p) \/ ReadBack(p) \/ Direct(p)
               \/ Reopen(p) \/ Verify(p)
        PROVE  FALSE
    BY <2>0, <2>6 DEF Lookup, OpenDurable, ReadBack, Direct, Reopen, Verify
  <2>7. ASSUME (\E u \in Uploads : Upload(u)) \/ ChangeBucket PROVE FALSE
    BY <2>0, <2>7 DEF Upload, UploadRead, UploadSend, ChangeBucket
  <2> QED
    BY <2>1, <2>2, <2>3, <2>4, <2>5, <2>6, <2>7 DEF Next, Continue
<1> QED
  BY <1>1, AckInit, AckStep, PTL DEF Spec, AckedStaysLocal

-----------------------------------------------------------------------------
(* What an upload brings to the bucket *)

\* What an upload is about to send, or to read, is one of the objects it may send.
UploadsSendTheirs ==
    /\ \A u \in Uploads : upc[u] = "read" => local[uhome[u]] \in owed[u] \cup {None}
    /\ \A u \in Uploads : upc[u] = "send" => usource[u] \in owed[u]

LandInv == TypeInv /\ UploadsSendTheirs

LEMMA LandInit == Init => LandInv
  BY TypeInit DEF Init, LandInv, UploadsSendTheirs

\* A step that leaves the uploads alone, and every replica what it held or less.
LEMMA StillTheirs ==
    ASSUME LandInv, UNCHANGED <<uploads, owed>>, \A r \in Replicas : local'[r] \in {local[r], None}
    PROVE  UploadsSendTheirs'
  BY DEF LandInv, TypeInv, UploadsAreHomed, UploadsSendTheirs, uploads

\* A step of p that writes c into its replica, and starts no upload.
LEMMA TheirsToo ==
    ASSUME LandInv, NEW p \in Callers, NEW c, local' = [local EXCEPT ![Home[p]] = c],
           UNCHANGED uploads, owed' = OwedToo(p, c)
    PROVE  UploadsSendTheirs'
  BY Types DEF LandInv, TypeInv, TypeOK, UploadsAreHomed, UploadsSendTheirs, uploads, OwedToo

LEMMA LandStep == LandInv /\ [Next]_vars => LandInv'
<1> SUFFICES ASSUME LandInv, [Next]_vars PROVE UploadsSendTheirs'
  BY TypeStep DEF LandInv
<1> USE Types DEF LandInv, TypeInv, TypeOK
<1>1. ASSUME NEW p \in Callers,
             \/ Lookup(p) \/ OpenDurable(p) \/ ReadBack(p) \/ Direct(p)
             \/ Reopen(p) \/ Verify(p)
      PROVE  UploadsSendTheirs'
  <2>1. UNCHANGED <<local, uploads, owed>>
    BY <1>1 DEF Lookup, OpenDurable, ReadBack, Direct, Reopen, Verify, history
  <2> QED
    BY <2>1, StillTheirs
<1>2. ASSUME NEW p \in Callers, Warm(p) PROVE UploadsSendTheirs'
  <2>1. UNCHANGED uploads
    BY <1>2 DEF Warm
  <2>2. CASE UNCHANGED <<local, owed>>
    BY <2>1, <2>2, StillTheirs
  <2>3. CASE local' = [local EXCEPT ![Home[p]] = source[p]] /\ owed' = OwedToo(p, source[p])
    BY <2>1, <2>3, TheirsToo
  <2> QED
    BY <1>2, <2>2, <2>3 DEF Warm, Publish
<1>3. ASSUME NEW p \in Callers, Discard(p) PROVE UploadsSendTheirs'
  <2>1. UNCHANGED <<uploads, owed>> /\ \A r \in Replicas : local'[r] \in {local[r], None}
    BY <1>3 DEF Discard, Remove
  <2> QED
    BY <2>1, StillTheirs
<1>4. ASSUME NEW p \in Callers, NEW c \in Published, Put(p, c) PROVE UploadsSendTheirs'
  <2>1. CASE UNCHANGED <<local, uploads, owed>>
    BY <2>1, StillTheirs
  <2>2. CASE /\ local' = [local EXCEPT ![Home[p]] = c]
             /\ UNCHANGED uploads
             /\ owed' = OwedToo(p, c)
    BY <2>2, TheirsToo
  <2>3. CASE /\ local' = [local EXCEPT ![Home[p]] = c]
             /\ StartUpload(p, c)
    <3>1. CASE ~HasDurable
      <4>1. UNCHANGED uploads /\ owed' = OwedToo(p, c)
        BY <2>3, <3>1 DEF StartUpload
      <4> QED
        BY <2>3, <4>1, TheirsToo
    <3>2. CASE HasDurable
      <4>1. PICK u \in Uploads :
                    /\ upc[u] = "idle"
                    /\ upc' = [upc EXCEPT ![u] = "read"]
                    /\ uhome' = [uhome EXCEPT ![u] = Home[p]]
                    /\ owed' = [OwedToo(p, c) EXCEPT ![u] = {c}]
                    /\ UNCHANGED usource
        BY <2>3, <3>2 DEF StartUpload
      <4>2. /\ local'[uhome'[u]] = c /\ owed'[u] = {c} /\ upc'[u] = "read"
        BY <2>3, <4>1 DEF OwedToo
      <4>3. ASSUME NEW v \in Uploads \ {u}
            PROVE  /\ upc'[v] = upc[v] /\ uhome'[v] = uhome[v] /\ usource'[v] = usource[v]
                   /\ owed'[v] = OwedToo(p, c)[v]
        BY <4>1 DEF OwedToo
      <4>4. ASSUME NEW v \in Uploads \ {u}, upc[v] = "read"
            PROVE  local'[uhome[v]] \in owed'[v] \cup {None}
        BY <2>3, <4>3, <4>4 DEF OwedToo, UploadsAreHomed, UploadsSendTheirs
      <4>5. ASSUME NEW v \in Uploads \ {u}, upc[v] = "send"
            PROVE  usource[v] \in owed'[v]
        BY <4>3, <4>5 DEF OwedToo, UploadsSendTheirs
      <4> QED
        BY <4>2, <4>3, <4>4, <4>5 DEF UploadsSendTheirs
    <3> QED
      BY <3>1, <3>2
  <2> QED
    BY <1>4, <2>1, <2>2, <2>3 DEF Put, Publish, history
<1>5. ASSUME NEW u \in Uploads, UploadRead(u) PROVE UploadsSendTheirs'
  BY <1>5 DEF UploadRead, EndUpload, UploadsSendTheirs
<1>6. ASSUME NEW u \in Uploads, UploadSend(u) PROVE UploadsSendTheirs'
  BY <1>6 DEF UploadSend, EndUpload, UploadsSendTheirs
<1>7. ASSUME NEW r \in Replicas, Evict(r) PROVE UploadsSendTheirs'
  <2>1. UNCHANGED <<uploads, owed>> /\ \A s \in Replicas : local'[s] \in {local[s], None}
    BY <1>7 DEF Evict, Remove
  <2> QED
    BY <2>1, StillTheirs
<1>8. ASSUME NEW r \in Replicas, Crash(r) PROVE UploadsSendTheirs'
  <2>1. \A s \in Replicas : local'[s] \in {local[s], None}
    BY <1>8 DEF Crash, Remove
  <2>2. \A u \in Uploads : upc'[u] # "idle" =>
            /\ upc'[u] = upc[u] /\ uhome'[u] = uhome[u]
            /\ usource'[u] = usource[u] /\ owed'[u] = owed[u]
    BY <1>8 DEF Crash
  <2> QED
    BY <2>1, <2>2 DEF UploadsAreHomed, UploadsSendTheirs
<1>9. CASE ChangeBucket \/ UNCHANGED vars
  BY <1>9, StillTheirs DEF ChangeBucket, vars, history
<1> QED
  BY <1>1, <1>2, <1>3, <1>4, <1>5, <1>6, <1>7, <1>8, <1>9 DEF Next, Continue, Upload

\* However many calls, uploads and replicas there are, an upload that ends without having failed
\* leaves in the bucket an object its replica has held since the Put that started it.
THEOREM UploadTheorem == Spec => UploadLands
<1> DEFINE Landed(u) == upc[u] # "idle" /\ upc'[u] = "idle" => durable' \in owed[u] \/ owed'[u] = {}
<1>1. LandInv /\ [Next]_vars => [\A u \in Uploads : Landed(u)]_vars
  <2> SUFFICES ASSUME LandInv, Next, NEW u \in Uploads, upc[u] # "idle", upc'[u] = "idle"
               PROVE  durable' \in owed[u] \/ owed'[u] = {}
    OBVIOUS
  <2> USE DEF LandInv, TypeInv, TypeOK, UploadsSendTheirs
  <2>1. ~UNCHANGED uploads
    BY DEF uploads
  <2>2. ASSUME NEW p \in Callers, Lookup(p) \/ Continue(p) PROVE FALSE
    BY <2>1, <2>2 DEF Lookup, Continue, OpenDurable, Warm, ReadBack, Direct, Reopen, Verify, Discard
  <2>3. ASSUME NEW p \in Callers, NEW c \in Published, Put(p, c) PROVE FALSE
    BY <2>1, <2>3 DEF Put, StartUpload
  <2>4. ASSUME NEW v \in Uploads, UploadRead(v) PROVE owed'[u] = {}
    BY <2>4 DEF UploadRead, EndUpload
  <2>5. ASSUME NEW v \in Uploads, UploadSend(v) PROVE durable' \in owed[u] \/ owed'[u] = {}
    BY <2>5 DEF UploadSend, EndUpload
  <2>6. ASSUME NEW r \in Replicas, Crash(r) PROVE owed'[u] = {}
    BY <2>6 DEF Crash
  <2>7. ASSUME (\E r \in Replicas : Evict(r)) \/ ChangeBucket PROVE FALSE
    BY <2>1, <2>7 DEF Evict, ChangeBucket
  <2> QED
    BY <2>2, <2>3, <2>4, <2>5, <2>6, <2>7 DEF Next, Upload
<1> QED
  BY <1>1, LandInit, LandStep, PTL DEF Spec, UploadLands

-----------------------------------------------------------------------------
(* What Get serves after it has verified it *)

\* Unless another call wrote over it, the copy that p's reader is on is the one its replica
\* holds, if it holds any, and the one that p verifies.
ReaderIsOnTheCopy ==
    \A p \in Callers : ~swapped[p] =>
        /\ pc[p] = "reopen" => local[Home[p]] \in {opened[p], None}
        /\ pc[p] = "verify" => reopened[p] = opened[p]

WarmInv == TypeInv /\ ReaderIsOnTheCopy /\ WarmHitVerified

LEMMA WarmInit == Init => WarmInv
  BY TypeInit, ContentAssumption
     DEF Init, WarmInv, ReaderIsOnTheCopy, WarmHitVerified, Served, NoResult, Content

\* A caller's write takes the copy from under the readers that another call is about to verify.
LEMMA WriteIsSeen ==
    ASSUME WarmInv, NEW p \in Callers, NEW c, Publish(p, c), UNCHANGED <<opened, reopened>>,
           pc'[p] \in {"idle", "readback", "direct"}, \A q \in Callers \ {p} : pc'[q] = pc[q]
    PROVE  ReaderIsOnTheCopy'
<1> USE Types DEF WarmInv, TypeInv, TypeOK, ReaderIsOnTheCopy
<1> SUFFICES ASSUME NEW q \in Callers, ~swapped'[q], q # p
             PROVE  /\ pc'[q] = "reopen" => local'[Home[q]] \in {opened[q], None}
                    /\ pc'[q] = "verify" => reopened[q] = opened[q]
  OBVIOUS
<1>1. ~swapped[q] /\ (pc[q] = "reopen" => Home[q] # Home[p])
  BY DEF Publish
<1>2. pc[q] = "reopen" => local'[Home[q]] = local[Home[q]]
  BY <1>1 DEF Publish
<1> QED
  BY <1>1, <1>2

LEMMA WarmStep == ASSUME DigestKnown PROVE WarmInv /\ [Next]_vars => WarmInv'
<1> SUFFICES ASSUME WarmInv, [Next]_vars PROVE ReaderIsOnTheCopy' /\ WarmHitVerified'
  BY TypeStep DEF WarmInv
<1> USE Types, ContentAssumption
    DEF DigestKnown, WarmInv, TypeInv, TypeOK, WarmHitVerified, Served, Content
<1>1. ASSUME NEW p \in Callers, Lookup(p) PROVE ReaderIsOnTheCopy' /\ WarmHitVerified'
  <2>1. ReaderIsOnTheCopy'
    BY <1>1 DEF Lookup, Goto, Return, ReaderIsOnTheCopy
  <2>2. WarmHitVerified'
    BY <1>1 DEF Lookup, Goto, Return, NoResult
  <2> QED
    BY <2>1, <2>2
<1>2. ASSUME NEW p \in Callers, OpenDurable(p) PROVE ReaderIsOnTheCopy' /\ WarmHitVerified'
  <2>1. ReaderIsOnTheCopy'
    BY <1>2 DEF OpenDurable, Goto, Return, history, ReaderIsOnTheCopy
  <2>2. WarmHitVerified'
    BY <1>2 DEF OpenDurable, Goto, Return, NoResult, history
  <2> QED
    BY <2>1, <2>2
<1>3. ASSUME NEW p \in Callers, Warm(p) PROVE ReaderIsOnTheCopy' /\ WarmHitVerified'
  <2>1. /\ UNCHANGED <<opened, reopened>>
        /\ pc'[p] \in {"readback", "direct"} /\ \A q \in Callers \ {p} : pc'[q] = pc[q]
    BY <1>3 DEF Warm, Goto
  <2>2. ReaderIsOnTheCopy'
    <3>1. CASE UNCHANGED <<local, swapped>>
      BY <2>1, <3>1 DEF ReaderIsOnTheCopy
    <3>2. CASE Publish(p, source[p])
      BY <2>1, <3>2, WriteIsSeen
    <3> QED
      BY <1>3, <3>1, <3>2 DEF Warm
  <2>3. /\ res' = [res EXCEPT ![p] = NoResult]
        /\ \A q \in Callers : swapped[q] => swapped'[q]
    BY <1>3 DEF Warm, Goto, Publish
  <2> QED
    BY <2>2, <2>3 DEF NoResult
<1>4. ASSUME NEW p \in Callers, ReadBack(p) PROVE ReaderIsOnTheCopy' /\ WarmHitVerified'
  <2>1. ReaderIsOnTheCopy'
    BY <1>4 DEF ReadBack, Goto, ReaderIsOnTheCopy
  <2>2. WarmHitVerified'
    BY <1>4 DEF ReadBack, Goto, NoResult
  <2> QED
    BY <2>1, <2>2
<1>5. ASSUME NEW p \in Callers, Direct(p) PROVE ReaderIsOnTheCopy' /\ WarmHitVerified'
  <2>1. ReaderIsOnTheCopy'
    BY <1>5 DEF Direct, Return, history, ReaderIsOnTheCopy
  <2>2. WarmHitVerified'
    BY <1>5 DEF Direct, Return, history
  <2> QED
    BY <2>1, <2>2
<1>6. ASSUME NEW p \in Callers, Reopen(p) PROVE ReaderIsOnTheCopy' /\ WarmHitVerified'
  <2>1. ReaderIsOnTheCopy'
    BY <1>6 DEF Reopen, Goto, history, ReaderIsOnTheCopy
  <2>2. WarmHitVerified'
    BY <1>6 DEF Reopen, Goto, NoResult, history
  <2> QED
    BY <2>1, <2>2
<1>7. ASSUME NEW p \in Callers, Verify(p) PROVE ReaderIsOnTheCopy' /\ WarmHitVerified'
  <2>1. ReaderIsOnTheCopy'
    BY <1>7 DEF Verify, Goto, Return, history, ReaderIsOnTheCopy
  <2>2. ~swapped[p] => reopened[p] = opened[p]
    BY <1>7 DEF Verify, ReaderIsOnTheCopy
  <2>3. CASE Return(p, "hit", opened[p], "warm") /\ \E registryUp \in BOOLEAN : Accepts(reopened[p], registryUp)
    <3>1. reopened[p] \notin Foreign
      BY <2>3 DEF Accepts, ExpectedDigest
    <3>2. UNCHANGED swapped
      BY <1>7 DEF Verify, history
    <3> QED
      BY <2>1, <2>2, <2>3, <3>1, <3>2 DEF Return
  <2>4. CASE Goto(p, "discard")
    <3>1. UNCHANGED swapped
      BY <1>7 DEF Verify, history
    <3> QED
      BY <2>1, <2>4, <3>1 DEF Goto, NoResult
  <2> QED
    BY <1>7, <2>1, <2>3, <2>4 DEF Verify
<1>8. ASSUME NEW p \in Callers, Discard(p) PROVE ReaderIsOnTheCopy' /\ WarmHitVerified'
  <2>1. ReaderIsOnTheCopy'
    BY <1>8 DEF Discard, Remove, Return, ReaderIsOnTheCopy
  <2>2. WarmHitVerified'
    BY <1>8 DEF Discard, Return
  <2> QED
    BY <2>1, <2>2
<1>9. ASSUME NEW p \in Callers, NEW c \in Published, Put(p, c)
      PROVE  ReaderIsOnTheCopy' /\ WarmHitVerified'
  <2>1. /\ pc[p] = "idle" /\ UNCHANGED <<pc, opened, reopened>>
        /\ res' = [res EXCEPT ![p] = NoResult]
        /\ \A q \in Callers : swapped[q] => swapped'[q]
    BY <1>9 DEF Put, Publish, history
  <2>2. ReaderIsOnTheCopy'
    <3>1. CASE UNCHANGED <<local, swapped>>
      BY <2>1, <3>1 DEF ReaderIsOnTheCopy
    <3>2. CASE Publish(p, c)
      BY <2>1, <3>2, WriteIsSeen
    <3> QED
      BY <1>9, <3>1, <3>2 DEF Put, history
  <2> QED
    BY <2>1, <2>2 DEF NoResult
<1>10. ASSUME NEW u \in Uploads, Upload(u) PROVE ReaderIsOnTheCopy' /\ WarmHitVerified'
  BY <1>10 DEF Upload, UploadRead, UploadSend, calls, ReaderIsOnTheCopy
<1>11. ASSUME NEW r \in Replicas, Evict(r) PROVE ReaderIsOnTheCopy' /\ WarmHitVerified'
  BY <1>11 DEF Evict, Remove, calls, ReaderIsOnTheCopy
<1>12. ASSUME NEW r \in Replicas, Crash(r) PROVE ReaderIsOnTheCopy' /\ WarmHitVerified'
  BY <1>12 DEF Crash, Remove, NoResult, ReaderIsOnTheCopy
<1>13. CASE ChangeBucket \/ UNCHANGED vars
  BY <1>13 DEF ChangeBucket, vars, calls, history, ReaderIsOnTheCopy
<1> QED
  BY <1>1, <1>2, <1>3, <1>4, <1>5, <1>6, <1>7, <1>8, <1>9, <1>10, <1>11, <1>12, <1>13
     DEF Next, Continue

\* However the calls of a replica overlap, whatever fails and whoever crashes: where a digest can
\* be had, Get serves bytes the verifier has not seen only if another call of the replica wrote
\* over the warm copy between Get's read-back and the verifier's.
THEOREM WarmHitsTheorem == ASSUME DigestKnown PROVE Spec => []WarmHitVerified
<1>1. WarmInv => WarmHitVerified
  BY DEF WarmInv
<1> QED
  BY <1>1, WarmInit, WarmStep, PTL DEF Spec

-----------------------------------------------------------------------------
(* What the local layer holds *)

CheckInv == TypeInv /\ ForeignCopyIsChecked

LEMMA CheckInit == Init => CheckInv
  BY TypeInit, ContentAssumption DEF Init, CheckInv, ForeignCopyIsChecked, Content

\* A step of p that leaves the local layer alone, and does not end a check p has to make unless
\* it is cut short.
LEMMA StillChecked ==
    ASSUME ForeignCopyIsChecked, NEW p \in Callers, UNCHANGED local,
           \A r \in Replicas : abandoned[r] => abandoned'[r],
           \A q \in Callers \ {p} : pc'[q] = pc[q] /\ reopened'[q] = reopened[q],
           Checking(p) /\ local[Home[p]] \in Foreign => Checking(p)' \/ abandoned'[Home[p]]
    PROVE  ForeignCopyIsChecked'
<1> SUFFICES ASSUME NEW r \in Replicas, local[r] \in Foreign, ~abandoned'[r]
             PROVE  \E q \in Callers : Home[q] = r /\ Checking(q)'
  BY DEF ForeignCopyIsChecked
<1>1. PICK q \in Callers : Home[q] = r /\ Checking(q)
  BY DEF ForeignCopyIsChecked
<1>2. CASE q = p
  BY <1>1, <1>2
<1>3. CASE q # p
  BY <1>1, <1>3 DEF Checking
<1> QED
  BY <1>2, <1>3

\* A step of p that puts c into its replica, where it is checked or need not be or cannot be.
LEMMA PublishChecked ==
    ASSUME CheckInv, NEW p \in Callers, NEW c, local' = [local EXCEPT ![Home[p]] = c],
           UNCHANGED reopened, \A q \in Callers \ {p} : pc'[q] = pc[q],
           \A r \in Replicas \ {Home[p]} : abandoned'[r] = abandoned[r],
           c \in Foreign => Checking(p)' \/ abandoned'[Home[p]]
    PROVE  ForeignCopyIsChecked'
<1> SUFFICES ASSUME NEW r \in Replicas, local'[r] \in Foreign, ~abandoned'[r]
             PROVE  \E q \in Callers : Home[q] = r /\ Checking(q)'
  BY DEF ForeignCopyIsChecked
<1>1. CASE r = Home[p]
  BY <1>1 DEF CheckInv, TypeInv, TypeOK
<1>2. CASE r # Home[p]
  <2>1. local'[r] = local[r] /\ ~abandoned[r]
    BY <1>2 DEF CheckInv, TypeInv, TypeOK
  <2>2. PICK q \in Callers : Home[q] = r /\ Checking(q)
    BY <2>1 DEF CheckInv, ForeignCopyIsChecked
  <2>3. q # p
    BY <1>2, <2>2
  <2> QED
    BY <2>2, <2>3 DEF Checking
<1> QED
  BY <1>1, <1>2

\* Moving on and returning are p's own affair.
LEMMA OwnStep ==
    ASSUME TypeInv, NEW p \in Callers,
           (\E step : Goto(p, step)) \/ (\E status, body, via : Return(p, status, body, via))
    PROVE  \A q \in Callers \ {p} : pc'[q] = pc[q]
  BY DEF TypeInv, TypeOK, Goto, Return

LEMMA CheckStep == ASSUME DigestKnown PROVE CheckInv /\ [Next]_vars => CheckInv'
<1> SUFFICES ASSUME CheckInv, [Next]_vars PROVE ForeignCopyIsChecked'
  BY TypeStep DEF CheckInv
<1> USE Types, ContentAssumption DEF CheckInv
<1>1. ASSUME NEW p \in Callers, Lookup(p) \/ OpenDurable(p) \/ Direct(p) PROVE ForeignCopyIsChecked'
  <2>1. pc[p] \in {"idle", "durable", "direct"} /\ UNCHANGED <<local, reopened, abandoned>>
    BY <1>1 DEF Lookup, OpenDurable, Direct, history
  <2>2. \A q \in Callers \ {p} : pc'[q] = pc[q]
    BY <1>1, OwnStep DEF Lookup, OpenDurable, Direct
  <2> QED
    BY <2>1, <2>2, StillChecked DEF Checking
<1>2. ASSUME NEW p \in Callers, Warm(p) PROVE ForeignCopyIsChecked'
  <2>1. UNCHANGED reopened /\ pc[p] = "warm" /\ \A q \in Callers \ {p} : pc'[q] = pc[q]
    BY <1>2, OwnStep DEF Warm
  <2>2. CASE UNCHANGED <<local, abandoned>>
    BY <2>1, <2>2, StillChecked DEF Checking
  <2>3. CASE /\ local' = [local EXCEPT ![Home[p]] = source[p]]
             /\ Goto(p, "readback") /\ abandoned' = [abandoned EXCEPT ![Home[p]] = FALSE]
    <3>1. Checking(p)'
      BY <2>3 DEF Goto, Checking, TypeInv, TypeOK
    <3> QED
      BY <2>1, <2>3, <3>1, PublishChecked DEF TypeInv, TypeOK
  <2>4. CASE /\ local' = [local EXCEPT ![Home[p]] = source[p]]
             /\ abandoned' = [abandoned EXCEPT ![Home[p]] = TRUE]
    BY <2>1, <2>4, PublishChecked DEF TypeInv, TypeOK
  <2> QED
    BY <1>2, <2>2, <2>3, <2>4 DEF Warm, Publish
<1>3. ASSUME NEW p \in Callers, ReadBack(p) PROVE ForeignCopyIsChecked'
  <2>1. UNCHANGED <<local, reopened>> /\ \A q \in Callers \ {p} : pc'[q] = pc[q]
    BY <1>3, OwnStep DEF ReadBack
  <2>2. \A r \in Replicas : abandoned[r] => abandoned'[r]
    BY <1>3 DEF ReadBack, TypeInv, TypeOK
  <2>3. local[Home[p]] \in Foreign => Checking(p)' \/ abandoned'[Home[p]]
    BY <1>3 DEF ReadBack, DigestKnown, Goto, Checking, TypeInv, TypeOK, Content
  <2> QED
    BY <2>1, <2>2, <2>3, StillChecked
<1>4. ASSUME NEW p \in Callers, Reopen(p) PROVE ForeignCopyIsChecked'
  <2>1. /\ UNCHANGED <<local, abandoned>> /\ \A q \in Callers \ {p} : pc'[q] = pc[q]
        /\ \A q \in Callers \ {p} : reopened'[q] = reopened[q]
    BY <1>4, OwnStep DEF Reopen, history, TypeInv, TypeOK
  <2>2. local[Home[p]] \in Foreign => Checking(p)'
    BY <1>4 DEF Reopen, Goto, Checking, TypeInv, TypeOK
  <2> QED
    BY <2>1, <2>2, StillChecked
<1>5. ASSUME NEW p \in Callers, Verify(p) PROVE ForeignCopyIsChecked'
  <2>1. /\ UNCHANGED <<local, abandoned>> /\ \A q \in Callers \ {p} : pc'[q] = pc[q]
        /\ \A q \in Callers \ {p} : reopened'[q] = reopened[q]
    BY <1>5, OwnStep DEF Verify, history, TypeInv, TypeOK
  <2>2. reopened[p] \in Foreign => ~\E registryUp \in BOOLEAN : Accepts(reopened[p], registryUp)
    BY DEF Accepts, ExpectedDigest, DigestKnown, Content
  <2>3. Checking(p) => Checking(p)'
    BY <1>5, <2>2 DEF Verify, Goto, Checking, TypeInv, TypeOK
  <2> QED
    BY <2>1, <2>3, StillChecked
<1>6. ASSUME NEW p \in Callers, Discard(p) PROVE ForeignCopyIsChecked'
  <2>1. UNCHANGED reopened /\ \A q \in Callers \ {p} : pc'[q] = pc[q]
    BY <1>6, OwnStep DEF Discard
  <2>2. CASE Remove(Home[p]) /\ UNCHANGED abandoned
    <3>1. None \notin Foreign
      BY DEF Content
    <3> QED
      BY <2>1, <2>2, <3>1, PublishChecked DEF Remove
  <2>3. CASE UNCHANGED local /\ abandoned' = [abandoned EXCEPT ![Home[p]] = TRUE]
    <3>1. abandoned'[Home[p]] /\ \A r \in Replicas : abandoned[r] => abandoned'[r]
      BY <2>3 DEF TypeInv, TypeOK
    <3> QED
      BY <2>1, <2>3, <3>1, StillChecked
  <2> QED
    BY <1>6, <2>2, <2>3 DEF Discard
<1>7. ASSUME NEW p \in Callers, NEW c \in Published, Put(p, c) PROVE ForeignCopyIsChecked'
  <2>1. UNCHANGED <<pc, reopened>> /\ c \notin Foreign
    BY <1>7 DEF Put
  <2>2. CASE UNCHANGED <<local, abandoned>>
    BY <2>1, <2>2 DEF ForeignCopyIsChecked, Checking
  <2>3. CASE /\ local' = [local EXCEPT ![Home[p]] = c]
             /\ abandoned' = [abandoned EXCEPT ![Home[p]] = FALSE]
    BY <2>1, <2>3, PublishChecked DEF TypeInv, TypeOK
  <2> QED
    BY <1>7, <2>2, <2>3 DEF Put, Publish, history
<1>8. ASSUME NEW u \in Uploads, Upload(u) PROVE ForeignCopyIsChecked'
  BY <1>8 DEF Upload, UploadRead, UploadSend, calls, ForeignCopyIsChecked, Checking
<1>9. ASSUME NEW r \in Replicas, Evict(r) PROVE ForeignCopyIsChecked'
  <2>1. UNCHANGED <<pc, reopened, abandoned>> /\ \A s \in Replicas : local'[s] \in {local[s], None}
    BY <1>9 DEF Evict, Remove, calls, uploads, TypeInv, TypeOK
  <2> QED
    BY <2>1 DEF ForeignCopyIsChecked, Checking, Content
<1>10. ASSUME NEW r \in Replicas, Crash(r) PROVE ForeignCopyIsChecked'
  <2> SUFFICES ASSUME NEW s \in Replicas, local'[s] \in Foreign, ~abandoned'[s]
               PROVE  \E q \in Callers : Home[q] = s /\ Checking(q)'
    BY DEF ForeignCopyIsChecked
  <2>1. s # r /\ ~abandoned[s] /\ local'[s] = local[s]
    BY <1>10 DEF Crash, Remove, TypeInv, TypeOK
  <2>2. PICK q \in Callers : Home[q] = s /\ Checking(q)
    BY <2>1 DEF ForeignCopyIsChecked
  <2>3. pc'[q] = pc[q] /\ reopened'[q] = reopened[q]
    BY <1>10, <2>1, <2>2 DEF Crash
  <2> QED
    BY <2>2, <2>3 DEF Checking
<1>11. CASE ChangeBucket \/ UNCHANGED vars
  BY <1>11 DEF ChangeBucket, vars, calls, uploads, history, ForeignCopyIsChecked, Checking
<1> QED
  BY <1>1, <1>2, <1>3, <1>4, <1>5, <1>6, <1>7, <1>8, <1>9, <1>10, <1>11 DEF Next, Continue

\* However many calls of a replica overlap, what tampering brings into its local layer is there
\* only while one of them is about to find out, unless a failing disk or a crash cut that short;
\* a replica with no call under way and a sound disk has none.
THEOREM CheckedTheorem == ASSUME DigestKnown PROVE Spec => []ForeignCopyIsChecked
<1>1. CheckInv => ForeignCopyIsChecked
  BY DEF CheckInv
<1> QED
  BY <1>1, CheckInit, CheckStep, PTL DEF Spec

\* On a sound disk no check is cut short.
NothingAbandoned == \A r \in Replicas : ~abandoned[r]

SoundInv == CheckInv /\ NothingAbandoned

LEMMA SoundInit == Init => SoundInv
  BY CheckInit DEF Init, SoundInv, NothingAbandoned

LEMMA SoundStep == ASSUME DigestKnown, SoundDisk PROVE SoundInv /\ [Next]_vars => SoundInv'
<1> SUFFICES ASSUME SoundInv, [Next]_vars PROVE NothingAbandoned'
  BY CheckStep DEF SoundInv
<1> USE DEF SoundInv, CheckInv, TypeInv, TypeOK, NothingAbandoned, SoundDisk
<1>1. CASE UNCHANGED abandoned
  BY <1>1
<1>2. ASSUME NEW p \in Callers, Lookup(p) \/ Continue(p) PROVE NothingAbandoned'
  <2>1. UNCHANGED abandoned \/ abandoned' = [abandoned EXCEPT ![Home[p]] = FALSE]
    BY <1>2 DEF Lookup, Continue, OpenDurable, Warm, ReadBack, Direct, Reopen, Verify, Discard, history
  <2> QED
    BY <2>1
<1>3. ASSUME NEW p \in Callers, NEW c \in Published, Put(p, c) PROVE NothingAbandoned'
  BY <1>3 DEF Put
<1>4. ASSUME NEW r \in Replicas, Crash(r) PROVE NothingAbandoned'
  BY <1>4 DEF Crash
<1>5. CASE (\E u \in Uploads : Upload(u)) \/ (\E r \in Replicas : Evict(r)) \/ ChangeBucket \/ UNCHANGED vars
  BY <1>1, <1>5 DEF Upload, UploadRead, UploadSend, Evict, ChangeBucket, vars, history
<1> QED
  BY <1>2, <1>3, <1>4, <1>5 DEF Next

\* Only a lookup can hit the local layer.
LEMMA LocalHitStep ==
    ASSUME OneAtATime
    PROVE  SoundInv /\ LocalHitVerified /\ [Next]_vars => LocalHitVerified'
<1> SUFFICES ASSUME SoundInv, LocalHitVerified, [Next]_vars PROVE LocalHitVerified'
  OBVIOUS
<1> USE DEF LocalHitVerified, Served, SoundInv
<1>1. CASE UNCHANGED res
  BY <1>1
<1>2. ASSUME NEW p \in Callers, Lookup(p) PROVE LocalHitVerified'
  <2>1. local[Home[p]] \notin Foreign
    BY <1>2, Types DEF Lookup, OneAtATime, CheckInv, ForeignCopyIsChecked, Checking, NothingAbandoned
  <2>2. CASE Return(p, "hit", local[Home[p]], "local")
    BY <2>1, <2>2 DEF Return, CheckInv, TypeInv, TypeOK
  <2>3. CASE \E status \in {"miss", "err"} : Return(p, status, None, "local")
    BY <2>3 DEF Return, CheckInv, TypeInv, TypeOK
  <2>4. CASE \E step : Goto(p, step)
    BY <2>4 DEF Goto, NoResult, CheckInv, TypeInv, TypeOK
  <2> QED
    BY <1>2, <2>2, <2>3, <2>4 DEF Lookup
<1>3. ASSUME NEW p \in Callers, Continue(p) PROVE LocalHitVerified'
  <2>1. \/ \E step : Goto(p, step)
        \/ \E status, body : \E via \in {"durable", "warm", "direct", "rejected"} : Return(p, status, body, via)
    BY <1>3 DEF Continue, OpenDurable, Warm, ReadBack, Direct, Reopen, Verify, Discard
  <2> QED
    BY <2>1 DEF Goto, NoResult, Return, CheckInv, TypeInv, TypeOK
<1>4. ASSUME NEW p \in Callers, NEW c \in Published, Put(p, c) PROVE LocalHitVerified'
  BY <1>4 DEF Put, NoResult, CheckInv, TypeInv, TypeOK
<1>5. ASSUME NEW r \in Replicas, Crash(r) PROVE LocalHitVerified'
  BY <1>5 DEF Crash, NoResult
<1>6. CASE (\E u \in Uploads : Upload(u)) \/ (\E r \in Replicas : Evict(r)) \/ ChangeBucket \/ UNCHANGED vars
  BY <1>1, <1>6 DEF Upload, UploadRead, UploadSend, Evict, ChangeBucket, vars, calls
<1> QED
  BY <1>2, <1>3, <1>4, <1>5, <1>6 DEF Next

\* With one request at a time per replica, a digest to be had and a sound disk, no hit on the
\* local layer returns an object that tampering with the bucket brought in.
THEOREM SoloLocalHits == ASSUME OneAtATime, DigestKnown, SoundDisk PROVE Spec => []LocalHitVerified
<1>1. Init => LocalHitVerified
  BY DEF Init, LocalHitVerified, Served, NoResult
<1> QED
  BY <1>1, SoundInit, SoundStep, LocalHitStep, PTL DEF Spec

-----------------------------------------------------------------------------
(* What Get serves at all *)

\* A call ends up at the bucket only if something failed, or the warm copy was evicted, and no
\* call writes over another's copy.
NeverDirect ==
    /\ \A p \in Callers : pc[p] # "direct"
    /\ \A p \in Callers : pc[p] = "readback" => local[Home[p]] # None
    /\ \A p \in Callers : ~swapped[p]

DirectInv == TypeInv /\ NeverDirect

LEMMA DirectInit == Init => DirectInv
  BY TypeInit DEF Init, DirectInv, NeverDirect

LEMMA DirectStep ==
    ASSUME OneAtATime, Faulty = {}, Crashing = FALSE, Evicting = FALSE
    PROVE  DirectInv /\ [Next]_vars => DirectInv'
<1> SUFFICES ASSUME DirectInv, [Next]_vars PROVE NeverDirect'
  BY TypeStep DEF DirectInv
<1> USE Types, ContentAssumption
    DEF OneAtATime, DirectInv, TypeInv, TypeOK, StreamsAreOpen, NeverDirect
<1>1. ASSUME NEW p \in Callers, Lookup(p) \/ OpenDurable(p) \/ Direct(p) PROVE NeverDirect'
  <2>1. CASE Lookup(p)
    BY <2>1 DEF Lookup, Goto, Return
  <2>2. CASE OpenDurable(p)
    BY <2>2 DEF OpenDurable, Goto, Return, history
  <2> QED
    BY <1>1, <2>1, <2>2 DEF Direct
<1>2. ASSUME NEW p \in Callers, Warm(p) PROVE NeverDirect'
  BY <1>2 DEF Warm, Goto, Publish
<1>3. ASSUME NEW p \in Callers, ReadBack(p) PROVE NeverDirect'
  BY <1>3 DEF ReadBack, Goto, Return
<1>4. ASSUME NEW p \in Callers, Reopen(p) \/ Verify(p) \/ Discard(p) PROVE NeverDirect'
  <2>1. CASE Reopen(p)
    BY <2>1 DEF Reopen, Goto, history
  <2>2. CASE Verify(p)
    BY <2>2 DEF Verify, Goto, Return, history
  <2>3. CASE Discard(p)
    BY <2>3 DEF Discard, Return, Remove
  <2> QED
    BY <1>4, <2>1, <2>2, <2>3
<1>5. ASSUME NEW p \in Callers, NEW c \in Published, Put(p, c) PROVE NeverDirect'
  <2>1. UNCHANGED pc /\ pc[p] = "idle" /\ Publish(p, c) /\ c # None
    BY <1>5 DEF Put, Content
  <2> QED
    BY <2>1 DEF Publish
<1>6. ASSUME NEW u \in Uploads, Upload(u) PROVE NeverDirect'
  BY <1>6 DEF Upload, UploadRead, UploadSend, calls
<1>7. CASE (\E r \in Replicas : Evict(r) \/ Crash(r)) \/ ChangeBucket \/ UNCHANGED vars
  BY <1>7 DEF Evict, Crash, ChangeBucket, vars, calls, history
<1> QED
  BY <1>1, <1>2, <1>3, <1>4, <1>5, <1>6, <1>7 DEF Next, Continue

\* What a call served, it looked up, or warmed and verified, or took from the bucket as it was.
ServedSomehow ==
    \A p \in Callers : res[p].body \in Foreign => Served(p, "local") \/ Served(p, "warm")

LEMMA ServedStep ==
    DirectInv /\ ServedSomehow /\ [Next]_vars => ServedSomehow'
<1> SUFFICES ASSUME DirectInv, ServedSomehow, [Next]_vars PROVE ServedSomehow'
  OBVIOUS
<1> USE DEF ServedSomehow, Served
<1>1. CASE UNCHANGED res
  BY <1>1
<1>2. ASSUME NEW p \in Callers, Lookup(p) \/ Continue(p) PROVE ServedSomehow'
  <2>1. \/ \E step : Goto(p, step)
        \/ \E status, via : Return(p, status, None, via)
        \/ \E body : \E via \in {"local", "warm"} : Return(p, "hit", body, via)
    BY <1>2 DEF Lookup, Continue, OpenDurable, Warm, ReadBack, Direct, Reopen, Verify, Discard,
                DirectInv, NeverDirect
  <2> QED
    BY <2>1, ContentAssumption DEF Goto, NoResult, Return, DirectInv, TypeInv, TypeOK, Content
<1>3. ASSUME NEW p \in Callers, NEW c \in Published, Put(p, c) PROVE ServedSomehow'
  BY <1>3, ContentAssumption DEF Put, NoResult, DirectInv, TypeInv, TypeOK, Content
<1>4. ASSUME NEW r \in Replicas, Crash(r) PROVE ServedSomehow'
  BY <1>4, ContentAssumption DEF Crash, NoResult, Content
<1>5. CASE (\E u \in Uploads : Upload(u)) \/ (\E r \in Replicas : Evict(r)) \/ ChangeBucket \/ UNCHANGED vars
  BY <1>1, <1>5 DEF Upload, UploadRead, UploadSend, Evict, ChangeBucket, vars, calls
<1> QED
  BY <1>2, <1>3, <1>4, <1>5 DEF Next

\* When WithDurableVerifier holds what layered.go says of it: one request at a time per replica,
\* a digest to be had, and nothing that fails, crashes or is evicted.  Overlapping requests, or a
\* fallback to the bucket, are what it takes to be served unverified bytes.
THEOREM VerifiedWhenUndisturbed ==
    ASSUME OneAtATime, DigestKnown, Faulty = {}, Crashing = FALSE, Evicting = FALSE
    PROVE  Spec => []DurableHitsVerified
<1>1. SoundDisk
  BY DEF SoundDisk
<1>2. Init => ServedSomehow
  BY ContentAssumption DEF Init, ServedSomehow, NoResult, Content
<1>3. ServedSomehow /\ LocalHitVerified /\ WarmHitVerified /\ DirectInv => DurableHitsVerified
  BY DEF ServedSomehow, LocalHitVerified, WarmHitVerified, DurableHitsVerified, DirectInv, NeverDirect
<1>4. (Spec => []LocalHitVerified) /\ (Spec => []WarmHitVerified)
  BY <1>1, SoloLocalHits, WarmHitsTheorem
<1>5. DirectInv /\ [Next]_vars => DirectInv'
  BY DirectStep
<1> QED
  BY <1>2, <1>3, <1>4, <1>5, DirectInit, ServedStep, PTL DEF Spec
=============================================================================
