----------------------------- MODULE LocalStore -----------------------------
(***************************************************************************)
(* The local cache layer of internal/cache/local.go on its file system:    *)
(* Put creates a temporary file, copies into it, fsyncs it, renames it     *)
(* over the key and fsyncs the directory; Delete and the evictor unlink    *)
(* the key.  Any step may fail, and the process or the node may crash      *)
(* between any two.                                                        *)
(*                                                                         *)
(* A process crash leaves the file system as it is.  A node crash keeps    *)
(* only what reached the disk: the data of a file once it was fsynced, a   *)
(* change of a directory once that directory was.  The changes of one      *)
(* directory reach the disk in order, so a crash takes the key back along  *)
(* the states it went through, at most to the last directory fsync.  The   *)
(* key's directory is itself an entry of its parent.  Put makes it when it *)
(* is missing (with its missing ancestors) and never fsyncs the parent, so *)
(* a crash may take a new directory away, with all that was in it; what    *)
(* survived a crash is on disk.                                            *)
(*                                                                         *)
(* The module follows one key.                                             *)
(***************************************************************************)
EXTENDS Naturals, Sequences

CONSTANTS
    Writers,   \* calls of Put, each made once; a file is named after its writer
    Removers,  \* calls of Delete and removals by the evictor, each made once
    None,      \* no file
    Crashes    \* bound: node crashes

ASSUME NamesAssumption == None \notin Writers
ASSUME CrashesAssumption == Crashes \in Nat

VARIABLES
    pc,       \* pc[w]: the step of Put that writer w is about to take, or how it ended
    data,     \* data[w]: the content of w's file
    log,      \* what the key has named, oldest first; the last is what it names
    floor,    \* the prefix of log that is on disk for sure
    dir,      \* the key's directory: "absent", "new" or "durable", on disk for sure
    removed,  \* removed[d]: the file that d's unlink took away, or None
    crashes   \* node crashes so far

vars == <<pc, data, log, floor, dir, removed, crashes>>

Steps == {"idle", "copy", "sync", "rename", "syncdir", "ok", "failed"}

\* "partial" while it is copied, "whole" in the page cache, "stable" on disk, "torn" when a
\* crash cut it short.
Contents == {"none", "partial", "whole", "stable", "torn"}

Names == Writers \cup {None}

Init ==
    /\ pc = [w \in Writers |-> "idle"]
    /\ data = [w \in Writers |-> "none"]
    /\ log = <<None>>
    /\ floor = 1
    /\ dir \in {"absent", "durable"}
    /\ removed = [d \in Removers |-> None]
    /\ crashes = 0

-----------------------------------------------------------------------------
(* Helpers *)

\* The file the key names.
Entry == log[Len(log)]

Goto(w, step) == pc' = [pc EXCEPT ![w] = step]

\* Put returns an error; its deferred Remove takes the temporary file away.
Fail(w) ==
    /\ Goto(w, "failed")
    /\ UNCHANGED <<log, floor, removed, crashes>>

-----------------------------------------------------------------------------
(* Local.Put *)

\* MkdirAll and CreateTemp; the directories may be made before CreateTemp fails.
Create(w) ==
    /\ pc[w] = "idle"
    /\ \/ /\ Goto(w, "copy")
          /\ data' = [data EXCEPT ![w] = "partial"]
          /\ dir' = IF dir = "absent" THEN "new" ELSE dir
          /\ UNCHANGED <<log, floor, removed, crashes>>
       \/ /\ Fail(w)
          /\ dir' \in {dir, IF dir = "absent" THEN "new" ELSE dir}
          /\ UNCHANGED data

\* io.Copy: the stream is in the page cache, or the stream or the disk failed half way.
Copy(w) ==
    /\ pc[w] = "copy"
    /\ \/ /\ Goto(w, "sync")
          /\ data' = [data EXCEPT ![w] = "whole"]
          /\ UNCHANGED <<log, floor, removed, crashes>>
       \/ Fail(w) /\ UNCHANGED data
    /\ UNCHANGED dir

\* Mutant: the data is not fsynced.
SyncSkipped(w) ==
    /\ pc[w] = "sync"
    /\ Goto(w, "rename")
    /\ UNCHANGED <<data, log, floor, dir, removed, crashes>>

\* tmp.Sync and tmp.Close.
Sync(w) ==
    /\ pc[w] = "sync"
    /\ \/ /\ Goto(w, "rename")
          /\ data' = [data EXCEPT ![w] = "stable"]
          /\ UNCHANGED <<log, floor, removed, crashes>>
       \/ Fail(w) /\ UNCHANGED data
    /\ UNCHANGED dir

\* Mutant: the old file is unlinked before the rename.
RenameAfterRemove(w) ==
    /\ pc[w] = "rename"
    /\ Goto(w, "syncdir")
    /\ log' = log \o <<None, w>>
    /\ UNCHANGED <<data, floor, dir, removed, crashes>>

\* os.Rename over whatever the key names.
Rename(w) ==
    /\ pc[w] = "rename"
    /\ \/ /\ Goto(w, "syncdir")
          /\ log' = Append(log, w)
          /\ UNCHANGED <<floor, removed, crashes>>
       \/ Fail(w)
    /\ UNCHANGED <<data, dir>>

\* Mutant: the directory is not fsynced.
SyncDirSkipped(w) ==
    /\ pc[w] = "syncdir"
    /\ Goto(w, "ok")
    /\ UNCHANGED <<data, log, floor, dir, removed, crashes>>

\* syncDir puts every change of the directory so far on disk, those of other calls included; the
\* directory's own entry is its parent's affair.  If it fails Put returns an error, and the
\* object stays.
SyncDir(w) ==
    /\ pc[w] = "syncdir"
    /\ \/ /\ Goto(w, "ok")
          /\ floor' = Len(log)
          /\ UNCHANGED <<log, removed, crashes>>
       \/ Fail(w)
    /\ UNCHANGED <<data, dir>>

-----------------------------------------------------------------------------
\* Local.Delete, or os.Remove in the evictor's sweep: no directory fsync follows.
Unlink(d) ==
    /\ removed[d] = None
    /\ Entry # None
    /\ log' = Append(log, None)
    /\ removed' = [removed EXCEPT ![d] = Entry]
    /\ UNCHANGED <<pc, data, floor, dir, crashes>>

-----------------------------------------------------------------------------
(* The environment *)

\* A crash ends the Puts under way; their temporary files stay behind, under names nobody reads.
CallsLost ==
    pc' = [w \in Writers |-> IF pc[w] \in {"idle", "ok"} THEN pc[w] ELSE "failed"]

ProcessCrash ==
    /\ \E w \in Writers : pc[w] \notin {"idle", "ok", "failed"}
    /\ CallsLost
    /\ UNCHANGED <<data, log, floor, dir, removed, crashes>>

\* The directory survives, and the key goes some way back.
Keep ==
    /\ \E kept \in floor..Len(log) :
            /\ log' = SubSeq(log, 1, kept)
            /\ floor' = kept
    /\ dir' = IF dir = "new" THEN "durable" ELSE dir

\* A new directory is gone, and the key with it.
Uproot ==
    /\ dir = "new"
    /\ dir' = "absent"
    /\ log' = <<None>>
    /\ floor' = 1

NodeCrash ==
    /\ crashes < Crashes
    /\ crashes' = crashes + 1
    /\ CallsLost
    /\ data' = [w \in Writers |-> IF data[w] \in {"partial", "whole"} THEN "torn" ELSE data[w]]
    /\ Keep \/ Uproot
    /\ UNCHANGED removed

-----------------------------------------------------------------------------
Put(w) == Create(w) \/ Copy(w) \/ Sync(w) \/ Rename(w) \/ SyncDir(w)

Next ==
    \/ \E w \in Writers : Put(w)
    \/ \E d \in Removers : Unlink(d)
    \/ ProcessCrash
    \/ NodeCrash

Spec == Init /\ [][Next]_vars

-----------------------------------------------------------------------------
(* Properties *)

\* Every variable holds a value of its type.
TypeOK ==
    /\ pc \in [Writers -> Steps]
    /\ data \in [Writers -> Contents]
    /\ log \in Seq(Names) /\ Len(log) > 0
    /\ floor \in 1..Len(log)
    /\ dir \in {"absent", "new", "durable"}
    /\ removed \in [Removers -> Names]
    /\ crashes \in 0..Crashes

\* "A truncated blob is never served as a HIT" (local.go, lines 88-91): whatever crashed
\* and whenever, the key names a whole file or none.
NeverTorn == Entry # None => data[Entry] \in {"whole", "stable"}

\* The key has named w's object in a state that is not taken back.
Held(w) == \E i \in 1..Len(log) : log[i] = w

\* "A committed object survives a node crash whole" (the same comment): once a Put has
\* returned nil, no sequence of crashes takes the key back to a state before it.
AckedSurvives == \A w \in Writers : pc[w] = "ok" => Held(w)

\* What the code does keep of that: once a Put has returned nil, a crash takes its object back only
\* by taking the whole directory, and only one that a Put made (local.go, line 98) and that no
\* crash has spared since; other Puts and removals of the key may be under way.
LostOnlyWithItsDirectory ==
    [][\A w \in Writers : pc[w] = "ok" /\ Held(w) =>
          (pc[w] = "ok" /\ Held(w))' \/ (dir = "new" /\ dir' = "absent")]_vars

-----------------------------------------------------------------------------
\* The layer implements the object store callers see: temporary files are invisible, and a file
\* cut short would not be an object.
Torn == [torn |-> TRUE]
Object(f) == IF f # None /\ data[f] \in {"none", "partial", "torn"} THEN Torn ELSE f

History == [i \in 1..Len(log) |-> Object(log[i])]

Status == [w \in Writers |-> IF pc[w] \in {"ok", "failed"} THEN pc[w]
                             ELSE IF pc[w] = "syncdir" THEN "shown" ELSE "new"]

Abstract == INSTANCE ObjectStore WITH log <- History, status <- Status, rooted <- dir = "durable"

\* Every step of Put, Unlink and of a crash is a step the object store allows, or none.
IsObjectStore == Abstract!Spec
=============================================================================
