# terrastrata in TLA+

terrastrata is a caching mirror for Terraform registries: it serves the provider
network mirror protocol and the module registry protocol, keeps what it fetched
in a local directory and, if configured, in an S3 bucket that several replicas
share, and goes on serving when the upstream registry does not answer. This
directory holds TLA+ modules of its core, the TLC configurations that check them
on small instances, and theorems about them that TLAPS checks for every
instance.

Contents: [the system](#the-system), [how the modules relate to the
code](#how-the-modules-relate-to-the-code), [the modules](#the-modules), [the
runs](#the-runs), [fairness](#fairness), [what is proved](#what-is-proved),
[where code and documentation part](#where-code-and-documentation-part), [what
is not modelled](#what-is-not-modelled), [the plan](#the-plan), [running
it](#running-it).

## The system

One process serves HTTP. A request goes through the middleware to a handler, the
handler looks into the cache, and on a miss it asks an upstream registry, once
for all the requests that want the same thing at the same time (`singleflight`).
State outlives a request in three places: the file system of the local cache
(with its staging directory), the bucket, and a little memory (the singleflight
group, the discovered module API path).

| Component | Code | State it keeps | Operations | What makes it correct |
|---|---|---|---|---|
| Layered cache | `internal/cache/layered.go` | none of its own; the two layers | `Get` with warming, verification and fallbacks; `Put` and its detached upload | what comes out of the bucket is verified; an accepted `Put` stays; what is uploaded is what the replica held |
| Local layer | `internal/cache/local.go` | one file per key, temporary files | `Get`, `Put`, `Delete` | a file is whole or absent, whatever crashes; an acknowledged `Put` survives, but for a directory it made |
| Durable layer | `internal/cache/s3.go` | objects in the bucket, shared | `Get`, `Put` | a missing object is a miss, any other failure an error |
| Evictor | `internal/cache/evictor.go` | files and their access times | `Run`, `sweep` | keeps to the budget by removing what was used least recently, although files change under it |
| Provider archives | `internal/mirror/handler.go` | the calls in flight, staging files | `handleZip` and what it calls | only verified archives are cached or served; a broken cache or another client's hang-up fails nobody; no staging file is left |
| Versions index | the same file, `internal/freshness` | envelopes in the cache | `handleVersions` | lags by at most the TTL; stale only when upstream failed; never goes back |
| Archives index | the same file, `internal/mirror/protocol.go` | the fan-out's results and first error | `handleArchives`, `BuildArchivesIndex` | complete or not cached; reports upstream's error, not the cancellation |
| Verifier | `internal/mirror/integrity.go` | none; re-enters the cache | `DurableVerifier` | takes the registry's digest first, that of the cached index second |
| Upstream client | `internal/mirror/upstream.go` | connections | `ListVersions`, `GetDownload`, `FetchZip` | a 404 is told from every other failure |
| Module mirror | `internal/modules/handler.go` | calls in flight, staging files, cached locations | versions, download, archive | as for providers; a link that was handed out works until it expires |
| Module upstream | `internal/modules/upstream.go` | the discovered API path, the time of the last failure, a mutex | `modulesAPI`, `ListVersions`, `Location` | discovery happens once, and after a failure not before the cooldown |
| Signed links | `internal/modules/sign.go` | a key | `sign`, `verify` | accepts what it signed until it expires |
| Source parsing, repacking | `internal/modules/protocol.go`, `repack.go` | none | `ParseSource`, `repackStripRoot` | pure |
| Prewarm | `internal/prewarm/prewarm.go` | the slots taken | `Run`, `warmProvider` | fails only for upstream, the staging disk or a refused name, and ends when the process is told to stop |
| Process | `cmd/terrastrata/main.go` | everything above, one context | start, serve, shut down | drains requests, not background work |
| Configuration, middleware, paths, metrics | `internal/config`, `httpx`, `pathsafe`, `observ` | counters | | pure, or around a request |

The interactions that are hard to test: callers of one replica meet on the same
key without any lock in `Layered`; uploads, populations and revalidations run
detached from the requests that started them; requests join and leave a shared
call at any moment; every module request goes through one mutex, under which the
registry's discovery document is fetched; the evictor and other replicas change
objects between two steps of a call; the process or the node stops between two
steps of a `Put`; and each of the cache, the staging disk, the registry and the
download host fails on its own. `PROJECT.json` lists these as hazards, each at
its line, with the properties that cover it or the reason none does.

## How the modules relate to the code

Where code under different keys shares no state, a module follows one cache key
(an object, an archive, an index of one provider). ModuleVersions has several
modules, which share the discovery, and Process several files, which share the
budget. A variable is a local of a goroutine (`pc`, `opened`, `led`, ...), a
file or object (`cache`, `local`, `durable`, `staged`), or a field of the
singleflight group (`waiters`, the position of the shared call). Variables that
only record history for a property are marked as such and no guard reads them.

An action is the stretch of a handler between two points at which another
goroutine can matter: a file-system, bucket or network operation, a lock, a
channel. A failing operation is a disjunct of the same action, with the code's
error path in it. Contents are model values; what a body says is abstracted to
what the code tells apart: the right bytes or others, how many versions an index
lists, which platforms.

Operators marked `Mutant` are not part of a specification: each is a plausible
bug in the definition it precedes, and `PROJECT.json` names the property that
finds it.

## The modules

**LayeredCache** composes the two layers for any number of replicas and callers.
`Lookup`, `OpenDurable`, `Warm`, `ReadBack`, `Reopen`, `Verify`, `Discard` are
the steps of `Get` in order, `Direct` its fallback to the bucket, `Put`,
`UploadRead` and `UploadSend` are `Put` and `putDurable`. A reader names the
object it was opened on, as an open file does, whatever is renamed over it.
`Evict`, `Crash` and `ChangeBucket` are the evictor, the end of the process (its
uploads are lost, its volume perhaps) and other hands at the bucket.
`ExpectedDigest` and `Accepts` are the verifier: the registry's digest if it
answers, else that of the cached index, else the object passes. Calls of a
replica overlap freely, and `layered.go` promises more than it keeps when they
do; so the properties say what an overlap can do and what nothing else can.
`swapped` and `overlapped` record the two overlaps that matter (a copy written
over while another call verifies, a `Put` that returns during a `Get`),
`abandoned` that a failure or a crash cut a check short, and `owed` the objects
an upload may still send.

**LocalStore** takes one `Put` apart into `Create`, `Copy`, `Sync`, `Rename` and
`SyncDir` over a file system with a page cache: a node crash keeps what was
fsynced, and takes the key back along its history to no further than the last
directory fsync. The directory itself (`dir`) is an entry of its parent:
`Create` makes it when it is missing, nothing fsyncs the parent, and so a node
crash may take a new one away with all that was in it (`Uproot`), until one has
spared it (`Keep`). Syncs of the same directory on behalf of other keys are left
out; they only make more of it durable. **ObjectStore** is what callers may rely
on: the key goes through whole objects, and an acknowledged state is not taken
back, unless the key's place is not `rooted` and is lost as a whole.
`LocalStore!IsObjectStore` says the one implements the other, with a history of
objects in place of directory entries and files.

**ZipMirror** is the path of an archive: `ServeFromCache`, `Join` and
`Receive`/`GiveUp` (the two arms of the `select` in `coalesce`),
`StreamFromCache`; the population (`Describe`, `Stage`, `Copy`, `Populate`,
`EndPopulation`), and a request's own fetch (`Describe`, `Stage`, `Copy`,
`ServeStaged`) when the cache did not produce what the population stored.
`Stage` creates the staging file, `Copy` fills and verifies it or cleans it up.
It takes the cache as the atomic store that LocalStore shows it to be.

**Coalescing** is what ZipMirror and the next four modules promise those who
share a call (`coalesce` in both handlers): `Join` starts a call or joins the
one in flight, `Return` gives its one result to all who wait, `Receive` and
`Leave` are the two arms of the `select`, and only one whose context is done
leaves early. `IsCoalesced` in ZipMirror, VersionsIndex, ArchivesIndex,
ModuleMirror (for its two keys) and ModuleVersions (for each module) says that
they implement it; the definitions of `Flight` there are the refinement
mappings.

**VersionsIndex** is `handleVersions` with a clock: `Load` decides on freshness,
`Join`, `Receive` and `GiveUp` are as above, `ListVersions`, `StoreVersions` and
`EndFetch` the coalesced revalidation. An index is the number of versions it
lists, an envelope that and its stamp. Upstream only adds versions.

**ArchivesIndex** is `handleArchives` with the fan-out of `BuildArchivesIndex`:
`Spawn` takes a slot, `GetDownload` and `Abort` are how a goroutine's call ends,
`Record` is what it does under the mutex, `Collect` the `wg.Wait`.

**ModuleMirror** is the download and the archive endpoint of the module mirror.
`Lookup`, `JoinLocation`, `ReceiveLocation`, `Ask` and `StoreLocation` are
`resolveLocation`, whose caller is the download endpoint, the population of the
archive, or a client's own fetch (`Resolved` says what each does with the
answer); `ParseSource` decides what can be hosted. `Reject` and `ServeFromCache`
are how `handleArchive` begins, `Join`, `Receive`, `GiveUp`, `StreamFromCache`,
`Open`, `Copy`, `Populate`, `EndPopulation` and `ServeStaged` what follows. Two
keys are coalesced: the goroutine of the archive (`Population`) may wait for
that of the location (`Resolver`). `LinkExpiry` and `Valid` are `query` and
`verify` of `sign.go`, on a clock that is finer than the whole seconds they
compare.

**ModuleVersions** is the versions endpoint of the module mirror over the
discovery of the registry's API. `Load`, `Join`, `Receive` and `GiveUp` are
`handleVersions`; the coalesced fetch of each module goes through `ModulesAPI`
(which may begin a discovery, and then keeps the mutex), `Discover`,
`ListVersions` and `StoreVersions`. A path is `"default"` or `"custom"`; the
constant `Registry` says where the registry serves, and `ServedAt` what it
answers at a path. A versions document is its stamp.

**Process** puts together what `main.run` starts beside the server, over what
they share (**Shared**): the files of the local cache, each a size and a
modification time, and the context a signal cancels. **Evictor** is `sweep`:
`StartSweep` begins the walk that measures, `Measured` ends it, or begins the
one that collects, `Visit` is the walk coming to a file, `Remove` the loop's
`os.Remove`, `Evicted` its end. **Prewarm** is `Run` and `warmProvider`:
`Launch` takes a slot, `Answered` decides what an entry warms next. The handler
it calls is kept as coarse as pre-warming can tell: answered from a file, or
after a flight (`Send`, `EndFlight`, `Receive`), or by its own fetch
(`FetchDirectly`), cut off by the context (`GiveUp`, `CancelDirect`), or refused
for its name (`Reject`: an unserved host, malformed coordinates). Flights and
direct fetches fail with upstream and, for archives, with the staging disk.
Requests of clients (`Serve`) read, write and remove the same files.

The `MC*` modules instantiate these for TLC. The `*_proofs` modules hold the
theorems.

## The runs

Each `.cfg` begins with a line that says what it bounds. Every passing run
explores its instance completely.

| Run | Instance | What it shows |
|---|---|---|
| `layered_overlap` | one replica, two overlapping callers, two uploads, tampering, both layers failing, evictions, crashes | `ForeignCopyIsChecked`: what other hands put into the bucket is in a local layer only while a call is about to find out, or was kept from it by a failure or a crash; `WarmHitVerified`: a `Get` returns bytes the verifier has not read only if another call wrote over the copy in between; `AckedStaysLocal`: a rejection removes an acknowledged object only in a `Get` that was under way when the `Put` returned; `UploadLands`: an upload that ends without failure leaves in the bucket something its replica has held since its `Put` |
| `layered_unverified` | two callers in one replica, nothing fails | violated: `DurableHitsVerified` |
| `local_store` | three `Put`s, two removals, two node crashes, any step failing | `NeverTorn`; `LostOnlyWithItsDirectory`: a crash takes an acknowledged object back only with a directory that a `Put` made; the refinement `IsObjectStore` |
| `local_new_directory` | two `Put`s, one removal, one node crash | violated: `AckedSurvives` |
| `zip_mirror` | three requests, every answer and body upstream can send, cache and staging disk failing, evictions, hang-ups | `OnlyVerified`, `RefusalsHaveACause`, `StagingIsClean`, the refinement `IsCoalesced`, `Answered` |
| `zip_stalled` | one request, a download that may stall | violated: `PopulationEndsWithItsRequests` |
| `versions_index` | two requests, TTL 1, three ticks, fetches of up to one tick, one new version | `LagIsBounded`, `CacheMovesForward`, `RevalidatedTracksFetches`, `DegradedMeansFailed`, `IsCoalesced` |
| `archives_index` | two requests, three platforms, two at a time, upstream failing or stalling | `IndexIsComplete`, `RefusalsHaveACause`, `IsCoalesced`, `FailureEndsBuild`, `LetGo` |
| `module_mirror` | two clients with one link each or none, links of half a second on a clock of half seconds, every kind of source, cache, upstream and staging disk failing, evictions, hang-ups | `RefusalsHaveACause`, `StagingIsClean`, `SecondDownloadHasACause`, `LinkLifetime`, `IsCoalesced` for both keys, `Answered` |
| `module_versions` | two requests for one or two modules, one of them cached by an earlier process, a registry with a path of its own; TTL 1, cooldown 2, two ticks; cache and registry failing, modules withdrawn, evictions, hang-ups | `DiscoveryIsCheap`: no more discoveries than the cooldown allows; `RefusalsHaveACause`; `IsCoalesced` for each module; `Answered`: through the mutex as well |
| `module_outage` | two requests, one module that may be cached, the registry failing, cooldown 1 | violated: `CachedSurvivesOutage` |
| `process` | a versions index, an archives index and a zip of 1, 5 and 5 bytes over a budget of 10; three entries, of which one does not parse, one has a host that is not served, and one wants a zip whose name is refused and another whose name is not; one at a time; one operation of a client, one tick; scans, removals, touches, writes, staging and upstream failing | `SweepKeepsBudget`, `EvictsOldestFirst`, `WarmFailuresHaveACause`, `StopEndsPrewarm` |

Why the bounds are enough. Two callers let one meet the other's half-done call;
a third adds no new kind of neighbour. Replicas meet only in the bucket, where
the other hands of `ChangeBucket` do at any moment more than another replica
could. Two uploads let a second `Put` start while the first's upload is still to
read or to send; with one published content (provider archives have one per key)
the two objects that can be told apart are that and a foreign one, which warming
puts in its place. The theorems cover any number of replicas, callers, uploads
and contents. Three `Put`s let an acknowledged one be overtaken by another and
overwritten by a third; the second node crash falls after the first was
recovered from. The key's directory may be there at first or have to be made.
Three requests for an archive are a leader, a follower and one that comes after
the population has ended. Three ticks with a TTL of one let an index be fetched,
be fresh, go stale and be fetched again. Three platforms over two slots leave
one waiting for a slot when the other two fail. Half seconds are the coarsest
clock on which a link can be handed out, and can expire, in the middle of a
second, and three instants of it reach past the end of a link's life; two
clients of a module let one wait for the location at the download endpoint while
the other's population waits for the same location inside the archive's. Two
modules let one fetch wait for the mutex that another's discovery holds; with a
cooldown of two in two ticks the second attempt is due at the last instant, and
only then. Three files that together are over the budget by one byte, of which
the smallest is not enough to reach the low-water mark, make the sweep remove
one or two depending on their order of use, and go on when a removal fails;
pre-warming writes and touches them at any point of the sweep, so one operation
of a client (a drop, say, which pre-warming never does) is enough to add the
rest. One slot for two entries makes the loop wait. Every fault switch that a
run turns on lets the fault happen at any step and any number of times.

`CHECK_DEADLOCK FALSE` is set where the modelled program does stop: each request
is served once, each `Put` is made once, and a process that was told to stop
winds down.

## Fairness

Safety runs assume none. For liveness:

* The Go scheduler runs what can run: weak fairness of a handler's next step and
  of the shared call's local steps. Nothing obliges a client to call or to hang
  up, an object to be evicted, a process to crash.
* `Answered` assumes that upstream answers and sends its bodies to the end
  (`UpstreamFairness` in ZipMirror, `WF(Fetch)` in ModuleVersions, and the steps
  of `Fairness` in ModuleMirror, where no client has to ask for a link or to
  follow it). That is an assumption: the transport's timeout covers the response
  headers only, and the code bounds no body. A download that stalls is what
  `zip_stalled` is about: there only cancellation ends a fetch. A discovery
  document whose body stalls would be read under the mutex for as long as it
  does, and every module request with it; `Answered` in `module_versions` shows
  that no path through the code keeps the mutex, not that.
* `archives_index` assumes nothing of upstream: a call returns only if its
  context is cancelled. Nor does `process`: the flights need not end, nor the
  evictor make progress, for pre-warming to return once it is told to stop.

## What is proved

`*_proofs` modules, all checked by TLAPS down to the last leaf, for every value
of the constants the assumptions allow.

| Theorem | Statement |
|---|---|
| `LayeredCache_proofs!TypeCorrect` | `Spec => []TypeOK`, in every regime |
| `LayeredCache_proofs!AckedTheorem`, `UploadTheorem` | `AckedStaysLocal`, `UploadLands`, with no hypothesis |
| `LayeredCache_proofs!WarmHitsTheorem`, `CheckedTheorem` | `WarmHitVerified`, `ForeignCopyIsChecked`, given a digest |
| `LayeredCache_proofs!SoloLocalHits`, `VerifiedWhenUndisturbed` | `LocalHitVerified`, and `DurableHitsVerified`, which `layered_unverified` finds violated, where calls of a replica do not overlap, and under further conditions (below) |
| `ZipMirror_proofs!TypeCorrect`, `OnlyVerifiedTheorem`, `RefusalsTheorem`, `StagingTheorem` | the invariants of `zip_mirror` |
| `ArchivesIndex_proofs!TypeCorrect`, `IndexIsCompleteTheorem`, `RefusalsTheorem` | the invariants of `archives_index` |
| `ModuleMirror_proofs!TypeCorrect`, `RefusalsTheorem`, `StagingTheorem`, `SecondDownloadTheorem`, `LinkLifetimeTheorem` | the invariants of `module_mirror`, and the action property `LinkLifetime` for every resolution of the clock and every life span |
| `VersionsIndex_proofs!TypeCorrect`, `RevalidatedTheorem`, `DegradedTheorem`, `LagTheorem`, `CacheTheorem` | the invariants of `versions_index`, and the action property `CacheMovesForward`, for every TTL and every duration of a fetch |
| `ModuleVersions_proofs!TypeCorrect`, `DiscoveryTheorem`, `RefusalsTheorem` | the invariants of `module_versions`, for any number of modules, TTL and cooldown |
| `ModuleVersions_proofs!OutageTheorem` | `CachedSurvivesOutage`, which `module_outage` finds violated, for every registry but one that serves at a path of its own |
| `CoalescingTheorem` in the `_proofs` modules of ZipMirror, VersionsIndex, ArchivesIndex, ModuleMirror and ModuleVersions | `Spec => IsCoalesced`: the refinement of Coalescing |
| `NobodyIsForgottenTheorem` in the same five | Coalescing's `NobodyIsForgotten`, through the mapping: who waits, waits for a call in flight |
| `Process_proofs!TypeTheorem`, `WarmTheorem`, `OrderTheorem`, `BudgetTheorem` | `TypeOK`, `WarmFailuresHaveACause`, and the action properties `EvictsOldestFirst` and `SweepKeepsBudget`, for any files, sizes and budget |
| `LocalStore_proofs!TypeCorrect`, `NeverTornTheorem`, `AckedTheorem` | `TypeOK`, and `NeverTorn` and `LostOnlyWithItsDirectory` of `local_store` |
| `LocalStore_proofs!Refinement` | `Spec => IsObjectStore` |

Every safety property that a passing run checks is the statement of one of
these. The type invariants are proved, so that only one run evaluates one as
well.

*LayeredCache.* Each of the four properties of `layered_overlap` has an
inductive invariant of its own, none of which bounds the callers or excludes a
fault. `AckedStaysLocal`: a `Get` that comes to warm has missed, so if the key
is `kept` while the call is under way, a `Put` has returned during the call.
`UploadLands`: while an upload has yet to read, what its replica holds is among
what it owes; what it sends is. `WarmHitVerified`: while a caller is about to
open the key again, its replica holds the copy its reader is on, or nothing, or
its `swapped` is set. `ForeignCopyIsChecked`: a step that puts foreign bytes
into a layer leaves its call to check them, and no call stops checking before it
has removed them or left the replica `abandoned`. The last two take
`DigestKnown` (verification is on and a digest can be had): an object without a
digest passes by design.

Two theorems describe a narrower deployment and are named for it. With
`OneAtATime` (no two calls of a replica for the key overlap) and `SoundDisk`
(the local disk does not fail and nothing crashes) as well, `LocalHitVerified`
holds; and if nothing fails or is evicted, so does what the comment of
`WithDurableVerifier` promises. The code enforces none of these: the theorems
say what a counterexample like that of `layered_unverified` takes.

*Coalescing.* The mapping takes the waiting to be those requests at the `select`
that no result has reached. Init maps to Init; then each action is one of
Coalescing, or leaves the mapped variables alone, given an invariant (`Joined`)
that relates the singleflight group to the positions of the requests: nobody is
at the `select` without being on its list or having been sent a result, and
nobody is on the list of a call that is not in flight. In ModuleMirror the
population of the archive is a caller of the location's call, so a step of one
key is shown to stutter on the other. ModuleVersions proves its refinement for
every module at once.

*ZipMirror.* The invariant adds to the properties that what is staged is still
being filled or has passed the digest check, and that what the population sent
has a cause. Each lemma treats one way a fetch or a request can end, and the
actions are cut along them.

*ArchivesIndex.* Cancellation comes only after a recorded failure; unless one
failed, every goroutine that ended has left its result; so past `wg.Wait` the
results are all platforms, and the first error is one of upstream's.

*ModuleMirror.* The argument is ZipMirror's, over two keys: what a population
sends has a cause, a waiter of a key is at the step that waits for it, and an
answer that names a source which cannot be hosted goes back to upstream's having
named one. Because a coalesced call can be joined from three places, the lemmas
follow the helpers (`Coalesce`, `Finish`, `Failed`, `Resolved`) and the actions
are cut along them. `LinkLifetime` needs a second, smaller invariant
(`LinksFit`): the link a client holds is the one for the moment it was handed
out. `SecondDownloadHasACause` has a third (`SecondInv`): the population reports
success only when the archive is in the cache or the cache has failed, and
whatever takes it away is recorded.

*VersionsIndex.* Waiters are requests that wait and have heard nothing, and one
of them leads (`Coalesced`). `Owed` collects the requests that have counted a
fetch or are going to; a fetch adds one to it when upstream answers, so it never
outnumbers the fetches. The lag is bounded by following the age of what is read:
a fetch under way is no older than `MaxFetch` and lists all that was published
before it began (`FetchIsRecent`), so the envelope lists all that is older than
its stamp by a fetch (`CacheIsRecent`), and so on to results and answers. As
what is fetched lists at least what is cached, a store moves the cache forward.

*ModuleVersions.* A fetch that discovers holds the mutex (`Excludes`), and the
number of attempts is at most one more than the cooldowns that fit before the
last failure, or before now while one is under way (`Spaced`). The refusals go
back along the paths: a path other than the registry's is used only after a
discovery failed (`PathsHaveACause`). A not-found that no withdrawal explains
takes a registry that serves at a path of its own (`NotFoundHasACause`), which
is what `OutageTheorem` excludes.

*Process.* While a sweep evicts, every file that it has not failed to remove and
that was not written since the sweep began is one it has sampled, at a time no
later than the file's last use (`Sampling`); so no such file was last used
before the time of the oldest sample. For the budget each file is given what the
total has to account for (`Counted`: once the walk has come to it its own size,
or that of its sample if it changed since), and the invariant (`Budget`) is that
the total is at least the sum. The sum is the cardinality of a set with one
element for each byte, so adding and removing a file is a fact about
cardinalities. A removal that succeeds takes as much from the sum as from the
total, one that fails takes from neither: a total at the low-water mark is a
cache at it. The same invariant keeps the total from going below zero. Failures
of pre-warming go back to the replies of the handler, which fail only for those
entries that upstream, the staging disk or their own names failed: an entry
whose request has been told of a failure is `troubled`, and no entry is `failed`
without, unless the process was told to stop.

*LocalStore.* A file that the key has named was fsynced before its rename, so no
crash tears it, and an acknowledged file that is still held sits in the part of
the history that is on disk, where only the loss of its directory reaches it.
The refinement maps initial states, then each step to a step of ObjectStore or
to a stutter; the place is `rooted` while the directory is on disk.

Assumptions on the constants are those the modules name (`NamesAssumption` and
so on): values that must differ do, switches are Booleans. TLC evaluates them in
every run.

Model-checked only: the liveness properties (`Answered`, `FailureEndsBuild`,
`LetGo`, `StopEndsPrewarm`), because liveness under fairness is beyond the
prover, and the four violated properties as they stand.

## Where code and documentation part

Four runs are expected to fail; each checks what a comment or a page says.

* `layered_unverified`: the verifier runs on the copy that warming has already
  published in the local layer, and until it has finished another request of the
  same replica gets that copy as a plain local hit. `layered.go:37` says every
  durable hit passes through the verifier before it is served. (The fallback
  `Direct`, taken when the local disk fails, does not verify either.)
* `zip_stalled`: `upstream.go:56` leaves the overall deadline to the request's
  context, and `handler.go:401` takes the request's context away.
* `local_new_directory`: `local.go:90` says a committed object survives a node
  crash whole. `MkdirAll` (`local.go:98`) makes the directories of a new key,
  and their entries in their parents are never fsynced: `syncDir` covers the
  last directory only. By what POSIX promises, a crash may lose a new directory
  and the acknowledged object in it; a journalling file system may happen to
  keep both. The cache then fetches the object again.
* `module_outage`: after a failed discovery the default API path is assumed; a
  registry that advertises another path answers 404 there, and a 404 is the one
  failure that overrides the last-known-good copy (`modules/handler.go:236`). So
  for the length of the cooldown modules that are cached, stale and alive are
  refused, while `modules/upstream.go:50` says a briefly unreachable registry
  must not stop terrastrata from serving what it already has cached.

Three more were met while modelling. They are about reporting, or about a step
after which no modelled promise breaks, and have no run: a copy that is evicted
before it could be verified is counted as an integrity failure
(`layered.go:138`); a client that hangs up is counted as `stale` or `error`,
which `mirror/handler.go:42` describes as upstream failures; and `Delete` does
not fsync the directory (`local.go:140`), so a node crash can bring back an
object that was dropped.

## What is not modelled

HTTP, JSON, logging and the layout of keys; coordinates are validated before the
modelled code sees them. The S3 client, the hash functions and the MAC are
libraries: an upload or a digest comparison is one step. The verifier's re-entry
into the cache for the archives index is reduced to its result. Time enters only
where the code compares times, and is one clock: replicas whose clocks differ
are left out. Metrics are left out but for the outcome that a property reads.
What repacking does to an archive is one outcome of copying it; a location that
changes after it was evicted, so that an archive in the cache and a new location
are of different kinds, is left out. Temporary files that a crash leaves behind
are outside the models. The end of the process is a crash in LayeredCache and
LocalStore; Process goes on for as long as its goroutines do. Configuration is
parsed once, before anything runs, and its results are constants of the models;
path validation, source parsing and the middleware are pure or wrap one request.

## The plan

Done: LayeredCache, LocalStore with ObjectStore, ZipMirror, VersionsIndex,
ArchivesIndex, ModuleMirror, ModuleVersions, Process with Evictor and Prewarm.
Next, in this order:

1. *Mirror over cache*: ZipMirror with the steps of LayeredCache in place of its
   atomic cache, and an abstract cache that both LayeredCache and the handlers'
   assumption refine.
2. Replicas with clocks of their own that share versions indexes through the
   bucket.

## Running it

    tlc -workers 2 -config ZipMirror.cfg MCZipMirror
    tlapm ZipMirror_proofs.tla
