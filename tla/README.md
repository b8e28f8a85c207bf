# A TLA+ verification of levels3

levels3 keeps a goleveldb database in an S3 bucket. `s3.S3Storage` implements
goleveldb's `storage.Storage` on top of `s3.S3ClientAPI`; `s3.S3Lock` is a lease
lock in the same bucket. The data path is short. What is hard is everything
around it: several hosts, S3 calls that fail after they took effect, processes
that end between two steps, and up to six copies of one file.

Paths are relative to the repository root; `lock.go`, `storage.go`, `client.go`,
`retry.go` and `config.go` are in `s3/`.

## 1. Inventory

| Component | State | Operations | Speaks to |
|---|---|---|---|
| `S3Lock` (lock.go) | `lockID`, `stopCh`, `leaseErrCh`; the LOCK object; the local LOCK file | `Lock`, `Unlock`, renewal goroutine | S3, local disk |
| `S3Storage`, lock side (storage.go:90-251, 1113-1161) | `lockHeld`, `lockLost`, `closed`, `ctx` | `Lock`, `Unlock`, `storageLocker.Unlock`, lease monitor, `Close` | `S3Lock`, recovery |
| Write path (storage.go:39-88, 436-579, 828-866) | writer buffers, local cache, pendingDir with `.cksum` files, shadow objects | `Create`, `Write`, `Sync`, `Close`, `uploadFile`, `persistToLocal`, `Remove` | S3, local disk |
| Background retry (storage.go:633-718, 959-1111) | list of files read, one goroutine per upload | ticker, last pass at `Close`, `uploadWithInfiniteRetry` | S3, pendingDir |
| `RetryPendingUploads` (storage.go:749-807) | none | one upload per directory entry, on the caller's goroutine, without `s.mu` | S3, pendingDir |
| Recovery in `Lock()` (storage.go:581-630, 1163-1291) | none | shadow to pending, pending to S3, cache to S3 | S3, local disk |
| CURRENT and manifests (storage.go:253-311, 1292-1573) | CURRENT | `SetMeta`, `GetMeta`, `cleanupOrphaned` and what it calls | S3, local disk |
| Reads (storage.go:339-434, 809-826) | LRU cache | `Open`, `List`, `HasPendingUploads` | S3, pendingDir |
| `Rename` (storage.go:868-957) | none | copy, read back, pending rename, delete | S3, local disk |
| `S3Client`, `WithRetry` (client.go, retry.go) | none beyond the call | nine calls, each a series of attempts under a deadline | AWS SDK |
| `OpenOption`, errors, `cmd/` | | defaults, declarations, tools | |

Who runs concurrently: goleveldb's goroutines (writer calls take no mutex;
`Create`, `Remove`, `SetMeta`, `Lock`, `Close` take `s.mu`), the renewal
goroutine and the monitor of each session, the background loop and its upload
goroutines, whoever calls `RetryPendingUploads`, and other processes, on this
host or on another.

What makes each part correct:

* **Lock.** Two processes do not hold it together; an owner that comes back after
  a crash finds its LOCK; a lost lease stops the writes; goroutines end.
* **Write path, retry and recovery.** A file whose `Sync` returned nil stays in
  S3 until `Remove`; a file that was kept after a failed upload has a copy
  somewhere until it is in S3; recovery does not bring back an older version;
  pending files get uploaded; `Close` returns.
* **CURRENT and manifests.** A database with commits is found again, with all of
  them; nothing deletes it.
* **Reads and `Rename`.** Whichever copy answers, it is what the last operation
  left; `List` names each file once; a `Rename` that is cut short loses nothing.
* **Client.** Every call returns; its answer was true at some moment of the call;
  a failure promises nothing.

`PROJECT.json` lists the hazards, each with its line and the properties that
watch it.

## 2. Modules

| Module | Models | Builds on |
|---|---|---|
| `LeaseMutex` | abstract: one holder until somebody acts on an outdated view | |
| `S3Lock` | lease lock, renewal, monitor, release, crash | refines `LeaseMutex` |
| `LockedStorage` | the lock with those who write under it: goleveldb's calls, upload goroutines, the recovery | `S3Lock` |
| `DurableTables` | abstract: a table is acknowledged when stored, erased only after it was given up | |
| `PendingUpload` | write path, pending and shadow copies, background loop, `RetryPendingUploads`, recovery, clean-up, relocking, hand-over | refines `DurableTables` |
| `CommitLog` | abstract: every session finds what was reported as committed, unless an older copy was put in its place | |
| `ManifestRecovery` | CURRENT, manifests, clean-up in `Lock()`, background loop, `GetMeta`, goleveldb's commit | refines `CommitLog` |
| `StorageView` | `Open`, `List`, LRU cache, `Rename`, with uploads, `RetryPendingUploads`, recovery, clean-up and other hosts | |
| `ObjectStore` | abstract: what an S3 call promises its caller | |
| `S3Client` | the calls with attempts, pages, sleeps, deadlines | refines `ObjectStore` |
| `MCS3Lock`, `MCLockedStorage`, `MCPendingUpload`, `MCManifestRecovery`, `MCStorageView`, `MCS3Client` | instances for TLC | |
| `S3LockProofs`, `LockedStorageProofs`, `PendingUploadProofs`, `RecoveryProofs` (on top of it), `ManifestRecoveryProofs`, `StorageViewProofs`, `S3ClientProofs` | theorems | |

`ObjectStore` is the floor of the project: the other modules let an S3 call
succeed, fail, or fail after its effect, and `S3Client` is shown to be such a
store. One thing `ObjectStore` allows and the other modules leave out: a request
that was given up and is processed after its call has returned (section 6).

Definitions called "Mutant" are faulty variants of the definition that follows
them. No action uses them; each shows that some property would notice the fault.

### S3Lock and LeaseMutex

A node is a process on a host; `Dir` says which nodes share a `LocalCacheDir`,
`Pid` is the set of process ids a process may get (at the start and after each
crash, so ids of two hosts may coincide). `remote` is the LOCK object, `local`
the LOCK files. `pc[n]` follows `S3Storage.Lock` and the release call by call:
each S3 call and each write of the local file is a step. Every put and delete
has three outcomes: `...Ok`, `...Fails`, and `...Lost`, in which the write takes
effect and the call goes on (a retry of `WithRetry`, or a later failure).

* `LockBegin`, `Exists`, `CheckHolder`, `CheckStale`, `CheckRefuses`, `LockFails`,
  `WriteLocal`, `PutLock*`: `S3Lock.Lock` and `acquireLock`.
* `RecoverOk`, `RecoverFails`: the rest of `S3Storage.Lock`. Before it returns,
  its clean-up may remove the local directory and with it the LOCK file of the
  lock in hand (`WipeDir`, storage.go:1543); the control points `wiped` and `bare`
  are those of a call and of a holder without the file.
* `StorageLockerUnlock` (the path goleveldb takes; it leaves `lockHeld` set),
  `StorageUnlock`, `Release*`: the two releases, each with a second attempt under
  a context of its own.
* `RenewTick`, `RenewOk`, `RenewLost`, `RenewFails`, `RenewStop`: one renewal
  goroutine per session. A renewal whose `stopCh` was closed before it started
  never runs, as in the code (`stopCh` is made once, in `NewS3Lock`).
* `MonitorFires`, `MonitorStops`, `Close`, `Crash`, `Tick`.

`isProcessRunning` is modelled by what it does. `process.Signal(os.Signal(nil))`
is an error for every process, so a LOCK with another pid is stale
(`IsLockStale`). Its comment says otherwise; run `LockAlive` is about that.

The protocol reads and then writes; it cannot exclude on its own. `breach`
records the first step that acted without knowing: `blindAcquire` (LOCK
changed between check and put), `blindRenew` (LOCK is not ours any more),
`blindRelease` (same), `staleLive` (the LOCK of a live claimant was found stale),
`sharedDir` (a process took another one's LOCK for its own through a shared
directory). The safety claim is that this list is complete. `LeaseMutex` states
it as a specification: holders come and go one at a time until `Break`; the
refinement maps `holders` to the nodes from the return of the put to the begin
of the release, `broken` to `breach # "none"`.

### LockedStorage

Each node gets a call of goleveldb (`api`), an upload goroutine (`bg`: test of
`lockHeld` and `lockLost` in the scan, of `lockLost` before each attempt) and the
recovery inside `Lock()`. The test and the writes it stands for are steps of their
own: between them the lease may go. One test covers several writes. `uploadFile`
tests once, puts (storage.go:489) and after a failure puts the shadow (565);
`Remove` deletes the shadow and the file; `Rename` copies, moves the shadow and
deletes the source, twice if need be (882-944); an upload goroutine puts and then
deletes the shadow. `OpWrites` has these numbers, `left` what is still to come
under the passed test, `late` counts the writes begun after `lockLost`. The bound
of `LateWritesBounded` is that of one operation, `Most`. The recovery tests
nothing (but for `removeAllOrphaned`, once): `RecoveryWrite` may come any number of
times, `adrift` remembers that one came after `lockLost`; run `RecoveryUnfenced`
is about that. goleveldb unlocks after its writers are done, so
`StorageLockerUnlock` waits for `api`; nobody waits for `bg`.

### PendingUpload and DurableTables

One file is enough to see all its copies: `main` and `shadow` in S3, `pend`,
`cksum` and `cache` on each host's disk, `buf` in the writer, `batch` and
`api.version` in the goroutines that have read it. The content of a file is its
version number; a table has one version, journals and manifests grow. `kind` is
chosen at the start. `Garbled` is a content that is no version (a checksum, or
half of one).

One process is alive at a time. It ends by `Crash` at any step, and the next
`LockAcquired(n)` may be on another host. It may also unlock (`Unlock`, phase
`free`) and lock again: the loop and its uploads are not stopped by that, and
`storageLocker.Unlock` leaves `lockHeld` set, so a recovery may run beside an
upload of older data. The history variable `beside` says whether the loop was
awake during the last `Lock()`; `acked`, `persisted`, `backed`, `gone`, `erased`
remember what the calls reported, `wiped` the files of which the clean-up in
`Lock()` has taken a copy. A second live process, whose uploads go on after it
has lost the lock, is the subject of `LockedStorage` (runs `StoreUnlocked` and
`RecoveryUnfenced`), which has no contents.

* Writer: `Create`, `Write`, `Sync` (also `Close`), `UploadOk`, `UploadFails`,
  `PersistData`, `PersistChecksum`, `PersistShadow`, `UploadDropsPending`,
  `UploadReturns`.
* `Remove`: `RemoveBegin`, `RemoveShadow`, `RemoveMain`.
* Loop: `BgTick`, `BgLastPass`, `BgRead` and `BgCheck` (data and checksum are two
  reads), `BgQueue`, `JobStart`, `JobTry`, `JobPutOk`, `JobPutFails`,
  `JobDropsPending`, `JobEnds`, `BgEnds`, `BgStops`.
* `RetryPendingUploads`: `ApiRead`, `ApiReadChecksum`, `ApiPut`,
  `ApiDropsPending`. `ApiReadChecksum` is there because `parseFileDesc` accepts
  `MANIFEST-000005.cksum` as `MANIFEST-000005`.
* Recovery: `LockAcquired`, `FetchShadow`, `RecoverScan`, `PushPending`,
  `PushDone`, `PushCache`, `LockFails`; then `cleanupOrphaned`, which may upload a
  manifest once more (`CleanupRestores`) or run `removeAllOrphaned`: `Wipe` takes
  any part of the disk, `WipeMain` what S3 lists; `LockReturns`. When the clean-up
  wipes depends on CURRENT, which `ManifestRecovery` models; here it may at any
  time.

`TornChecksum` says whether the write of a `.cksum` file may stop half-way; it is
an `os.WriteFile` (storage.go:547, 625), whereas data files are renamed into
place.

`DurableTables` forgets every copy but the object: tables are stored, synced,
given up, erased, and `Sync` acknowledges only what is stored (or what somebody
gave up meanwhile). A table is given up by `Remove` or by the clean-up in
`Lock()`.

### ManifestRecovery and CommitLog

The content of a manifest is the number of commits in it; `tables` is the last
commit whose tables are in S3. `SyncPending` and `SyncLocal` are the uploads of
`Lock()`, with every subset of files they may have reached and with files that
were uploaded and stay pending. `Consistent`, `VerifyFrom...`, `RecoverFrom...`,
`NothingToRecover`, `WipeLocal`, `WipeRemote` are `cleanupOrphaned` branch by
branch. `OpenExisting` and `CreateNew` are the answers of `GetMeta`.
`NewManifest`, `SetMeta`, `UndoManifest`, `RemoveOld` are goleveldb's
`newManifest`, which storage.go:56-60 and 216-219 describe; `AppendOk`,
`AppendFails` are a later commit. goleveldb is external: its part is what the
comments and the storage's own code rely on.

`LoopReads`, `LoopPuts`, `LoopGivesUp` are the background loop. It may read
pendingDir from the moment at which `Lock()` has set `lockHeld`, thus before
`GetMeta`, and may carry what it has in hand (`hand`) over a `CloseDB` into the
next `Lock()` of the process. A manifest that `syncPendingToS3` failed to put
stays pending, and the loop puts it over the newer one that `syncLocalToS3` has
put. `behind` names the manifests to which this has happened and that were not
replaced since; `NeverRolledBack` and `CommitLog` claim that nothing else makes an
open find fewer commits.

`Faults` adds what may go wrong beside calls that fail without effect:
`lostAnswer`, `eagerWrite` (storage.go:61-64), `cacheRead` (1188-1191),
`cleanShadow` (576-578). The loss of the lock inside `removeAllOrphaned` stops
that session's writes and is covered by `End`.

`CommitLog` knows a session, the commits it has (`version`) and the last one that
was reported as done. `Open` finds at least those; `Attempt` tries one more;
`Undo` gives up one that was not reported; `End` comes at any step. Between two
sessions an older copy may be put in front of the newest (`stale`, mapped to
`current \in behind`); then and only then an open may find fewer. A session of
`ManifestRecovery` runs from the answer of `GetMeta` (`InSession`) to `CloseDB` or
`End`; the clean-up, the removal of old manifests and the retries of `SetMeta` are
stutters.

### StorageView

A reader of a file has three sources: LRU cache, S3, pendingDir; `List` adds the
shadow objects, whose directory `parseS3Key` drops. `want[f]` is the set of
contents that the last `Create`, `Sync`, `Remove` or `Rename` leaves a reader to
expect (several after an error). `Answers(f)` is what `Open` may return,
`Listed(f)` how often `List` names the file. `Rename` goes step by step (`ren`),
with an error or the end of the process at each. `BgRead`, `BgPut`, `BgFails`,
`BgCleans` are the upload goroutine, `Corrupt` is the checksum test of
`readPendingFiles`, `ApiRead`, `ApiPut`, `ApiDrops` are `RetryPendingUploads`.
`Lock()` is `LockFetches`, `LockUploads`, `LockReturns`, or `LockWipes` when the
clean-up removes everything. `OtherWrites`, `OtherFails`, `OtherRecovers` are
another host's session, seen from here: it writes or removes, fails to and keeps
a pending copy and a shadow, or uploads a shadow of this host's. `Sync` and
`Remove` are one step here: their interleavings are those of `PendingUpload`; that
`os.Remove` of a pending file works is assumed in both.

There are situations in which the sources contradict each other. `cause` names
the first one; the properties claim that there are no others:

| `cause` | Situation |
|---|---|
| `staleUpload` | an upload goroutine or `RetryPendingUploads` puts what it has read, and the pending copy has changed or gone since (storage.go:790, 1084) |
| `renameSkipped` | `Rename` cannot read the copy back, and leaves the cache entries of both names (storage.go:887-895) |
| `renamePending` | the new name still has a pending copy, or the pending copy of the old name cannot be moved |
| `shadowLeft` | a shadow could not be deleted, which is only logged, and `List` counts it as a file |
| `corrupt` | a pending copy with a checksum that does not fit is deleted, and its shadow is not (storage.go:691-701) |
| `retryAPI` | `RetryPendingUploads` has uploaded a file and drops the pending copy, not the shadow (storage.go:789-803) |
| `wipe` | `removeAllOrphaned` removes pending copies, and their shadows stay (storage.go:1532-1573) |
| `otherHost` | another host has written while there were copies here, or has failed to and kept one |

### S3Client and ObjectStore

A call is `Invoke`, then for each attempt `Send`, a step of S3 (`ServeWrite`,
`ServeRead`, `ServePage`), and the reception of the answer, or `Lose`; between
attempts `WakeUp` ends the sleep. `Expire` is the deadline of `operationContext`;
`Cancelled` the tests of the context. A write whose sender has given up may stay
on its way (`stray`) and be processed later (`LateEffect`). `List` collects pages
that are computed at different moments; each attempt starts a new list.
`PutBytesIfNotExists` is a head request and then a put. `CalcBackoff` works in
two's complement of `Width` bits. `window[c]` collects the contents each key had
since the call began, `effect[c]` whether its own write was processed;
`ObjectStore!Truthful` says with them which answers a call may give.

## 3. Runs

`CHECK_DEADLOCK FALSE` is set where the system may really stop: a closed storage,
or all bounded calls used up.

| Run | Shows | Bounds |
|---|---|---|
| `LockPair` | `LockInv`, `HolderIdentifiable`, `LeftoverIsOwn`, `ExclusiveUnlessBreach`, `ImplementsMutex` | two hosts, two pids (symmetric), one node locks twice; every lease is over as soon as the clock moves; up to the first blind step; one storage is closed (`OneCloses`) |
| `LockLive` | `FencingInv`, `RenewedOrFenced`, `LateWritesBounded`, `LeaseLossFences`, `RenewalEnds`, `WritesCease` | one node, two sessions, with its calls and its upload goroutine; the clock moves between the two |
| `UploadTable` | `TableInv`, `TableNeverLost`, `PersistedTableKept`, `BackedTableKept`, `ImplementsDurableTables` | two hosts (symmetric), a table or a manifest, one version, all actors; a manifest has copies on one host (`ManifestsAtHome`) |
| `UploadLive` | `RecoveryInv`, `CachedCopyKept`, `RecoveryRestoresAcked`, `RemovedStays`, `PendingDrains`, `CloseReturns` | one host, a journal of two versions, torn checksums; up to the end of the first session that began beside a busy loop (`OneOverlap`), and until the file is both removed and wiped (`OneEnd`) |
| `ManifestOne` | `OneHostInv`, `NoWipe`, `NeverRecreated`, `NeverRolledBack`, `ImplementsCommitLog` | one host, 4 manifests, 5 commits; a shadow may stay |
| `ManifestFaults` | `SessionInv`, `CommittedReachable` | two hosts, 2 manifests, 2 commits, lost answers, unreadable caches, shadows that stay |
| `View` | `ViewInv`, `ReadsExpected`, `ListExact`, `RenameKeeps` | a table and a temporary file (symmetric), two writes; up to the first contradiction |
| `Client` | `ClientInv`, `BackoffArgumentPositive`, `ImplementsObjectStore`, `CallsReturn` | a writer and a reader, one call each at a time, two names, three attempts, 4-bit durations |
| `LockAlive` | violates `StaleOwnerDead` | two nodes, two pids, lease not expired |
| `UploadRemoved` | violates `NoUploadOfRemoved` | one host, one table |
| `StoreUnlocked` | violates `NoUploadWithoutLock` | one node, one session |
| `RecoveryUnfenced` | violates `RecoveryFenced` | one node, one session |

Why the bounds are enough. Exclusion and the life of a LOCK id concern two
nodes; two sessions of one node are what the once-only `stopCh` and the
left-over LOCK need. The copies of a table do not interact with those of another
file except through the order and number of uploads (`Concurrency`, `Priority`),
which one file does not exercise. Two hosts are the least for shadows, and a
third adds no new relation. A second version, which a checksum, a cache or an
upload may be behind, is in `UploadLive`. For manifests, three numbers allow the
rotation of a rotated manifest, and `ManifestOne` has four. Two names are what a
`Rename`, a copy and a list of two pages need; two writes let a file be written,
and replaced here or by another host. Four bits overflow at the second attempt.
Sessions and crashes are not bounded in `PendingUpload`, `ManifestRecovery` and
`StorageView`. The proofs of section 5 remove the bounds.

`Unbroken` (run `LockPair`) and `Consistent` (run `View`) stop a behaviour after
the blind step or the contradiction. Most properties of the two runs claim
something only as long as none has happened; for the others (types,
`HolderIdentifiable` and `LeftoverIsOwn`) the theorems of section 5 hold without
the constraint. `LeftoverIsOwn` is evaluated in the first state after a breach as
well. `OneCloses`, `ManifestsAtHome`, `OneOverlap`, `OneEnd` and
`ClockBetweenCalls` keep the runs within minutes. The safety properties they
bound are theorems without them. Of the liveness properties, `PendingDrains` and
`CloseReturns` are checked up to `OneOverlap` and `OneEnd` only, and the three of
`LockLive` with `ClockBetweenCalls`, whose clock no renewal, monitor or writer
reads. Where a constraint cuts a behaviour off, TLC has checked its safety and
not what it would do for ever.

### What the four violations say

* **LockAlive.** Process 1 holds the lock, its lease is running. Process 2 reads
  LOCK, sees another pid, `isProcessRunning` is false, and it takes the lock
  over. lock.go:229-230 describes the check as one that recognises
  definitely-dead processes.
* **UploadRemoved.** `Remove` deletes the pending file so that the background
  does not upload it again (storage.go:849). The goroutine that has already read
  it does.
* **StoreUnlocked.** The scan of the background loop is to upload nothing without
  the lock (storage.go:1000-1001), and asks `lockHeld`. `storageLocker.Unlock`
  leaves the flag set, so scans go on after the release.
* **RecoveryUnfenced.** `Lock()` starts the monitor before its recovery so that a
  lost lease forbids the writing (storage.go:200-201). The renewal fails, the
  monitor sets `lockLost`, and the recovery puts the next file: neither
  storage.go:1195 nor 1256 tests the flag.

### What does not hold

Stated as weaknesses of the code, each seen in a counterexample when the
condition named here is lifted:

* The lease is never extended: `renewLease` (lock.go:208-210) writes the id with
  the time of `Lock()`. A holder of any age beyond `LeaseDuration` looks expired,
  so `staleLive` breaches need no failure. `stopCh` is closed once, so the lock
  of a second session is not renewed at all; `RenewedOrFenced` is about a first
  session for that reason.
* The clean-up in `Lock()` removes the LOCK file of the lock in hand, by default
  pendingDir, and every table S3 lists, acknowledged or not. It does so on a host
  that has not the manifest CURRENT names, after a lost answer, and on a database
  without CURRENT that has a shadow. `TableNeverLost`, `PersistedTableKept`,
  `BackedTableKept`, `CachedCopyKept` and `HolderIdentifiable` have it as a named
  exception. After it a crashed owner waits for its own lease like a stranger.
* `RetryPendingUploads` (storage.go:749-750) goes through the `.cksum` files too,
  and `parseFileDesc` takes the one of a manifest for the manifest: the checksum is
  put over the manifest. `OnlyWrittenContent` fails with `CallsRetryAPI`; the
  theorem `OnlyTheAPIWritesGarbage` says that nothing else does this.
* `PersistedTableKept` fails with `TornChecksum = TRUE`: an upload fails,
  `persistToLocal` stores the table and fails to write its checksum completely,
  which is only logged; the next scan finds a mismatch and deletes the table.
* `RecoveryRestoresAcked` needs one host, no `RetryPendingUploads` during `Lock()`
  and a loop at rest: on another host the cache that repairs an older pending or
  shadow copy is missing, and an upload that a process carries over from before
  its `storageLocker.Unlock` may put older data after the cache. `CachedCopyKept`
  says what is left: some host has it.
* `RemovedStays` has exceptions by name: the upload that was under way, the shadow
  that could not be deleted, and a `Lock()` that ran beside a busy loop; on several
  hosts the copies of the other one bring the file back too.
* A pending version may be lost while the loop has another one in hand, or to a
  checksum that does not fit; `PendingDrains` names both.
* `NoWipe` and `NeverRecreated` need one host: after a rotation the manifest is
  only in the cache of the host that made it. They need that `SetMeta` does not
  lose its answer: goleveldb then removes the manifest that CURRENT names.
* `removeAllOrphaned` is a last resort (storage.go:1526-1528). One put without
  answer during the recovery of CURRENT (storage.go:1406-1415) suffices to enter
  it, with a complete manifest in the cache.
* A failed commit leaves an older manifest pending. When `Lock()` cannot upload it,
  the background loop puts it over the newer one, also before the open
  (storage.go:224, 1084): the open finds fewer commits. `NeverRolledBack`,
  `OneHostInv` and `ImplementsCommitLog` have this (`behind`) as their only
  exception.
* `NeverRolledBack` fails with `eagerWrite` (an old cached manifest goes over the
  newer one) and with `cacheRead`; `CommittedReachable` fails with `eagerWrite`.
* Past a `cause`, `Open` may return an older content or a removed file, and
  `List` may name a file twice. `Create` puts an entry with nil data into the
  cache, so an `Open` between `Create` and the first successful `Sync` reads an
  empty file; the model lets a reader expect anything then.
* A manifest may reach S3 before the tables it names: uploads start in the order
  of priority, but in parallel, and one that was given up is followed by the next.

## 4. Fairness

`S3Lock!Fairness`, which `LockedStorage!FairnessAll` repeats over its variables:
the monitor runs when an error waits (weak); a put of a renewal ends, with or
without success (weak); a `select` that finds `stopCh` closed each time it comes
round takes it in the end (strong, for Go's `select` chooses at random and the
ticker may be ready as well). No fairness is assumed for `Lock`, `Unlock` or the
clock. `FairnessAll` adds that a writer past its test and an upload goroutine go
on and that their S3 calls end (weak; the deadline of `operationContext`, which
`CallsReturn` is about). It does not say that they succeed.

`PendingUpload!Fairness`: the steps of the loop and its goroutines are weakly
fair. Strong fairness is assumed of `BgLastPass` (the same `select`) and of
`JobPutOk`: an upload that is retried for ever succeeds in the end, which is
what `RetryMaxDuration = 0` is for and what `PendingDrains` states. The writer,
`Remove`, `Lock` and crashes are not fair.

`S3Client!Fairness`: time passes (`Expire`), and a goroutine whose deadline is
over runs: it sees the context, or the SDK gives the request up. S3 need not
answer, and an answer that is there need not be read.

## 5. Proofs

| Theorem | Statement |
|---|---|
| **`S3LockProofs`** | every set of nodes, pids and directories, every bound |
| `TypeCorrect`, `LockInvHolds` | `Spec => []TypeOK`, `Spec => []LockInv` |
| `ExclusionHolds` | `Spec => []ExclusiveUnlessBreach` |
| `HolderFindsItsLock` | `Spec => []HolderIdentifiable` |
| `LeftoversAreOwn` | `Spec => []LeftoverIsOwn` |
| `LockIsMutex` | `Spec => ImplementsMutex` |
| **`LockedStorageProofs`** | the same |
| `ComposedImplementsLock` | `SpecAll => Spec` |
| `FencingHolds`, `FewLateWrites` | `SpecAll => []FencingInv`, `SpecAll => []LateWritesBounded` |
| `LossIsSeen`, `ErrorsAreHeard` | `SpecAll => []RenewedOrFenced`, `SpecAll => []ErrorHeard` |
| **`PendingUploadProofs`** | every set of hosts and files, every number of versions, every option |
| `TableInvHolds`, `SyncedTablesStay`, `BackedTablesStay` | `Spec => []TableInv`, `[]TableNeverLost`, `[]BackedTableKept` |
| `PersistedTablesStay` | `~TornChecksum` implies `Spec => []PersistedTableKept` |
| `WritePathIsDurable` | `Spec => ImplementsDurableTables` |
| **`RecoveryProofs`** | the same |
| `RecoveryInvHolds`, `CachedCopiesStay` | `Spec => []RecoveryInv`, `Spec => []CachedCopyKept` |
| `LockRestoresAcked`, `RemovedStayAway` | one host, `~CallsRetryAPI`: `Spec => RecoveryRestoresAcked`, `Spec => RemovedStays` |
| `OnlyTheAPIWritesGarbage` | `~CallsRetryAPI` implies `Spec => []OnlyWrittenContent` |
| **`ManifestRecoveryProofs`** | every number of manifests and commits |
| `SessionInvHolds`, `SessionsAreFound` | without `eagerWrite`: `Spec => []SessionInv`, `Spec => []CommittedReachable`, any hosts |
| `OneHostKeeps`, `NothingWiped`, `NothingRecreated`, `NothingRolledBack` | one host, no fault but `cleanShadow`: `OneHostInv`, `NoWipe`, `NeverRecreated`, `NeverRolledBack` |
| `SessionsAreALog` | under the same conditions `Spec => ImplementsCommitLog` |
| **`StorageViewProofs`** | every set of files, every number of writes |
| `ViewInvHolds`, `ReadsAreExpected`, `ListIsExact`, `RenameIsSafe` | `Spec => []ViewInv` and the three other properties of run `View` |
| **`S3ClientProofs`** | every set of callers, names, contents, every number of attempts and width |
| `ClientInvHolds`, `BackoffIsPositive` | `Spec => []ClientInv`, `Spec => []BackoffArgumentPositive` |
| `ClientIsObjectStore` | `Spec => ImplementsObjectStore` |

The assumptions are those the modules name: `BoundsAssumption` (the bounds are
naturals, `Quota` does not exceed `MaxIds`), `NoLockAssumption` (absence is no
id), `FilesAssumption` (a table is written once, other files any number of
times), `OptionsAssumption`, `ViewAssumption` and `ClientAssumption` (attempts
and delay are positive, as `ApplyDefaults` makes them; the powers of two that
the back-off uses are naturals, which the prover does not know), and the
assumption of `ManifestRecovery` on its bounds.

**The lock.** `ExclusiveUnlessBreach` is not inductive. That a holder's id is in
S3 (`HolderOwnsLock`) survives another node's put only if that node's check
cannot have seen the holder's id, which is `ClaimUnseen`; and this survives the
moment at which an id is claimed only if nobody saw it before, which is
`FreshIdUnseen`; and a new id is unseen because the numbers in S3 and in the
checks never run ahead of their owner (`SeenKnown`, `OwnIdKnown`). `LockInv` is
the conjunction with `TypeOK`. The proof has one lemma per group of actions
(`CoreAcquire`, `CorePut`, `CoreRelease`, `CoreRenew`, `CoreRest`); `NotBlind`
turns "no breach afterwards" into "this step was not blind".
`HolderIdentifiable` is inductive given `TypeOK`. `LeftoverIsOwn` is the other
direction: a file in a directory of one's own has an id of one's own
(`FilesNext`), and the call that owns a claimed id is no other than the one that
would be checking (`OwnIdKnown`), so a `sharedDir` breach needs a shared
directory. `LockIsMutex` shows that every
step acquires, releases, breaks or stutters; that an acquisition finds no other
holder is `ExclusiveUnlessBreach` after the step.

**The fencing.** Each step of the composition is a step of the lock or leaves its
variables alone, so `S3Lock`'s theorems carry over. `FencingInv` says why the late
writes are few: after the loss no test passes any more, so what an actor has
written since and what it may still write (`left`) come from the one test it had
passed, and together stay within one operation. `ErrorHeard` (an error in `leaseErrCh` has a waiting monitor,
or the writes are fenced) is the safety half of `LeaseLossFences`; only that the
monitor runs is left to fairness. It rests on `MonitorWaits`: each holder and each
renewal goroutine has a monitor until one has fired.

**The tables.** `TableNeverLost` and its two companions are not inductive either.
A step that puts a table into S3 must put the table and not an empty file, so
every copy on its way must be one: `InHand` for the writer, the goroutines and
`Lock()`, `ReadKnown` for what the scan and `RetryPendingUploads` have read. The
recovery has a list of its own (`found`), for the loop may be at work beside it;
only that of a new process rests until its first `Lock()` returns (`LoopRests`).
And a step that drops a pending copy or a
shadow must come after the put: `Uploaded(f)` implies that the table is in S3
(`Safe`). `RemoverKnown` excludes the files of `Remove` and of the clean-up: who
erases a table has given it up (`GivenUp`). The proof has a lemma
for what each kind of write leaves (`DropLeaves`, `MainWritten`, `ShadowCleaned`
and others) and one for each actor (`WriterKeeps` to `SessionKeeps`).

**The recovery of journals and manifests.** A journal has several versions, so
pending and shadow copies may be older than S3, and `Lock()` does put them there
on its way. What saves it is the last step, the upload of the cache.
`RecoveryRestoresAcked` therefore needs that the cache has every acknowledged
version (`CachesHold`: a version is in the cache before its upload begins, and one
host has it and no other has the file), and that the upload of the cache leaves
none behind it (`RestoreUnderway`: what was uploaded stays, for nobody else
writes during a `Lock()` beside a loop at rest). `SessionRests` says that no writer and no `Remove`
outlives its session. Two conditions are the code's own. `CachesHold` holds on any
number of hosts, but only one host has the copy, so the theorem about `Lock()` is
for one host. And `RetryPendingUploads` or an upload carried over from before an
`Unlock` may put an older copy during `Lock()`, after the cache was uploaded, so
the calls are excluded and the loop is at rest (`beside`). `RemovedGone`, for
`RemovedStays`, says what `Remove` leaves: no cached copy, and a pending one only
if a shadow stayed from which `syncFromShadow` fetched it. For tables the first
theorem is `TableNeverLost`. `TableInv` is used throughout.

**The manifests.** `SessionInv` follows a session: from its first write on, its
manifest is in the cache of its node, and CURRENT names it before the session
goes on. `OneHostInv` adds what one host keeps between sessions: CURRENT and the
cache have the commits, and after the cache was uploaded S3 has them until the
loop puts an older manifest there. That manifest is one all the same, so the
clean-up never finds it missing and never wipes (`LoopKeeps`, `LoopLeaves`).
`SessionsAreALog` maps each step: an open finds the commits (`OpenMaps`, which
uses `NeverRolledBack` and that a new database is made only where nothing was
committed, `CreatesOnlyEmpty`), a commit is an attempt, a report or an undo
(`CommitMaps`), and everything in `Lock()` and in the loop is a stutter or puts
one copy in the place of another (`LockMaps`, `LogUpload`, `EndMaps`).

**The view.** `ViewInv` says that each source by itself has what a reader may
expect (`SourcesAgree`) and, for the middle of a `Rename`, that the old name
keeps the file until the new one has it in every source (`RenameHalfway`). It has
one lemma per action.

**The client.** `ClientInv` says of a call under way that what it has collected
was true: the list up to its continuation token (`ListSoFar`), the page on its
way (`PageTrue`), the answer of a read. The refinement maps the steps of S3 to
`Effect` and `LateEffect`, a lost request to `Abandon`, and every return to
`Return` with a truthful answer.

Only model-checked: all liveness (`LeaseLossFences`, `RenewalEnds`,
`WritesCease`, `PendingDrains`, `CloseReturns`, `CallsReturn`), for the prover
does not do fairness. Every invariant, action property and refinement of the
passing runs has a theorem.

## 6. Not modelled

* `OpenOption`: defaults and validation are straight-line code. The models take
  from them which values a constant may have. Two documented settings have no
  effect: `PendingShadowPrefix` "" becomes the default one (config.go:99) and
  `EnableLocalPersistence` FALSE becomes TRUE (config.go:89).
* `errors.go`, the package documentation and the tools in `cmd/`: no state.
* `HasPendingUploads`, which reads pendingDir and changes nothing.
* `checkPendingPressure` and the callback `OnPendingWarning`, which belong to the
  application.
* A `Lock()` of a process that already holds the lock.
* Two processes alive at the same time in `PendingUpload` and `ManifestRecovery`:
  a late upload of a process that has lost its lock, on its own files or on those
  of the next owner. `LockedStorage` says when there may be one, and how many.
* The other host's `Rename` in `StorageView`.
* `.tmp-*` files that a crash leaves in the cache, and which `syncLocalToS3`
  uploads; other disk errors than the ones named above.
* `Rename` of journals and manifests with their local cache
  (storage.go:946-953): goleveldb renames rebuilt tables only.
* `NewS3Client` (one HeadBucket) and the building of key names.
* Outside `S3Client`: a request that was given up and is processed later than its
  call. The lock and the storage are modelled with effects inside the call.
* Two files at once in `PendingUpload`'s runs (its proofs are for any number).

## 7. Plan

1. Late requests (`stray`) in `S3Lock`: a further kind of breach, for a late
   renewal or delete.
2. `LockedStorage` with the contents of `PendingUpload`: two hosts writing at the
   same time after a breach, and what a late put of the first one does to
   manifests and tables of the second.
3. `PendingUpload` with two files and the dependency of a manifest on its tables,
   if the code comes to order their uploads.
4. Proofs: the invariants behind the other liveness properties, as `ErrorHeard` is
   behind `LeaseLossFences` (why the loop's goroutines see the stop, which pending
   file the next scan takes up), so that only the fairness is left to TLC;
   `StorageView` as a refinement of a map from files to contents.
