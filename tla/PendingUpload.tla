---------------------------- MODULE PendingUpload ----------------------------
(***************************************************************************)
(* The write path of S3Storage (storage.go): a file is buffered, uploaded  *)
(* on Sync and, when the upload fails, kept in the local pending directory *)
(* with a checksum and in S3 under the shadow prefix.  A background loop   *)
(* and the recovery in Lock() upload what is pending; Remove deletes all   *)
(* copies.  Journals and manifests also have an eager local cache, which   *)
(* Lock() uploads last, before its clean-up of orphans, which may remove    *)
(* everything.                                                             *)
(*                                                                         *)
(* One process is alive at a time (module S3Lock is about the lock).  It   *)
(* may unlock and lock again, with the loop still at work, and crash at    *)
(* any step; the next one may run on another node, with another disk.  The *)
(* content of a file is its version: Create makes the first one, an empty  *)
(* buffer, Write the next, 0 is no file.  An S3 call succeeds, fails, or   *)
(* fails although it took effect.                                          *)
(***************************************************************************)
EXTENDS Naturals, FiniteSets

CONSTANTS
    Node,           \* hosts, each with a disk
    File,           \* files of the database
    Kinds,          \* file -> what it may be: table, journal, manifest
    MaxVersion,     \* file -> number of versions; 1 for a table, written whole
    Concurrency,    \* PendingMaxConcurrency
    RetriesBounded, \* RetryMaxDuration > 0: an upload may be given up
    CallsRetryAPI,  \* the application calls RetryPendingUploads
    TornChecksum,   \* the write of a .cksum may stop half-way (os.WriteFile)
    None            \* no file

ASSUME FilesAssumption ==
    /\ IsFiniteSet(File)
    /\ MaxVersion \in [File -> Nat \ {0}]
    /\ Kinds \in [File -> SUBSET {"table", "journal", "manifest"}]
    /\ \A f \in File : "table" \in Kinds[f] => MaxVersion[f] = 1
    /\ None \notin File

ASSUME OptionsAssumption ==
    /\ Concurrency \in Nat \ {0}
    /\ RetriesBounded \in BOOLEAN
    /\ CallsRetryAPI \in BOOLEAN
    /\ TornChecksum \in BOOLEAN

VARIABLES
    kind,       \* file -> what it is
    main,       \* S3: file -> version
    shadow,     \* S3: file -> version under the shadow prefix
    pend,       \* node -> file -> version in pendingDir
    cksum,      \* node -> file -> version its .cksum was computed from
    cache,      \* node -> file -> version in localDir
    node,       \* where the present session runs
    phase,      \* "down", "free" without the lock, the parts of Lock(), "open"
    todo,       \* files the present part of Lock() has still to do
    found,      \* file -> version that the recovery has read from pendingDir
    batch,      \* file -> version that the loop has read from pendingDir
    lockLost, lockHeld, closed,     \* S3Storage fields
    writer,     \* file -> where its memWriter is
    buf,        \* file -> version in the memWriter's buffer
    remover,    \* the file Remove works on and its step
    bg,         \* the background loop
    final,      \* the loop is in its last pass
    unread,     \* files of the directory listing not yet read
    cur,        \* file being read and the version that was read
    job,        \* file -> its upload goroutine
    api,        \* RetryPendingUploads: file, version and step
    acked,      \* history: file -> version of the last Sync that returned nil
    persisted,  \* history: table -> the version that persistToLocal kept
    backed,     \* history: table -> the version put under the shadow prefix
    gone,       \* history: files on which Remove was called
    erased,     \* history: files for which Remove returned nil
    wiped,      \* history: files of which the clean-up in Lock() took a copy
    beside      \* history: the loop was awake during a Lock(): never, before
                \* the last one, or now

s3Vars      == <<main, shadow>>
diskVars    == <<pend, cksum, cache>>
sessionVars == <<node, phase, todo, found, beside>>
flagVars    == <<lockLost, lockHeld, closed>>
writerVars  == <<writer, buf>>
scanVars    == <<bg, final, unread, cur, batch>>
loopVars    == <<scanVars, job>>
histVars    == <<acked, persisted, backed, gone, erased, wiped>>
vars == <<kind, s3Vars, diskVars, sessionVars, flagVars, writerVars, remover,
          loopVars, api, histVars>>

\* What the steps of one part leave alone
outsideWriter == <<kind, sessionVars, flagVars, remover, loopVars, api>>
outsideRemove == <<kind, sessionVars, flagVars, writerVars, loopVars, api>>
outsideLoop   == <<kind, sessionVars, flagVars, writerVars, remover, api,
                   histVars>>
outsideApi    == <<kind, sessionVars, flagVars, writerVars, remover,
                   loopVars, histVars>>
outsideLock   == <<kind, flagVars, writerVars, remover, api, histVars>>

Versions == [File -> Nat]
Nothing == [f \in File |-> 0]
Idle == [file |-> None, version |-> 0, step |-> "none"]
NoRemove == [file |-> None, step |-> "none"]
NoRead == [file |-> None, version |-> 0]

\* A content that is no version of the file: a checksum, or a part of one.
Garbled(f) == MaxVersion[f] + 1

\* Mutant: only manifests are cached.
CachesManifests(f) == kind[f] = "manifest"

Cached(f) == kind[f] # "table"          \* shouldCacheLocally

\* pendingFilePriority
Priority(f) == CASE kind[f] = "table"    -> 0
                 [] kind[f] = "journal"  -> 1
                 [] kind[f] = "manifest" -> 2

WriterAt == {"none", "idle", "put", "persist", "cksum", "shadow",
             "rmpend", "clean", "closed"}
JobAt == {"none", "queued", "try", "put", "rm", "clean"}

KindChoices == {k \in [File -> {"table", "journal", "manifest"}] :
                    \A f \in File : k[f] \in Kinds[f]}

Contents == {g \in Versions : \A f \in File : g[f] <= MaxVersion[f]}

StoreTypeOK ==
    /\ main \in Versions /\ shadow \in Contents
    /\ pend \in [Node -> Contents] /\ cache \in [Node -> Contents]
    /\ cksum \in [Node -> Versions]
    /\ \A f \in File :
           /\ main[f] <= MaxVersion[f] \/ kind[f] = "manifest"
           /\ TornChecksum \/ \A n \in Node : cksum[n][f] <= MaxVersion[f]

CopyTypeOK ==
    /\ found \in Contents /\ batch \in Contents /\ buf \in Contents
    /\ acked \in Contents /\ persisted \in Contents /\ backed \in Contents

ControlTypeOK ==
    /\ kind \in KindChoices
    /\ node \in Node
    /\ phase \in {"down", "free", "shadow", "push", "cache", "wipe", "open"}
    /\ todo \in SUBSET File
    /\ lockLost \in BOOLEAN /\ lockHeld \in BOOLEAN /\ closed \in BOOLEAN
    /\ writer \in [File -> WriterAt]
    /\ remover \in [file : File \cup {None},
                    step : {"none", "clean", "delete"}]
    /\ bg \in {"sleep", "read", "check", "run", "stopped"}
    /\ final \in BOOLEAN
    /\ unread \in SUBSET File
    /\ cur \in [file : File \cup {None}, version : Nat]
    /\ job \in [File -> JobAt]
    /\ api \in [file : File \cup {None}, version : Nat,
                step : {"none", "put", "rm"}]
    /\ gone \in SUBSET File /\ erased \in SUBSET File /\ wiped \in SUBSET File
    /\ beside \in {"never", "before", "now"}

TypeOK == StoreTypeOK /\ CopyTypeOK /\ ControlTypeOK

Init ==
    /\ kind \in KindChoices
    /\ main = Nothing /\ shadow = Nothing
    /\ pend = [n \in Node |-> Nothing]
    /\ cksum = [n \in Node |-> Nothing]
    /\ cache = [n \in Node |-> Nothing]
    /\ node \in Node /\ phase = "down" /\ todo = {}
    /\ found = Nothing /\ batch = Nothing
    /\ lockLost = FALSE /\ lockHeld = FALSE /\ closed = FALSE
    /\ writer = [f \in File |-> "none"] /\ buf = Nothing
    /\ remover = NoRemove
    /\ bg = "sleep" /\ final = FALSE /\ unread = {} /\ cur = NoRead
    /\ job = [f \in File |-> "none"]
    /\ api = Idle
    /\ acked = Nothing /\ persisted = Nothing /\ backed = Nothing
    /\ gone = {} /\ erased = {} /\ wiped = {} /\ beside = "never"

-----------------------------------------------------------------------------
(* Helpers                                                                 *)

\* A write of S3 whose caller gets an error: done or not.
MaybePut(store, store1, f, v) == store1 \in {store, [store EXCEPT ![f] = v]}

OnDisk(g, f, v) == [g EXCEPT ![node][f] = v]

PendingFiles == {f \in File : pend[node][f] # 0}

\* Mutant: a file without a checksum counts as corrupt.
ChecksumRequired(f, v) == cksum[node][f] = v

\* readPendingFiles takes a file whose checksum is the one of its data, and one
\* without a checksum.
ChecksumFits(f, v) == cksum[node][f] \in {0, v}

\* The write of a checksum: done, not done, or half-way; nobody looks.
WriteChecksum(f, v) ==
    \/ cksum' \in {cksum, OnDisk(cksum, f, v)}
    \/ TornChecksum /\ cksum' = OnDisk(cksum, f, Garbled(f))

DropPending(f) ==
    /\ pend' = OnDisk(pend, f, 0)
    /\ cksum' = OnDisk(cksum, f, 0)

\* cleanShadow is best effort.
CleanShadow(f) == MaybePut(shadow, shadow', f, 0)

Up == phase = "open"
Running == phase # "down"
Recovering == phase \in {"shadow", "push", "cache", "wipe"}

-----------------------------------------------------------------------------
(* The writer of a file: Create, Write, Sync and Close                     *)

Create(f) ==
    /\ Up /\ ~closed /\ ~lockLost
    /\ writer[f] = "none"
    /\ writer' = [writer EXCEPT ![f] = "idle"]
    /\ buf' = [buf EXCEPT ![f] = 1]
    /\ UNCHANGED <<s3Vars, diskVars, histVars, outsideWriter>>

\* The eager write of the local cache may fail, which is only logged.
Write(f) ==
    /\ Up
    /\ writer[f] = "idle"
    /\ buf[f] < MaxVersion[f]
    /\ buf' = [buf EXCEPT ![f] = @ + 1]
    /\ IF Cached(f) THEN cache' \in {cache, OnDisk(cache, f, buf'[f])}
                    ELSE UNCHANGED cache
    /\ UNCHANGED <<s3Vars, pend, cksum, writer, histVars, outsideWriter>>

\* Mutant: Sync leaves the local cache to Write.
SyncUncached(f) ==
    /\ Up
    /\ writer[f] = "idle"
    /\ writer' = [writer EXCEPT ![f] = IF lockLost THEN @ ELSE "put"]
    /\ UNCHANGED <<s3Vars, diskVars, buf, histVars, outsideWriter>>

\* Sync, and Close which does the same: the local cache is written first, then
\* uploadFile refuses once the lock is lost.
Sync(f) ==
    /\ Up
    /\ writer[f] = "idle"
    /\ \/ /\ cache' = IF Cached(f) THEN OnDisk(cache, f, buf[f]) ELSE cache
          /\ writer' = [writer EXCEPT ![f] = IF lockLost THEN @ ELSE "put"]
       \/ UNCHANGED <<cache, writer>>
    /\ UNCHANGED <<s3Vars, pend, cksum, buf, histVars, outsideWriter>>

\* The call returns: to a Sync the writer stays open, to a Close it does not.
Return(f) == \E s \in {"idle", "closed"} : writer' = [writer EXCEPT ![f] = s]

UploadOk(f) ==
    /\ writer[f] = "put"
    /\ ~closed
    /\ main' = [main EXCEPT ![f] = buf[f]]
    /\ writer' = [writer EXCEPT ![f] = "rmpend"]
    /\ UNCHANGED <<shadow, diskVars, buf, histVars, outsideWriter>>

\* Mutant: the error of the upload is ignored.
UploadErrorIgnored(f) ==
    /\ writer[f] = "put"
    /\ MaybePut(main, main', f, buf[f])
    /\ writer' = [writer EXCEPT ![f] = "rmpend"]
    /\ UNCHANGED <<shadow, diskVars, buf, histVars, outsideWriter>>

UploadFails(f) ==
    /\ writer[f] = "put"
    /\ MaybePut(main, main', f, buf[f])
    /\ writer' = [writer EXCEPT ![f] = "persist"]
    /\ UNCHANGED <<shadow, diskVars, buf, histVars, outsideWriter>>

\* persistToLocal: the data, which may fail and ends the call ...
PersistData(f) ==
    /\ writer[f] = "persist"
    /\ \/ /\ pend' = OnDisk(pend, f, buf[f])
          /\ writer' = [writer EXCEPT ![f] = "cksum"]
       \/ /\ UNCHANGED pend
          /\ Return(f)
    /\ UNCHANGED <<s3Vars, cksum, cache, buf, histVars, outsideWriter>>

\* ... the checksum, whose failure is only logged ...
PersistChecksum(f) ==
    /\ writer[f] = "cksum"
    /\ WriteChecksum(f, buf[f])
    /\ writer' = [writer EXCEPT ![f] = "shadow"]
    /\ UNCHANGED <<s3Vars, pend, cache, buf, histVars, outsideWriter>>

\* What is recorded of tables.
TableHas(g, f) == IF kind[f] = "table" THEN [g EXCEPT ![f] = buf[f]] ELSE g

\* ... and the shadow, best effort.
PersistShadow(f) ==
    /\ writer[f] = "shadow"
    /\ \/ /\ ~closed
          /\ shadow' = [shadow EXCEPT ![f] = buf[f]]
          /\ backed' = TableHas(backed, f)
       \/ /\ MaybePut(shadow, shadow', f, buf[f])
          /\ UNCHANGED backed
    /\ persisted' = TableHas(persisted, f)
    /\ Return(f)
    /\ UNCHANGED <<main, diskVars, buf, acked, gone, erased, wiped,
                   outsideWriter>>

\* After a successful upload: drop what is pending, then its shadow.
UploadDropsPending(f) ==
    /\ writer[f] = "rmpend"
    /\ DropPending(f)
    /\ writer' = [writer EXCEPT ![f] = "clean"]
    /\ UNCHANGED <<s3Vars, cache, buf, histVars, outsideWriter>>

UploadReturns(f) ==
    /\ writer[f] = "clean"
    /\ CleanShadow(f)
    /\ acked' = [acked EXCEPT ![f] = buf[f]]
    /\ Return(f)
    /\ UNCHANGED <<main, diskVars, buf, persisted, backed, gone, erased, wiped,
                   outsideWriter>>

-----------------------------------------------------------------------------
(* Remove, under s.mu                                                      *)

\* Mutant: the local cache keeps the file.
RemoveKeepsCache(f) ==
    /\ Up /\ ~closed /\ ~lockLost
    /\ remover = NoRemove
    /\ writer[f] = "closed"
    /\ DropPending(f)
    /\ remover' = [file |-> f, step |-> "clean"]
    /\ gone' = gone \cup {f}
    /\ UNCHANGED <<s3Vars, cache, acked, persisted, backed, erased, wiped,
                   outsideRemove>>

RemoveBegin(f) ==
    /\ Up /\ ~closed /\ ~lockLost
    /\ remover = NoRemove
    /\ writer[f] = "closed"
    /\ cache' = OnDisk(cache, f, 0)
    /\ DropPending(f)
    /\ remover' = [file |-> f, step |-> "clean"]
    /\ gone' = gone \cup {f}
    /\ UNCHANGED <<s3Vars, acked, persisted, backed, erased, wiped,
                   outsideRemove>>

RemoveShadow(f) ==
    /\ remover = [file |-> f, step |-> "clean"]
    /\ CleanShadow(f)
    /\ remover' = [file |-> f, step |-> "delete"]
    /\ UNCHANGED <<main, diskVars, histVars, outsideRemove>>

RemoveMain(f) ==
    /\ remover = [file |-> f, step |-> "delete"]
    /\ \/ /\ main' = [main EXCEPT ![f] = 0]
          /\ erased' = erased \cup {f}
       \/ /\ MaybePut(main, main', f, 0)
          /\ UNCHANGED erased
    /\ remover' = NoRemove
    /\ UNCHANGED <<shadow, diskVars, acked, persisted, backed, gone, wiped,
                   outsideRemove>>

-----------------------------------------------------------------------------
(* The background loop                                                     *)

\* retryPendingFilesOnce looks at the two flags, then lists the directory.
MayRetry == lockHeld /\ ~lockLost /\ PendingFiles # {}

\* The ticker fires; a tick that finds nothing to do is left out.
BgTick ==
    /\ bg = "sleep"
    /\ ~final
    /\ MayRetry
    /\ bg' = "read"
    /\ unread' = PendingFiles
    /\ UNCHANGED <<s3Vars, diskVars, final, cur, job, batch, outsideLoop>>

\* retryStopCh is closed: one more pass.
BgLastPass ==
    /\ bg = "sleep"
    /\ ~final
    /\ closed
    /\ final' = TRUE
    /\ IF MayRetry THEN bg' = "read" /\ unread' = PendingFiles
                   ELSE UNCHANGED <<bg, unread>>
    /\ UNCHANGED <<s3Vars, diskVars, cur, job, batch, outsideLoop>>

\* readPendingFiles reads the data of one file ...
BgRead(f) ==
    /\ bg = "read"
    /\ f \in unread
    /\ unread' = unread \ {f}
    /\ IF pend[node][f] = 0
         THEN UNCHANGED <<bg, cur>>
         ELSE /\ cur' = [file |-> f, version |-> pend[node][f]]
              /\ bg' = "check"
    /\ UNCHANGED <<s3Vars, diskVars, final, job, batch, outsideLoop>>

\* ... and then its checksum, which a writer may have changed in between.
BgCheck(f) ==
    /\ bg = "check"
    /\ cur.file = f
    /\ IF ChecksumFits(f, cur.version)
         THEN /\ batch' = [batch EXCEPT ![f] = cur.version]
              /\ UNCHANGED <<pend, cksum>>
         ELSE DropPending(f) /\ UNCHANGED batch
    /\ cur' = NoRead
    /\ bg' = "read"
    /\ UNCHANGED <<s3Vars, cache, final, unread, job, outsideLoop>>

BgQueue ==
    /\ bg = "read"
    /\ unread = {}
    /\ job' = [f \in File |-> IF batch[f] = 0 THEN "none" ELSE "queued"]
    /\ bg' = "run"
    /\ UNCHANGED <<s3Vars, diskVars, final, unread, cur, batch, outsideLoop>>

Active == {f \in File : job[f] \notin {"none", "queued"}}

\* The goroutines start in the order of priority, Concurrency at a time.
JobStart(f) ==
    /\ job[f] = "queued"
    /\ Cardinality(Active) < Concurrency
    /\ \A g \in File : job[g] = "queued" => Priority(f) <= Priority(g)
    /\ job' = [job EXCEPT ![f] = "try"]
    /\ UNCHANGED <<s3Vars, diskVars, scanVars, outsideLoop>>

\* Mutant: a round does not look at retryStopCh.
JobTryIgnoresClose(f) ==
    /\ job[f] = "try"
    /\ job' = [job EXCEPT ![f] = IF lockLost THEN "none" ELSE "put"]
    /\ UNCHANGED <<s3Vars, diskVars, scanVars, outsideLoop>>

\* One round of uploadWithInfiniteRetry: it gives up when the storage is
\* closed, when the lock is lost, or after RetryMaxDuration.
JobTry(f) ==
    /\ job[f] = "try"
    /\ \/ /\ closed \/ lockLost \/ RetriesBounded
          /\ job' = [job EXCEPT ![f] = "none"]
       \/ /\ ~closed /\ ~lockLost
          /\ job' = [job EXCEPT ![f] = "put"]
    /\ UNCHANGED <<s3Vars, diskVars, scanVars, outsideLoop>>

\* The data is what the scan has read, however long ago.
JobPutOk(f) ==
    /\ job[f] = "put"
    /\ ~closed
    /\ main' = [main EXCEPT ![f] = batch[f]]
    /\ job' = [job EXCEPT ![f] = "rm"]
    /\ UNCHANGED <<shadow, diskVars, scanVars, outsideLoop>>

\* Mutant: the job goes on as if the upload had worked.
JobPutErrorIgnored(f) ==
    /\ job[f] = "put"
    /\ MaybePut(main, main', f, batch[f])
    /\ job' = [job EXCEPT ![f] = "rm"]
    /\ UNCHANGED <<shadow, diskVars, scanVars, outsideLoop>>

\* After the wait between two rounds, which a stop ends.
JobPutFails(f) ==
    /\ job[f] = "put"
    /\ MaybePut(main, main', f, batch[f])
    /\ job' = [job EXCEPT ![f] = "try"]
    /\ UNCHANGED <<shadow, diskVars, scanVars, outsideLoop>>

JobDropsPending(f) ==
    /\ job[f] = "rm"
    /\ DropPending(f)
    /\ job' = [job EXCEPT ![f] = "clean"]
    /\ UNCHANGED <<s3Vars, cache, scanVars, outsideLoop>>

JobEnds(f) ==
    /\ job[f] = "clean"
    /\ CleanShadow(f)
    /\ job' = [job EXCEPT ![f] = "none"]
    /\ UNCHANGED <<main, diskVars, scanVars, outsideLoop>>

BgEnds ==
    /\ bg = "run"
    /\ \A f \in File : job[f] = "none"
    /\ bg' = "sleep"
    /\ batch' = Nothing
    /\ UNCHANGED <<s3Vars, diskVars, final, unread, cur, job, outsideLoop>>

\* The loop returns after its last pass, and Close with it.
BgStops ==
    /\ bg = "sleep"
    /\ final
    /\ bg' = "stopped"
    /\ UNCHANGED <<s3Vars, diskVars, final, unread, cur, job, batch,
                   outsideLoop>>

-----------------------------------------------------------------------------
(* RetryPendingUploads, one entry of the directory after the other: no     *)
(* look at the checksum, which it leaves behind, nor at the lock.          *)

ApiRead(f) ==
    /\ CallsRetryAPI
    /\ Running
    /\ api = Idle
    /\ pend[node][f] # 0
    /\ api' = [file |-> f, version |-> pend[node][f], step |-> "put"]
    /\ UNCHANGED <<s3Vars, diskVars, outsideApi>>

\* The checksum of a manifest is an entry as well, and parseFileDesc takes its
\* name for the manifest's own.
ApiReadChecksum(f) ==
    /\ CallsRetryAPI
    /\ Running
    /\ api = Idle
    /\ kind[f] = "manifest"
    /\ cksum[node][f] # 0
    /\ api' = [file |-> f, version |-> Garbled(f), step |-> "put"]
    /\ UNCHANGED <<s3Vars, diskVars, outsideApi>>

\* Mutant: the pending file goes although the upload failed.
ApiPutErrorIgnored ==
    /\ api.step = "put"
    /\ MaybePut(main, main', api.file, api.version)
    /\ api' = [api EXCEPT !.step = "rm"]
    /\ UNCHANGED <<shadow, diskVars, outsideApi>>

ApiPut ==
    /\ api.step = "put"
    /\ \/ /\ ~closed
          /\ main' = [main EXCEPT ![api.file] = api.version]
          /\ api' = [api EXCEPT !.step = "rm"]
       \/ /\ MaybePut(main, main', api.file, api.version)
          /\ api' = Idle
    /\ UNCHANGED <<shadow, diskVars, outsideApi>>

ApiDropsPending ==
    /\ api.step = "rm"
    /\ IF api.version = Garbled(api.file)
         THEN cksum' = OnDisk(cksum, api.file, 0) /\ UNCHANGED pend
         ELSE pend' = OnDisk(pend, api.file, 0) /\ UNCHANGED cksum
    /\ api' = Idle
    /\ UNCHANGED <<s3Vars, cache, outsideApi>>

-----------------------------------------------------------------------------
(* A session: Lock() with its recovery, the loss of the lease, Close, crash *)

\* Lock() of a new process, or again of one that is alive, whose loop may be at
\* work; syncFromShadow lists the shadow prefix, or fails.
LockAcquired(n) ==
    /\ phase = "down" \/ (phase = "free" /\ n = node)
    /\ ~closed
    /\ node' = n
    /\ phase' = "shadow"
    /\ todo' \in {{f \in File : shadow[f] # 0}, {}}
    /\ beside' = IF lockHeld \/ bg # "sleep" THEN "now"
                 ELSE IF beside = "now" THEN "before" ELSE beside
    /\ UNCHANGED <<s3Vars, diskVars, found, loopVars, outsideLock>>

\* syncFromShadow keeps a local pending file; a download or a write may fail.
FetchShadow(f) ==
    /\ phase = "shadow"
    /\ f \in todo
    /\ todo' = todo \ {f}
    /\ \/ UNCHANGED <<pend, cksum>>
       \/ /\ pend[node][f] = 0
          /\ shadow[f] # 0
          /\ pend' = OnDisk(pend, f, shadow[f])
          /\ WriteChecksum(f, shadow[f])
    /\ UNCHANGED <<s3Vars, cache, node, phase, found, beside, loopVars,
                   outsideLock>>

\* readPendingFiles, at the beginning of syncPendingToS3.
RecoverScan ==
    LET sound == {f \in PendingFiles : ChecksumFits(f, pend[node][f])}
        bad == PendingFiles \ sound
        drop(g) == [g EXCEPT ![node] =
                      [f \in File |-> IF f \in bad THEN 0 ELSE g[node][f]]]
    IN  /\ phase = "shadow"
        /\ todo = {}
        /\ pend' = drop(pend)
        /\ cksum' = drop(cksum)
        /\ found' = [f \in File |-> IF f \in sound THEN pend[node][f] ELSE 0]
        /\ todo' = sound
        /\ phase' = "push"
        /\ UNCHANGED <<s3Vars, cache, node, beside, loopVars, outsideLock>>

\* syncPendingToS3 uploads one file, best effort.
PushPending(f) ==
    /\ phase = "push"
    /\ f \in todo
    /\ todo' = todo \ {f}
    /\ \/ /\ main' = [main EXCEPT ![f] = found[f]]
          /\ DropPending(f)
          /\ CleanShadow(f)
       \/ /\ MaybePut(main, main', f, found[f])
          /\ UNCHANGED <<shadow, pend, cksum>>
    /\ UNCHANGED <<cache, node, phase, found, beside, loopVars, outsideLock>>

PushDone ==
    /\ phase = "push"
    /\ todo = {}
    /\ phase' = "cache"
    /\ found' = Nothing
    /\ todo' = {f \in File : cache[node][f] # 0}
    /\ UNCHANGED <<s3Vars, diskVars, node, beside, loopVars, outsideLock>>

\* syncLocalToS3 uploads one file of the local cache.
PushCache(f) ==
    /\ phase = "cache"
    /\ f \in todo
    /\ main' = [main EXCEPT ![f] = cache[node][f]]
    /\ todo' = todo \ {f}
    /\ UNCHANGED <<shadow, diskVars, node, phase, found, beside, loopVars,
                   outsideLock>>

\* cleanupOrphaned looks at CURRENT and its manifest, which module
\* ManifestRecovery is about.  It may upload a manifest once more, from the local
\* cache or, where the cache has none, from pendingDir, whose copy it then drops
\* without the shadow ...
CleanupRestores(f) ==
    /\ phase = "cache"
    /\ todo = {}
    /\ kind[f] = "manifest"
    /\ \/ /\ cache[node][f] # 0
          /\ MaybePut(main, main', f, cache[node][f])
          /\ UNCHANGED <<pend, cksum>>
       \/ /\ cache[node][f] = 0
          /\ pend[node][f] # 0
          /\ \/ /\ main' = [main EXCEPT ![f] = pend[node][f]]
                /\ DropPending(f)
             \/ /\ MaybePut(main, main', f, pend[node][f])
                /\ UNCHANGED <<pend, cksum>>
    /\ UNCHANGED <<shadow, cache, sessionVars, loopVars, outsideLock>>

\* ... or removes everything, unless the lock is lost: localDir, and pendingDir
\* if it is inside, as far as os.RemoveAll gets; then what S3 lists, if it does.
Wipe ==
    /\ phase = "cache"
    /\ todo = {}
    /\ ~lockLost
    /\ \E uncached, dropped \in SUBSET File :
           LET empty(g, S) ==
                 [g EXCEPT ![node] =
                    [f \in File |-> IF f \in S THEN 0 ELSE g[node][f]]]
           IN  /\ cache' = empty(cache, uncached)
               /\ pend' = empty(pend, dropped)
               /\ cksum' = empty(cksum, dropped)
    /\ phase' = "wipe"
    /\ todo' \in {{f \in File : main[f] # 0}, {}}
    /\ wiped' = wiped \cup todo' \cup
                {f \in File : \/ cache'[node][f] # cache[node][f]
                              \/ pend'[node][f] # pend[node][f]}
    /\ UNCHANGED <<kind, s3Vars, node, found, beside, flagVars, writerVars,
                   remover, loopVars, api, acked, persisted, backed, gone, erased>>

WipeMain(f) ==
    /\ phase = "wipe"
    /\ f \in todo
    /\ MaybePut(main, main', f, 0)
    /\ todo' = todo \ {f}
    /\ UNCHANGED <<shadow, diskVars, node, phase, found, beside, loopVars,
                   outsideLock>>

LockReturns ==
    /\ phase \in {"cache", "wipe"}
    /\ todo = {}
    /\ phase' = "open"
    /\ lockHeld' = TRUE
    /\ UNCHANGED <<kind, s3Vars, diskVars, node, todo, found, beside, lockLost,
                   closed, writerVars, remover, loopVars, api, histVars>>

\* syncLocalToS3 fails, and Lock() with it.
LockFails ==
    /\ phase = "cache"
    /\ \E f \in todo : MaybePut(main, main', f, cache[node][f])
    /\ phase' = "free"
    /\ todo' = {}
    /\ UNCHANGED <<shadow, diskVars, node, found, beside, loopVars, outsideLock>>

\* The database is closed, with all its writers.  The Unlock of the locker that
\* Lock() returned leaves lockHeld alone, the one of S3Storage does not; neither
\* stops the loop or its uploads.
Unlock ==
    /\ Up
    /\ remover = NoRemove
    /\ \A f \in File : writer[f] \in {"none", "closed"}
    /\ phase' = "free"
    /\ lockHeld' \in {lockHeld, FALSE}
    /\ UNCHANGED <<kind, s3Vars, diskVars, node, todo, found, beside, lockLost,
                   closed, writerVars, remover, loopVars, api, histVars>>

LoseLease ==
    /\ Running
    /\ ~lockLost
    /\ lockLost' = TRUE
    /\ UNCHANGED <<kind, s3Vars, diskVars, sessionVars, lockHeld, closed,
                   writerVars, remover, loopVars, api, histVars>>

\* Close needs s.mu, which Lock and Remove hold.
Close ==
    /\ phase \in {"open", "free"}
    /\ ~closed
    /\ remover = NoRemove
    /\ closed' = TRUE
    /\ UNCHANGED <<kind, s3Vars, diskVars, sessionVars, lockLost, lockHeld,
                   writerVars, remover, loopVars, api, histVars>>

\* The process ends, at any step: the disks and S3 are left.
Crash ==
    /\ Running
    /\ phase' = "down"
    /\ todo' = {}
    /\ found' = Nothing /\ batch' = Nothing
    /\ lockLost' = FALSE /\ lockHeld' = FALSE /\ closed' = FALSE
    /\ writer' = [f \in File |->
                    IF writer[f] = "none" THEN "none" ELSE "closed"]
    /\ buf' = Nothing
    /\ remover' = NoRemove
    /\ bg' = "sleep" /\ final' = FALSE /\ unread' = {} /\ cur' = NoRead
    /\ job' = [f \in File |-> "none"]
    /\ api' = Idle
    /\ beside' = IF beside = "now" THEN "before" ELSE beside
    /\ UNCHANGED <<kind, s3Vars, diskVars, node, histVars>>

-----------------------------------------------------------------------------
WriterStep(f) ==
    \/ Create(f) \/ Write(f) \/ Sync(f) \/ UploadOk(f) \/ UploadFails(f)
    \/ PersistData(f) \/ PersistChecksum(f) \/ PersistShadow(f)
    \/ UploadDropsPending(f) \/ UploadReturns(f)

RemoveStep(f) == RemoveBegin(f) \/ RemoveShadow(f) \/ RemoveMain(f)

JobStep(f) ==
    \/ JobStart(f) \/ JobTry(f) \/ JobPutOk(f) \/ JobPutFails(f)
    \/ JobDropsPending(f) \/ JobEnds(f)

LoopStep ==
    \/ BgTick \/ BgLastPass \/ BgQueue \/ BgEnds \/ BgStops
    \/ \E f \in File : BgRead(f) \/ BgCheck(f) \/ JobStep(f)

ApiStep ==
    \/ \E f \in File : ApiRead(f) \/ ApiReadChecksum(f)
    \/ ApiPut \/ ApiDropsPending

LockStep ==
    \/ \E n \in Node : LockAcquired(n)
    \/ \E f \in File :
           \/ FetchShadow(f) \/ PushPending(f) \/ PushCache(f)
           \/ CleanupRestores(f) \/ WipeMain(f)
    \/ RecoverScan \/ PushDone \/ Wipe \/ LockReturns \/ LockFails

Next ==
    \/ \E f \in File : WriterStep(f) \/ RemoveStep(f)
    \/ LoopStep \/ ApiStep \/ LockStep
    \/ Unlock \/ LoseLease \/ Close \/ Crash

Spec == Init /\ [][Next]_vars

-----------------------------------------------------------------------------
(* Properties                                                              *)

\* What was removed, and what the clean-up in Lock() has taken a copy of.
GivenUp == gone \cup wiped

\* A table whose Sync returned nil is in S3 until Remove is called for it or the
\* clean-up in Lock() gives the whole database up, whatever the uploads of
\* pending copies, the recovery, crashes and lost answers do
\* (storage.go:479-522, 991-1055, 1212-1291, 1532-1573).
TableNeverLost ==
    \A f \in File : kind[f] = "table" /\ f \notin GivenUp => main[f] >= acked[f]

\* A table that persistToLocal has kept after a failed upload is in S3 or in
\* the pending directory of some node until it is given up: neither the scan
\* with its checksum test nor the end of an upload takes the last copy, as long
\* as each .cksum is written completely or not at all (storage.go:497, 524-556,
\* 691-701, 1042-1049).
PersistedTableKept ==
    \A f \in File : kind[f] = "table" /\ f \notin GivenUp /\ persisted[f] > 0 =>
        main[f] > 0 \/ \E n \in Node : pend[n][f] > 0

\* A table with a shadow is in S3 under one of its two names, so that another
\* node can recover it: but for the clean-up in Lock(), a shadow goes only after
\* the upload (storage.go:581-583, 1048-1049, 1268-1269).
BackedTableKept ==
    \A f \in File : kind[f] = "table" /\ f \notin GivenUp /\ backed[f] > 0 =>
        main[f] > 0 \/ shadow[f] > 0

Uploading == {"put", "persist", "cksum", "shadow", "rmpend", "clean"}

\* What the loop and RetryPendingUploads hold is a version that was pending.
ReadKnown ==
    /\ bg = "check" => cur.file # None
    /\ cur.file # None => cur.version \in 1..MaxVersion[cur.file]
    /\ api.step # "none" => api.file # None
    /\ api.file # None /\ kind[api.file] # "manifest" =>
           api.version \in 1..MaxVersion[api.file]

\* The loop of a new process rests until its first Lock() returns.
LoopRests ==
    /\ bg # "run" => \A f \in File : job[f] = "none"
    /\ final => closed
    /\ Recovering => ~closed
    /\ phase = "down" \/ (Recovering /\ beside # "now") =>
           bg = "sleep" /\ ~final /\ ~lockHeld /\ ~closed

\* The files that a step is about to put over those in S3 are there ...
InHand(f) ==
    /\ writer[f] \notin {"none", "closed"} => buf[f] > 0
    /\ job[f] # "none" => batch[f] > 0
    /\ phase = "push" /\ f \in todo => found[f] > 0
    /\ phase = "cache" => f \notin todo
    /\ \A n \in Node : cache[n][f] = 0

\* ... and who is about to drop the pending copy or the shadow has uploaded it.
Uploaded(f) ==
    \/ writer[f] \in {"rmpend", "clean"}
    \/ job[f] \in {"rm", "clean"}
    \/ api.file = f /\ api.step = "rm"

Safe(f) ==
    /\ Uploaded(f) \/ acked[f] > 0 => main[f] > 0
    /\ /\ ~TornChecksum
       /\ persisted[f] > 0 \/ writer[f] \in {"cksum", "shadow"}
       => main[f] > 0 \/ \E n \in Node : pend[n][f] > 0
    /\ backed[f] > 0 => main[f] > 0 \/ shadow[f] > 0

RemoverKnown ==
    /\ remover.file # None => remover.file \in gone
    /\ phase = "wipe" => todo \subseteq wiped

TablesInHand == \A f \in File : kind[f] = "table" => InHand(f)

TablesSafe == \A f \in File : kind[f] = "table" /\ f \notin GivenUp => Safe(f)

\* The inductive invariant behind the three properties above: every copy of a
\* table that an upload, a scan, the recovery or RetryPendingUploads carries is
\* the table, and the last copy goes only after it is in S3 or given up
\* (storage.go:479-556, 656-717, 752-807, 991-1055, 1212-1291, 1532-1573).
TableInv ==
    /\ TypeOK
    /\ ReadKnown /\ LoopRests /\ RemoverKnown
    /\ TablesInHand
    /\ TablesSafe

\* When Lock() returns and the loop was at rest meanwhile, S3 has no version
\* older than the last one a Sync reported as written, although pending and
\* shadow copies of older versions were uploaded on the way: the local cache
\* goes last (storage.go:204-214).  The loop is at rest in the first Lock() of a
\* process, and again after an Unlock of S3Storage once its uploads are done; an
\* upload that is left over may put older data after the cache.  It needs
\* sessions that stay on one node and do not call RetryPendingUploads.
RecoveryRestoresAcked ==
    [][LockReturns /\ beside # "now" =>
           \A f \in File \ GivenUp : main[f] >= acked[f]]_vars

\* What the last Sync reported of a journal or manifest is in the local cache of
\* some host, whatever older copies do to S3: Sync writes the cache before it
\* uploads, and nothing but Remove and the clean-up in Lock() takes it away
\* (storage.go:54-76, 846-866, 1543).
CachedCopyKept ==
    \A f \in File \ GivenUp :
        Cached(f) /\ acked[f] > 0 => \E n \in Node : cache[n][f] >= acked[f]

\* On one host, without RetryPendingUploads and as long as no Lock() ran beside
\* the loop, a removed file comes back into S3 only by an upload goroutine that
\* has it in hand, or from a shadow that could not be deleted: neither the
\* writer, the cache nor a pending copy that the removal left would bring it
\* (storage.go:836-866, 1212-1291).
RemovedStays ==
    [][\A f \in gone : main[f] = 0 /\ main'[f] # 0 =>
           job[f] = "put" \/ shadow[f] # 0 \/ beside # "never"]_vars

\* Writers and Remove work in an open storage only.
SessionRests ==
    /\ \A f \in gone : writer[f] = "closed"
    /\ ~Up => /\ remover = NoRemove
              /\ \A f \in File : writer[f] \in {"none", "closed"}

\* Host n, and no other, has f in its cache: the version in the buffer or an
\* older one, but none older than what was acknowledged.
CachedAt(f, n) ==
    /\ acked[f] <= cache[n][f]
    /\ \A m \in Node \ {n} : cache[m][f] = 0
    /\ writer[f] = "none" => cache[n][f] = 0
    /\ writer[f] \notin {"none", "closed"} => n = node /\ cache[n][f] <= buf[f]
    /\ writer[f] \in Uploading => cache[n][f] = buf[f]

CachesHold ==
    \A f \in File \ GivenUp : Cached(f) => \E n \in Node : CachedAt(f, n)

\* syncLocalToS3 leaves nothing older in S3 behind it, nor does the clean-up.
RestoreUnderway ==
    /\ phase = "push" => \A f \in todo : pend[node][f] # 0
    /\ phase = "cache" => \A f \in todo : cache[node][f] # 0
    /\ \A f \in File :
           \/ phase = "cache" /\ f \notin todo
           \/ phase = "wipe" /\ f \notin wiped
           => main[f] >= cache[node][f] \/ ~Cached(f)

OneHost == Node = {node}

\* A removed file is not cached, and is pending only if its shadow stayed.
RemovedGone ==
    \A f \in gone :
        /\ cache[node][f] = 0
        /\ pend[node][f] # 0 => shadow[f] # 0
        /\ job[f] = "clean" \/ remover.file = f => pend[node][f] = 0

\* What makes the three properties above inductive, together with TableInv: the
\* caches hold what was acknowledged, a Lock() beside a loop at rest restores
\* it, and what was removed is on no disk (storage.go:54-76, 204-214, 836-866,
\* 1163-1291, 1532-1573).
RecoveryInv ==
    /\ SessionRests
    /\ CachesHold
    /\ ~CallsRetryAPI =>
           /\ api = Idle
           /\ beside # "now" => RestoreUnderway
           /\ OneHost /\ beside = "never" => RemovedGone

\* The loop holds another version of f than the one that is pending.
OtherInHand(f) ==
    /\ pend[node][f] # 0
    /\ \/ cur.file = f /\ cur.version # pend[node][f]
       \/ batch[f] \notin {0, pend[node][f]}

\* What is pending in an open storage gets to S3 in the end, itself or in a newer
\* version, as long as the storage stays open and has its lease.  There are
\* three exceptions: the file is given up; its checksum does not fit, so that the
\* scan deletes it as corrupt; or it became pending while the loop had another
\* version in hand, which the scan takes for corrupt or the upload deletes with
\* its own (storage.go:691-701, 959-1055).
PendingDrains ==
    \A f \in File : \A v \in 1..MaxVersion[f] :
        (Up /\ pend[node][f] = v)
            ~> \/ ~Up \/ closed \/ lockLost
               \/ main[f] >= v
               \/ f \in GivenUp
               \/ ~ChecksumFits(f, pend[node][f])
               \/ OtherInHand(f)

\* Close comes to its end, uploads in flight or not: nobody waits for a file
\* that never gets to S3 (storage.go:1113-1132, 974-987, 1067-1110).
CloseReturns == closed ~> (bg = "stopped" \/ ~closed)

\* Go runs its goroutines; an S3 call ends; an upload retried for ever succeeds
\* in the end.
Fairness ==
    /\ WF_vars(BgTick) /\ WF_vars(BgQueue) /\ WF_vars(BgEnds)
    /\ WF_vars(BgStops)
    /\ SF_vars(BgLastPass)
    /\ \A f \in File :
           /\ WF_vars(BgRead(f)) /\ WF_vars(BgCheck(f)) /\ WF_vars(JobStart(f))
           /\ WF_vars(JobTry(f)) /\ WF_vars(JobPutFails(f))
           /\ WF_vars(JobDropsPending(f)) /\ WF_vars(JobEnds(f))
           /\ SF_vars(JobPutOk(f))

LiveSpec == Spec /\ Fairness

-----------------------------------------------------------------------------
(* Refinement                                                              *)

TablesWith(g) == {f \in File : kind[f] = "table" /\ g[f] > 0}

Durable == INSTANCE DurableTables WITH
    stored <- TablesWith(main),
    synced <- TablesWith(acked),
    removed <- {f \in GivenUp : kind[f] = "table"}

\* Seen from outside, the writer, the loop, RetryPendingUploads, the recovery,
\* its clean-up and Remove together are a store of tables that acknowledges what
\* it has and erases only what Remove or the clean-up has given up, whoever
\* uploads a table how often and from which copy (storage.go:479-556, 752-866,
\* 991-1055, 1212-1291, 1532-1573).
ImplementsDurableTables == Durable!Spec

-----------------------------------------------------------------------------
(* What the comments say and the code does not do                          *)

\* storage.go:849: Remove also deletes the pending copy so that the background
\* loop does not go on to upload a removed file.
NoUploadOfRemoved == [][\A f \in erased : ~JobPutOk(f)]_vars

\* storage.go:749: RetryPendingUploads uploads what the pending uploads have
\* left behind; every object in S3 is a version that a writer has made.
OnlyWrittenContent == \A f \in File : main[f] <= MaxVersion[f]
=============================================================================
