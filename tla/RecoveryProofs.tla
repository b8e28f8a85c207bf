--------------------------- MODULE RecoveryProofs ---------------------------
(* What Lock() restores of the journals and manifests, and what Remove leaves *)
(* behind: the proofs of RecoveryInv of PendingUpload and of the properties    *)
(* that rest on it.                                                            *)
EXTENDS PendingUploadProofs

-----------------------------------------------------------------------------
(* What a step leaves of one file                                          *)

\* The versions of a file are numbers.
LEMMA NumbersAt ==
  ASSUME TypeOK, NEW h \in File
  PROVE  /\ main[h] \in Nat /\ shadow[h] \in Nat /\ acked[h] \in Nat /\ buf[h] \in Nat
         /\ \A n \in Node : cache[n][h] \in Nat /\ pend[n][h] \in Nat
  BY ContentsAt DEF TypeOK, StoreTypeOK, CopyTypeOK, Versions

\* An update of the disk of the present node.
LEMMA CacheAt ==
  ASSUME TypeOK, NEW f \in File, NEW v \in 0..MaxVersion[f], cache' = OnDisk(cache, f, v)
  PROVE  \A n \in Node, h \in File :
             cache'[n][h] = IF n = node /\ h = f THEN v ELSE cache[n][h]
  BY DiskPut DEF TypeOK, StoreTypeOK, ControlTypeOK

\* A file that no writer works on and whose cached copies stay.
CopiesAlone(h) ==
    /\ acked'[h] = acked[h] /\ buf'[h] = buf[h] /\ writer'[h] = writer[h]
    /\ node' = node \/ writer[h] \in {"none", "closed"}
    /\ \A n \in Node : cache'[n][h] = cache[n][h]

LEMMA AloneKept ==
  ASSUME TypeOK, NEW h \in File, NEW n \in Node, CachedAt(h, n), CopiesAlone(h)
  PROVE  CachedAt(h, n)'
  BY DEF CachedAt, CopiesAlone, Uploading

\* What the invariant says of one file.
Held(h) == h \notin GivenUp /\ Cached(h) => \E n \in Node : CachedAt(h, n)

LEMMA HeldKept ==
  ASSUME TypeOK, NEW h \in File, Held(h), CopiesAlone(h), kind' = kind,
         gone \subseteq gone', wiped \subseteq wiped'
  PROVE  Held(h)'
<1> SUFFICES ASSUME h \notin GivenUp', Cached(h)' PROVE \E n \in Node : CachedAt(h, n)'
  BY DEF Held
<1>1. PICK n \in Node : CachedAt(h, n)
  BY DEF Held, Cached, GivenUp
<1> QED BY <1>1, AloneKept

LEMMA HeldIsCachesHold == CachesHold <=> \A h \in File : Held(h)
  BY DEF CachesHold, Held

-----------------------------------------------------------------------------
(* Writers and Remove work in an open storage                              *)

LEMMA RestsNext ==
  ASSUME TableInv, SessionRests, [Next]_vars PROVE SessionRests'
<1> USE FilesAssumption
    DEF s3Vars, diskVars, sessionVars, flagVars, writerVars, scanVars, loopVars, histVars,
        outsideWriter, outsideRemove, outsideLoop, outsideApi, outsideLock, Recovering, GivenUp
<1>1. writer \in [File -> WriterAt] /\ gone \subseteq File
  BY DEF TableInv, TypeOK, ControlTypeOK
<1>2. ASSUME NEW f \in File, WriterStep(f) PROVE SessionRests'
  <2>1. \E s \in WriterAt : writer' = [writer EXCEPT ![f] = s]
    BY <1>1, <1>2
    DEF WriterStep, Create, Write, Sync, UploadOk, UploadFails, PersistData, PersistChecksum,
        PersistShadow, UploadDropsPending, UploadReturns, Return, WriterAt
  <2>2. writer[f] # "closed" /\ UNCHANGED <<phase, remover, gone>>
    BY <1>2
    DEF WriterStep, Create, Write, Sync, UploadOk, UploadFails, PersistData, PersistChecksum,
        PersistShadow, UploadDropsPending, UploadReturns
  <2>3. Up
    BY <1>2
    DEF SessionRests, WriterStep, Create, Write, Sync, UploadOk, UploadFails, PersistData,
        PersistChecksum, PersistShadow, UploadDropsPending, UploadReturns
  <2> QED BY <1>1, <2>1, <2>2, <2>3 DEF SessionRests, Up
<1>3. ASSUME NEW f \in File, RemoveStep(f) PROVE SessionRests'
  BY <1>3 DEF RemoveStep, RemoveBegin, RemoveShadow, RemoveMain, SessionRests, Up, NoRemove
<1>4. CASE LoopStep
  BY <1>4
  DEF LoopStep, BgTick, BgLastPass, BgQueue, BgEnds, BgStops, BgRead, BgCheck, JobStep,
      JobStart, JobTry, JobPutOk, JobPutFails, JobDropsPending, JobEnds, SessionRests, Up
<1>5. CASE ApiStep
  BY <1>5 DEF ApiStep, ApiRead, ApiReadChecksum, ApiPut, ApiDropsPending, SessionRests, Up
<1>6. CASE Crash
  BY <1>1, <1>6 DEF Crash, SessionRests, Up, Running
<1>7. CASE LockStep
  <2>1. UNCHANGED <<gone, remover, writer>> /\ (Up' => ~Up)
    BY <1>7
    DEF LockStep, LockAcquired, FetchShadow, PushPending, PushCache, CleanupRestores, WipeMain,
        RecoverScan, PushDone, Wipe, LockReturns, LockFails, Up
  <2>2. ~Up
    BY <1>7
    DEF LockStep, LockAcquired, FetchShadow, PushPending, PushCache, CleanupRestores, WipeMain,
        RecoverScan, PushDone, Wipe, LockReturns, LockFails, Up
  <2> QED BY <2>1, <2>2 DEF SessionRests
<1>8. CASE Unlock \/ LoseLease \/ Close
  BY <1>8 DEF Unlock, LoseLease, Close, SessionRests, Up
<1>9. CASE UNCHANGED vars
  BY <1>9 DEF vars, SessionRests, Up
<1> QED BY <1>2, <1>3, <1>4, <1>5, <1>6, <1>7, <1>8, <1>9 DEF Next

-----------------------------------------------------------------------------
(* The caches hold what was acknowledged                                   *)

\* Writers: Create finds no copy, Sync makes one before it uploads.
LEMMA WriterHolds ==
  ASSUME TableInv, CachesHold, NEW f \in File, WriterStep(f) PROVE CachesHold'
<1> USE FilesAssumption
    DEF s3Vars, diskVars, sessionVars, flagVars, writerVars, scanVars, loopVars, histVars,
        outsideWriter, outsideRemove, outsideLoop, outsideApi, outsideLock, Recovering, GivenUp
<1>1. TypeOK /\ writer \in [File -> WriterAt] /\ node \in Node /\ buf[f] \in 0..MaxVersion[f]
  BY ContentsAt DEF TableInv, TypeOK, CopyTypeOK, ControlTypeOK
<1>2. acked \in [File -> Nat] /\ buf \in [File -> Nat]
  BY <1>1 DEF TypeOK, CopyTypeOK, Contents, Versions
<1>3. kind' = kind /\ gone' = gone /\ wiped' = wiped /\ node' = node
  BY DEF WriterStep, Create, Write, Sync, UploadOk, UploadFails, PersistData, PersistChecksum,
         PersistShadow, UploadDropsPending, UploadReturns
<1>4. ASSUME NEW h \in File, h # f PROVE Held(h)'
  <2>1. \E s \in WriterAt : writer' = [writer EXCEPT ![f] = s]
    BY <1>1
    DEF WriterStep, Create, Write, Sync, UploadOk, UploadFails, PersistData, PersistChecksum,
        PersistShadow, UploadDropsPending, UploadReturns, Return, WriterAt
  <2>2. acked'[h] = acked[h] /\ buf'[h] = buf[h]
    BY <1>2, <1>4
    DEF WriterStep, Create, Write, Sync, UploadOk, UploadFails, PersistData, PersistChecksum,
        PersistShadow, UploadDropsPending, UploadReturns
  <2>3. \/ cache' = cache
        \/ \E v \in 0..MaxVersion[f] : cache' = OnDisk(cache, f, v)
    BY <1>1, <1>2
    DEF WriterStep, Create, Write, Sync, UploadOk, UploadFails, PersistData, PersistChecksum,
        PersistShadow, UploadDropsPending, UploadReturns
  <2>4. \A n \in Node : cache'[n][h] = cache[n][h]
    BY <1>1, <1>4, <2>3, CacheAt
  <2>5. CopiesAlone(h)
    BY <1>1, <1>3, <1>4, <2>1, <2>2, <2>4 DEF CopiesAlone
  <2> QED BY <1>1, <1>3, <2>5, HeldKept, HeldIsCachesHold
<1>5. ASSUME f \notin GivenUp', Cached(f)' PROVE \E n \in Node : CachedAt(f, n)'
  <2>1. PICK n \in Node : CachedAt(f, n)
    BY <1>3, <1>5 DEF CachesHold, Cached
  <2>2. \A m \in Node : cache[m][f] \in Nat
    BY <1>1, NumbersAt
  <2>3. Cached(f)
    BY <1>3, <1>5 DEF Cached
  <2>4. CASE Create(f)
    <3>1. /\ acked[f] = 0 /\ \A m \in Node : cache[m][f] = 0
          /\ cache' = cache /\ acked' = acked /\ buf'[f] \in Nat /\ writer'[f] = "idle"
      BY <1>1, <1>2, <2>1, <2>2, <2>4 DEF Create, CachedAt
    <3>2. PICK m \in Node : m = node
      BY <1>1
    <3> WITNESS m \in Node
    <3> QED BY <1>1, <1>2, <1>3, <3>1, <3>2 DEF CachedAt, Uploading
  <2>5. CASE Write(f)
    <3>1. n = node /\ cache[n][f] <= buf[f] /\ writer' = writer /\ acked' = acked
      BY <2>1, <2>5 DEF Write, CachedAt
    <3>2. buf[f] + 1 \in 0..MaxVersion[f] /\ buf'[f] = buf[f] + 1
      BY <1>1, <1>2, <2>5 DEF Write
    <3>3. /\ cache'[n][f] \in {cache[n][f], buf'[f]}
          /\ \A m \in Node \ {n} : cache'[m][f] = cache[m][f]
      BY <1>1, <2>3, <2>5, <3>1, <3>2, CacheAt DEF Write
    <3> WITNESS n \in Node
    <3> QED BY <1>2, <1>3, <2>1, <2>2, <2>5, <3>1, <3>2, <3>3 DEF Write, CachedAt, Uploading
  <2>6. CASE Sync(f)
    <3>1. n = node /\ cache[n][f] <= buf[f] /\ buf' = buf /\ acked' = acked
      BY <2>1, <2>6 DEF Sync, CachedAt
    <3>2. CASE UNCHANGED <<cache, writer>>
      BY <1>3, <2>1, <3>1, <3>2 DEF CachedAt
    <3>3. CASE cache' = OnDisk(cache, f, buf[f]) /\ writer'[f] \in {"idle", "put"}
      <4>1. \A m \in Node : cache'[m][f] = IF m = n THEN buf[f] ELSE cache[m][f]
        BY <1>1, <3>1, <3>3, CacheAt
      <4> WITNESS n \in Node
      <4> QED BY <1>2, <1>3, <2>1, <2>2, <3>1, <3>3, <4>1 DEF CachedAt, Uploading
    <3> QED BY <1>1, <2>3, <2>6, <3>2, <3>3 DEF Sync
  <2>7. CASE \/ UploadOk(f) \/ UploadFails(f) \/ PersistData(f) \/ PersistChecksum(f)
             \/ PersistShadow(f) \/ UploadDropsPending(f) \/ UploadReturns(f)
    <3>1. /\ cache' = cache /\ buf' = buf /\ acked'[f] \in {acked[f], buf[f]}
          /\ writer[f] \in Uploading /\ writer'[f] \in Uploading \cup {"idle", "closed"}
      BY <1>1, <1>2, <2>7
      DEF UploadOk, UploadFails, PersistData, PersistChecksum, PersistShadow,
          UploadDropsPending, UploadReturns, Return, Uploading
    <3>2. n = node /\ cache[n][f] = buf[f] /\ acked[f] <= buf[f]
      BY <2>1, <3>1 DEF CachedAt, Uploading
    <3> WITNESS n \in Node
    <3> QED BY <1>2, <1>3, <2>1, <3>1, <3>2 DEF CachedAt, Uploading
  <2> QED BY <2>4, <2>5, <2>6, <2>7 DEF WriterStep
<1>6. Held(f)'
  BY <1>5 DEF Held
<1> QED BY <1>4, <1>6 DEF CachesHold, Held

\* Steps that have nothing to do with a cached copy.
LEMMA OthersHold ==
  ASSUME TableInv, CachesHold, kind' = kind, gone' = gone, wiped' = wiped,
         UNCHANGED <<acked, buf, writer, cache, node>>
  PROVE  CachesHold'
<1>1. \A h \in File : CopiesAlone(h)
  BY DEF CopiesAlone
<1> QED BY <1>1, HeldKept, HeldIsCachesHold DEF TableInv, Held, CachesHold, GivenUp

\* Every step, and stuttering.
LEMMA HoldNext ==
  ASSUME TableInv, SessionRests, CachesHold, [Next]_vars PROVE CachesHold'
<1> USE FilesAssumption
    DEF s3Vars, diskVars, sessionVars, flagVars, writerVars, scanVars, loopVars, histVars,
        outsideWriter, outsideRemove, outsideLoop, outsideApi, outsideLock, Recovering, GivenUp
<1>1. TypeOK /\ writer \in [File -> WriterAt] /\ node \in Node /\ \A h \in File : 0 \in 0..MaxVersion[h]
  BY DEF TableInv, TypeOK, ControlTypeOK
<1>2. ASSUME NEW f \in File, WriterStep(f) PROVE CachesHold'
  BY <1>2, WriterHolds
<1>3. ASSUME NEW f \in File, RemoveBegin(f) PROVE CachesHold'
  <2>1. /\ kind' = kind /\ gone' = gone \cup {f} /\ cache' = OnDisk(cache, f, 0)
        /\ UNCHANGED <<acked, buf, writer, node, wiped>>
    BY <1>3 DEF RemoveBegin
  <2>2. ASSUME NEW h \in File, h # f PROVE Held(h)'
    <3>1. CopiesAlone(h)
      BY <1>1, <2>1, <2>2, CacheAt DEF CopiesAlone
    <3> QED BY <1>1, <2>1, <3>1, HeldKept, HeldIsCachesHold
  <2>3. Held(f)'
    BY <2>1 DEF Held
  <2> QED BY <2>2, <2>3 DEF CachesHold, Held
<1>4. ASSUME NEW f \in File, RemoveShadow(f) \/ RemoveMain(f) PROVE CachesHold'
  BY <1>4, OthersHold DEF RemoveShadow, RemoveMain
<1>5. CASE LoopStep
  BY <1>5, OthersHold
  DEF LoopStep, BgTick, BgLastPass, BgQueue, BgEnds, BgStops, BgRead, BgCheck, JobStep,
      JobStart, JobTry, JobPutOk, JobPutFails, JobDropsPending, JobEnds
<1>6. CASE ApiStep
  BY <1>6, OthersHold DEF ApiStep, ApiRead, ApiReadChecksum, ApiPut, ApiDropsPending
<1>7. ASSUME NEW n \in Node, LockAcquired(n) PROVE CachesHold'
  <2>1. \A h \in File : CopiesAlone(h)
    BY <1>7 DEF LockAcquired, CopiesAlone, SessionRests, Up
  <2> QED BY <1>1, <1>7, <2>1, HeldKept, HeldIsCachesHold DEF LockAcquired, Held, CachesHold
<1>8. ASSUME NEW f \in File,
             \/ FetchShadow(f) \/ PushPending(f) \/ PushCache(f)
             \/ CleanupRestores(f) \/ WipeMain(f)
      PROVE  CachesHold'
  BY <1>8, OthersHold DEF FetchShadow, PushPending, PushCache, CleanupRestores, WipeMain
<1>9. CASE \/ RecoverScan \/ PushDone \/ LockReturns \/ LockFails
           \/ Unlock \/ LoseLease \/ Close
  BY <1>9, OthersHold DEF RecoverScan, PushDone, LockReturns, LockFails, Unlock, LoseLease, Close
<1>10. CASE Crash
  <2>1. /\ kind' = kind /\ GivenUp' = GivenUp /\ acked' = acked /\ cache' = cache
        /\ buf' = Nothing
        /\ writer' = [f \in File |-> IF writer[f] = "none" THEN "none" ELSE "closed"]
    BY <1>10 DEF Crash
  <2>2. ASSUME NEW h \in File, h \notin GivenUp', Cached(h)'
        PROVE  \E n \in Node : CachedAt(h, n)'
    <3>1. PICK n \in Node : CachedAt(h, n)
      BY <2>1, <2>2 DEF CachesHold, Cached
    <3> WITNESS n \in Node
    <3> QED BY <1>1, <2>1, <3>1 DEF CachedAt, Uploading
  <2> QED BY <2>2 DEF CachesHold
<1>12. CASE Wipe
  <2>1. /\ UNCHANGED <<kind, acked, buf, writer, node, gone>> /\ wiped \subseteq wiped'
        /\ \A h \in File \ wiped' : CopiesAlone(h)
    BY <1>1, <1>12, Wiping DEF Wipe, CopiesAlone
  <2>2. ASSUME NEW h \in File PROVE Held(h)'
    <3>1. CASE h \in wiped'
      BY <3>1 DEF Held
    <3>2. CASE h \notin wiped'
      BY <1>1, <2>1, <3>2, HeldKept, HeldIsCachesHold
    <3> QED BY <3>1, <3>2
  <2> QED BY <2>2 DEF CachesHold, Held
<1>11. CASE UNCHANGED vars
  BY <1>11, OthersHold DEF vars
<1> QED BY <1>2, <1>3, <1>4, <1>5, <1>6, <1>7, <1>8, <1>9, <1>10, <1>11, <1>12
        DEF Next, RemoveStep, LockStep

-----------------------------------------------------------------------------
(* Lock() leaves nothing older in S3                                       *)

\* RetryPendingUploads is not called.
LEMMA ApiNext ==
  ASSUME api = Idle, ~CallsRetryAPI, [Next]_vars PROVE api' = Idle /\ ~ApiStep
<1> USE DEF s3Vars, diskVars, sessionVars, flagVars, writerVars, scanVars, loopVars, histVars,
        outsideWriter, outsideRemove, outsideLoop, outsideApi, outsideLock
<1>1. ~ApiStep
  BY DEF ApiStep, ApiRead, ApiReadChecksum, ApiPut, ApiDropsPending, Idle
<1>2. ASSUME NEW f \in File, WriterStep(f) \/ RemoveStep(f) PROVE api' = api
  BY <1>2
  DEF WriterStep, Create, Write, Sync, UploadOk, UploadFails, PersistData, PersistChecksum,
      PersistShadow, UploadDropsPending, UploadReturns, RemoveStep, RemoveBegin, RemoveShadow,
      RemoveMain
<1>3. CASE LoopStep
  BY <1>1, <1>3
  DEF LoopStep, BgTick, BgLastPass, BgQueue, BgEnds, BgStops, BgRead, BgCheck, JobStep,
      JobStart, JobTry, JobPutOk, JobPutFails, JobDropsPending, JobEnds
<1>4. CASE LockStep
  BY <1>1, <1>4
  DEF LockStep, LockAcquired, FetchShadow, PushPending, PushCache, CleanupRestores, WipeMain,
      RecoverScan, PushDone, Wipe, LockReturns, LockFails
<1>5. CASE Unlock \/ LoseLease \/ Close \/ Crash \/ UNCHANGED vars
  BY <1>1, <1>5 DEF Unlock, LoseLease, Close, Crash, vars
<1> QED BY <1>1, <1>2, <1>3, <1>4, <1>5 DEF Next

\* Whether the loop was awake in a Lock() changes at its beginning only.
LEMMA BesideNext ==
  ASSUME [Next]_vars
  PROVE  \/ beside' = beside
         \/ Crash /\ (beside' = "never" => beside = "never")
         \/ \E n \in Node : LockAcquired(n) /\ (beside' = "never" => beside = "never")
<1> USE DEF s3Vars, diskVars, sessionVars, flagVars, writerVars, scanVars, loopVars, histVars,
        outsideWriter, outsideRemove, outsideLoop, outsideApi, outsideLock
<1>1. ASSUME NEW f \in File, WriterStep(f) \/ RemoveStep(f) PROVE beside' = beside
  BY <1>1
  DEF WriterStep, Create, Write, Sync, UploadOk, UploadFails, PersistData, PersistChecksum,
      PersistShadow, UploadDropsPending, UploadReturns, RemoveStep, RemoveBegin, RemoveShadow,
      RemoveMain
<1>2. CASE LoopStep
  BY <1>2
  DEF LoopStep, BgTick, BgLastPass, BgQueue, BgEnds, BgStops, BgRead, BgCheck, JobStep,
      JobStart, JobTry, JobPutOk, JobPutFails, JobDropsPending, JobEnds
<1>3. CASE LockStep /\ ~\E n \in Node : LockAcquired(n)
  BY <1>3
  DEF LockStep, FetchShadow, PushPending, PushCache, CleanupRestores, WipeMain,
      RecoverScan, PushDone, Wipe, LockReturns, LockFails
<1>4. ASSUME NEW n \in Node, LockAcquired(n) PROVE beside' = "never" => beside = "never"
  BY <1>4 DEF LockAcquired
<1>5. CASE ApiStep \/ Unlock \/ LoseLease \/ Close \/ UNCHANGED vars
  BY <1>5 DEF ApiStep, ApiRead, ApiReadChecksum, ApiPut, ApiDropsPending, Unlock, LoseLease,
              Close, vars
<1>6. CASE Crash
  BY <1>6 DEF Crash
<1> QED BY <1>1, <1>2, <1>3, <1>4, <1>5, <1>6 DEF Next

\* A Lock() without a loop beside it is alone with the disk.
LEMMA LockAlone ==
  ASSUME TableInv, SessionRests, Recovering, beside # "now"
  PROVE  /\ \A f \in File : writer[f] \in {"none", "closed"} /\ job[f] = "none"
         /\ remover = NoRemove /\ bg = "sleep" /\ ~final /\ ~closed /\ ~lockHeld
         /\ ~LoopStep
<1>1. bg = "sleep" /\ ~final /\ ~closed /\ ~lockHeld /\ \A f \in File : job[f] = "none"
  BY DEF TableInv, LoopRests
<1>2. ~LoopStep
  BY <1>1
  DEF LoopStep, BgTick, BgLastPass, BgQueue, BgEnds, BgStops, BgRead, BgCheck, JobStep,
      JobStart, JobTry, JobPutOk, JobPutFails, JobDropsPending, JobEnds, MayRetry
<1> QED BY <1>1, <1>2 DEF SessionRests, Recovering, Up

\* Between the scan of pendingDir and the return of Lock() its parts are in order.
LEMMA RestoreNext ==
  ASSUME TableInv, SessionRests, beside # "now" => RestoreUnderway, api = Idle, ~CallsRetryAPI,
         [Next]_vars, beside' # "now"
  PROVE  RestoreUnderway'
<1> USE FilesAssumption
    DEF s3Vars, diskVars, sessionVars, flagVars, writerVars, scanVars, loopVars, histVars,
        outsideWriter, outsideRemove, outsideLoop, outsideApi, outsideLock, GivenUp
<1>1. TypeOK /\ node \in Node /\ todo \subseteq File
  BY DEF TableInv, TypeOK, ControlTypeOK
<1>2. ASSUME phase' \notin {"push", "cache", "wipe"} PROVE RestoreUnderway'
  BY <1>2 DEF RestoreUnderway
<1>16. ASSUME beside' = beside PROVE RestoreUnderway
  BY <1>16
<1>3. ASSUME NEW f \in File, WriterStep(f) PROVE RestoreUnderway'
  <2>1. Up /\ phase' = phase
    BY <1>3
    DEF SessionRests, WriterStep, Create, Write, Sync, UploadOk, UploadFails, PersistData,
        PersistChecksum, PersistShadow, UploadDropsPending, UploadReturns
  <2> QED BY <1>2, <2>1 DEF Up
<1>4. ASSUME NEW f \in File, RemoveStep(f) PROVE RestoreUnderway'
  <2>1. Up /\ phase' = phase
    BY <1>4 DEF SessionRests, RemoveStep, RemoveBegin, RemoveShadow, RemoveMain, NoRemove
  <2> QED BY <1>2, <2>1 DEF Up
<1>5. CASE LoopStep
  <2>1. phase' = phase /\ beside' = beside
    BY <1>5
    DEF LoopStep, BgTick, BgLastPass, BgQueue, BgEnds, BgStops, BgRead, BgCheck, JobStep,
        JobStart, JobTry, JobPutOk, JobPutFails, JobDropsPending, JobEnds
  <2>2. ~Recovering
    BY <1>5, <2>1, LockAlone
  <2> QED BY <1>2, <2>1, <2>2 DEF Recovering
<1>6. ~ApiStep
  BY ApiNext
<1>7. CASE Crash \/ LockFails \/ LockReturns \/ Unlock
  BY <1>2, <1>7 DEF Crash, LockFails, LockReturns, Unlock
<1>8. ASSUME NEW n \in Node, LockAcquired(n) PROVE RestoreUnderway'
  BY <1>2, <1>8 DEF LockAcquired
<1>9. ASSUME NEW f \in File, FetchShadow(f) PROVE RestoreUnderway'
  BY <1>2, <1>9 DEF FetchShadow
<1>10. CASE RecoverScan
  <2> DEFINE sound == {h \in PendingFiles : ChecksumFits(h, pend[node][h])}
             bad == PendingFiles \ sound
  <2>1. /\ pend' = [pend EXCEPT ![node] = [h \in File |-> IF h \in bad THEN 0 ELSE pend[node][h]]]
        /\ todo' = sound /\ phase' = "push" /\ node' = node
    BY <1>10 DEF RecoverScan
  <2>2. pend \in [Node -> Versions]
    BY <1>1, DiskIsVersions DEF TypeOK, StoreTypeOK
  <2>3. \A h \in sound : h \in File /\ pend[node][h] # 0 /\ h \notin bad
    BY DEF PendingFiles
  <2>4. \A h \in File : pend'[node][h] = IF h \in bad THEN 0 ELSE pend[node][h]
    BY <1>1, <2>1, <2>2
  <2> HIDE DEF sound, bad
  <2> QED BY <1>1, <2>1, <2>3, <2>4 DEF RestoreUnderway
<1>11. ASSUME NEW f \in File, PushPending(f) PROVE RestoreUnderway'
  <2>1. /\ phase = "push" /\ phase' = "push" /\ todo' = todo \ {f} /\ node' = node /\ beside' = beside
        /\ pend' = pend \/ DropPending(f)
    BY <1>11 DEF PushPending
  <2>2. \A h \in File : h # f => pend'[node][h] = pend[node][h]
    BY <1>1, <2>1, DropLeaves
  <2> QED BY <1>1, <1>16, <2>1, <2>2 DEF RestoreUnderway
<1>12. CASE PushDone
  BY <1>1, <1>12, NumbersAt DEF PushDone, RestoreUnderway
<1>13. ASSUME NEW f \in File, PushCache(f) PROVE RestoreUnderway'
  <2>1. /\ phase = "cache" /\ phase' = "cache" /\ main' = [main EXCEPT ![f] = cache[node][f]]
        /\ todo' = todo \ {f} /\ UNCHANGED <<cache, node, beside, kind>>
    BY <1>13 DEF PushCache
  <2>2. main \in [File -> Nat] /\ cache[node][f] \in Nat
    BY <1>1, NumbersAt DEF TypeOK, StoreTypeOK, Versions
  <2> QED BY <1>1, <1>16, <2>1, <2>2 DEF RestoreUnderway, Cached
<1>14. ASSUME NEW f \in File, CleanupRestores(f) PROVE RestoreUnderway'
  <2>1. /\ phase = "cache" /\ todo = {} /\ UNCHANGED <<phase, todo, cache, node, beside, kind>>
        /\ \/ main' = main
           \/ main' = [main EXCEPT ![f] = cache[node][f]]
           \/ cache[node][f] = 0 /\ main' = [main EXCEPT ![f] = pend[node][f]]
    BY <1>14 DEF CleanupRestores, MaybePut
  <2>2. /\ main \in [File -> Nat]
        /\ \A h \in File : cache[node][h] \in Nat /\ pend[node][h] \in Nat
    BY <1>1, NumbersAt DEF TypeOK, StoreTypeOK, Versions
  <2>3. ASSUME NEW h \in File PROVE main'[h] >= cache[node][h] \/ ~Cached(h)
    <3>1. main[h] >= cache[node][h] \/ ~Cached(h)
      BY <1>16, <2>1 DEF RestoreUnderway
    <3> QED BY <2>1, <2>2, <3>1
  <2> QED BY <2>1, <2>3 DEF RestoreUnderway, Cached
<1>15. CASE Wipe
  <2>1. /\ phase = "cache" /\ todo = {} /\ phase' = "wipe"
        /\ UNCHANGED <<main, node, beside, kind>>
    BY <1>15 DEF Wipe
  <2>2. \A h \in File : h \notin wiped' => cache'[node][h] = cache[node][h]
    BY <1>1, <1>15, Wiping
  <2>3. ASSUME NEW h \in File, h \notin wiped'
        PROVE  main'[h] >= cache'[node][h] \/ ~Cached(h)
    BY <1>16, <2>1, <2>2, <2>3 DEF RestoreUnderway
  <2> QED BY <2>1, <2>3 DEF RestoreUnderway, Cached
<1>17. ASSUME NEW f \in File, WipeMain(f) PROVE RestoreUnderway'
  <2>1. /\ phase = "wipe" /\ phase' = phase /\ f \in wiped
        /\ main' \in {main, [main EXCEPT ![f] = 0]}
        /\ UNCHANGED <<cache, node, beside, kind, wiped>>
    BY <1>17 DEF WipeMain, MaybePut, TableInv, RemoverKnown
  <2>2. main \in [File -> Nat]
    BY <1>1 DEF TypeOK, StoreTypeOK, Versions
  <2>3. ASSUME NEW h \in File, h \notin wiped PROVE main'[h] >= cache[node][h] \/ ~Cached(h)
    BY <1>16, <2>1, <2>2, <2>3 DEF RestoreUnderway
  <2> QED BY <2>1, <2>3 DEF RestoreUnderway, Cached
<1>18. CASE LoseLease \/ Close \/ UNCHANGED vars
  BY <1>16, <1>18 DEF LoseLease, Close, vars, RestoreUnderway, Cached
<1> QED BY <1>3, <1>4, <1>5, <1>6, <1>7, <1>8, <1>9, <1>10, <1>11, <1>12, <1>13, <1>14, <1>15,
           <1>17, <1>18
        DEF Next, LockStep

-----------------------------------------------------------------------------
(* What was removed is on no disk                                          *)

\* What the invariant says of one removed file.
GoneAt(h) ==
    /\ cache[node][h] = 0
    /\ pend[node][h] # 0 => shadow[h] # 0
    /\ job[h] = "clean" \/ remover.file = h => pend[node][h] = 0

LEMMA GoneIsRemovedGone == RemovedGone <=> \A h \in gone : GoneAt(h)
  BY DEF RemovedGone, GoneAt

\* A step that takes no shadow and brings no copy back.
LEMMA GoneKept ==
  ASSUME TypeOK, NEW h \in gone, GoneAt(h), node' = node,
         cache'[node][h] = cache[node][h], pend'[node][h] \in {0, pend[node][h]},
         shadow'[h] = shadow[h], job'[h] \in {"none", "queued", "try", "put", "rm", job[h]},
         remover' = remover \/ remover' = NoRemove
  PROVE  GoneAt(h)'
  BY FilesAssumption DEF GoneAt, NoRemove, TypeOK, ControlTypeOK

\* A writer's file is not a removed one.
LEMMA WriterGone ==
  ASSUME TableInv, SessionRests, RemovedGone, NEW f \in File, WriterStep(f)
  PROVE  RemovedGone'
<1> USE FilesAssumption
    DEF s3Vars, diskVars, sessionVars, flagVars, writerVars, scanVars, loopVars, histVars,
        outsideWriter, outsideRemove, outsideLoop, outsideApi, outsideLock, Recovering, GivenUp
<1>1. TypeOK /\ node \in Node /\ buf[f] \in 0..MaxVersion[f] /\ gone \subseteq File
  BY ContentsAt DEF TableInv, TypeOK, CopyTypeOK, ControlTypeOK
<1>2. f \notin gone
  BY DEF SessionRests, WriterStep, Create, Write, Sync, UploadOk, UploadFails, PersistData,
         PersistChecksum, PersistShadow, UploadDropsPending, UploadReturns
<1>3. UNCHANGED <<gone, node, job, remover>>
  BY DEF WriterStep, Create, Write, Sync, UploadOk, UploadFails, PersistData, PersistChecksum,
         PersistShadow, UploadDropsPending, UploadReturns
<1>4. cache' = cache \/ \E v \in 0..MaxVersion[f] : cache' = OnDisk(cache, f, v)
  <2>1. Write(f) => buf'[f] \in 0..MaxVersion[f]
    <3>1. buf \in [File -> Nat]
      BY <1>1 DEF TypeOK, CopyTypeOK, Contents, Versions
    <3> QED BY <1>1, <3>1 DEF Write
  <2> QED BY <1>1, <2>1
    DEF WriterStep, Create, Write, Sync, UploadOk, UploadFails, PersistData, PersistChecksum,
        PersistShadow, UploadDropsPending, UploadReturns
<1>5. pend' = pend \/ DropPending(f) \/ pend' = OnDisk(pend, f, buf[f])
  BY DEF WriterStep, Create, Write, Sync, UploadOk, UploadFails, PersistData, PersistChecksum,
         PersistShadow, UploadDropsPending, UploadReturns
<1>6. shadow' \in {shadow, [shadow EXCEPT ![f] = 0], [shadow EXCEPT ![f] = buf[f]]}
  BY DEF WriterStep, Create, Write, Sync, UploadOk, UploadFails, PersistData, PersistChecksum,
         PersistShadow, UploadDropsPending, UploadReturns, CleanShadow, MaybePut
<1>7. ASSUME NEW h \in gone PROVE GoneAt(h)'
  <2>1. h \in File /\ h # f
    BY <1>1, <1>2, <1>7
  <2>2. cache'[node][h] = cache[node][h]
    BY <1>1, <1>4, <2>1, CacheAt
  <2>3. pend'[node][h] = pend[node][h]
    BY <1>1, <1>5, <2>1, DropLeaves, PendingWritten
  <2>4. shadow'[h] = shadow[h]
    BY <1>1, <1>6, <2>1 DEF TypeOK, StoreTypeOK, Contents, Versions
  <2> QED BY <1>1, <1>3, <2>2, <2>3, <2>4, GoneKept, GoneIsRemovedGone
<1> QED BY <1>3, <1>7 DEF RemovedGone, GoneAt

\* Remove takes the copies before it takes the shadow.
LEMMA RemoveGone ==
  ASSUME TableInv, RemovedGone, NEW f \in File, RemoveStep(f)
  PROVE  RemovedGone'
<1> USE FilesAssumption
    DEF s3Vars, diskVars, sessionVars, flagVars, writerVars, scanVars, loopVars, histVars,
        outsideWriter, outsideRemove, outsideLoop, outsideApi, outsideLock, Recovering, GivenUp
<1>1. TypeOK /\ node \in Node /\ gone \subseteq File /\ 0 \in 0..MaxVersion[f]
  BY DEF TableInv, TypeOK, ControlTypeOK
<1>2. CASE RemoveBegin(f)
  <2>1. /\ remover = NoRemove /\ gone' = gone \cup {f} /\ cache' = OnDisk(cache, f, 0)
        /\ DropPending(f) /\ remover'.file = f /\ UNCHANGED <<shadow, job, node>>
    BY <1>2 DEF RemoveBegin
  <2>2. ASSUME NEW h \in gone' PROVE GoneAt(h)'
    <3>1. h \in File /\ (h \in gone \/ h = f)
      BY <1>1, <2>1, <2>2
    <3>2. /\ cache'[node][h] = IF h = f THEN 0 ELSE cache[node][h]
          /\ pend'[node][h] = IF h = f THEN 0 ELSE pend[node][h]
      BY <1>1, <2>1, <3>1, CacheAt, DropLeaves
    <3> QED BY <2>1, <3>1, <3>2 DEF RemovedGone, GoneAt
  <2> QED BY <2>2 DEF RemovedGone, GoneAt
<1>3. CASE RemoveShadow(f)
  <2>1. /\ remover.file = f /\ remover'.file = f /\ CleanShadow(f)
        /\ UNCHANGED <<gone, cache, pend, job, node>>
    BY <1>3 DEF RemoveShadow
  <2>2. \A h \in File : h # f => shadow'[h] = shadow[h]
    BY <1>1, <2>1, ShadowCleaned
  <2> QED BY <1>1, <2>1, <2>2 DEF RemovedGone
<1>4. CASE RemoveMain(f)
  <2>1. remover' = NoRemove /\ UNCHANGED <<gone, cache, pend, shadow, job, node>>
    BY <1>4 DEF RemoveMain
  <2> QED BY <1>1, <2>1 DEF RemovedGone, NoRemove
<1> QED BY <1>2, <1>3, <1>4 DEF RemoveStep

\* A goroutine that comes too late finds the pending copy gone.
LEMMA LoopGone ==
  ASSUME TableInv, RemovedGone, LoopStep
  PROVE  RemovedGone'
<1> USE FilesAssumption
    DEF s3Vars, diskVars, sessionVars, flagVars, writerVars, scanVars, loopVars, histVars,
        outsideWriter, outsideRemove, outsideLoop, outsideApi, outsideLock, Recovering, GivenUp
<1>1. TypeOK /\ node \in Node /\ gone \subseteq File /\ job \in [File -> JobAt]
  BY DEF TableInv, TypeOK, ControlTypeOK
<1>2. CASE BgTick \/ BgLastPass \/ BgQueue \/ BgEnds \/ BgStops
  <2>1. /\ UNCHANGED <<gone, cache, pend, shadow, remover, node>>
        /\ \A h \in File : job'[h] \in {"none", "queued", job[h]}
    BY <1>2 DEF BgTick, BgLastPass, BgQueue, BgEnds, BgStops
  <2> QED BY <1>1, <2>1 DEF RemovedGone
<1>3. ASSUME NEW f \in File, BgRead(f) PROVE RemovedGone'
  BY <1>3 DEF BgRead, RemovedGone
<1>4. ASSUME NEW f \in File, BgCheck(f) PROVE RemovedGone'
  <2>1. /\ UNCHANGED <<gone, cache, shadow, remover, node, job>>
        /\ pend' = pend \/ DropPending(f)
    BY <1>4 DEF BgCheck
  <2>2. \A h \in File : pend'[node][h] \in {0, pend[node][h]}
    BY <1>1, <2>1, DropLeaves
  <2> QED BY <1>1, <2>1, <2>2 DEF RemovedGone
<1>5. ASSUME NEW f \in File, JobStart(f) \/ JobTry(f) \/ JobPutOk(f) \/ JobPutFails(f)
      PROVE  RemovedGone'
  <2>1. /\ UNCHANGED <<gone, cache, pend, shadow, remover, node>>
        /\ \A h \in File : job'[h] \in {"none", "try", "put", "rm", job[h]}
    BY <1>1, <1>5 DEF JobStart, JobTry, JobPutOk, JobPutFails
  <2> QED BY <1>1, <2>1 DEF RemovedGone
<1>6. ASSUME NEW f \in File, JobDropsPending(f) PROVE RemovedGone'
  <2>1. /\ UNCHANGED <<gone, cache, shadow, remover, node>>
        /\ DropPending(f) /\ job' = [job EXCEPT ![f] = "clean"]
    BY <1>6 DEF JobDropsPending
  <2>2. \A h \in File : pend'[node][h] = IF h = f THEN 0 ELSE pend[node][h]
    BY <1>1, <2>1, DropLeaves
  <2> QED BY <1>1, <2>1, <2>2 DEF RemovedGone
<1>7. ASSUME NEW f \in File, JobEnds(f) PROVE RemovedGone'
  <2>1. /\ UNCHANGED <<gone, cache, pend, remover, node>>
        /\ CleanShadow(f) /\ job[f] = "clean" /\ job' = [job EXCEPT ![f] = "none"]
    BY <1>7 DEF JobEnds
  <2>2. \A h \in File : h # f => shadow'[h] = shadow[h]
    BY <1>1, <2>1, ShadowCleaned
  <2> QED BY <1>1, <2>1, <2>2 DEF RemovedGone
<1> QED BY <1>2, <1>3, <1>4, <1>5, <1>6, <1>7 DEF LoopStep, JobStep

\* The recovery fetches what still has a shadow, and takes both together.
LEMMA LockGone ==
  ASSUME TableInv, SessionRests, RemovedGone, OneHost, beside = "never", LockStep
  PROVE  RemovedGone'
<1> USE FilesAssumption
    DEF s3Vars, diskVars, sessionVars, flagVars, writerVars, scanVars, loopVars, histVars,
        outsideWriter, outsideRemove, outsideLoop, outsideApi, outsideLock, Recovering, GivenUp
<1>1. /\ TypeOK /\ node \in Node /\ gone \subseteq File
      /\ \A h \in File : shadow[h] \in 0..MaxVersion[h]
  BY ContentsAt DEF TableInv, TypeOK, StoreTypeOK, ControlTypeOK
<1>2. ASSUME Recovering
      PROVE  remover = NoRemove /\ \A h \in File : job[h] # "clean" /\ h # None
  BY <1>2, LockAlone
<1>3. ASSUME NEW n \in Node, LockAcquired(n) PROVE RemovedGone'
  BY <1>1, <1>3 DEF LockAcquired, OneHost, RemovedGone
<1>4. ASSUME NEW f \in File, FetchShadow(f) PROVE RemovedGone'
  <2>1. /\ UNCHANGED <<gone, cache, shadow, remover, job, node>>
        /\ Recovering
        /\ \/ pend' = pend
           \/ shadow[f] # 0 /\ pend' = OnDisk(pend, f, shadow[f])
    BY <1>4 DEF FetchShadow
  <2>2. \A h \in File : pend'[node][h] = pend[node][h] \/ shadow[h] # 0
    BY <1>1, <2>1, PendingWritten
  <2> QED BY <1>1, <1>2, <2>1, <2>2 DEF RemovedGone, NoRemove
<1>5. CASE RecoverScan
  <2> DEFINE bad == PendingFiles \ {h \in PendingFiles : ChecksumFits(h, pend[node][h])}
  <2>1. /\ pend' = [pend EXCEPT ![node] = [h \in File |-> IF h \in bad THEN 0 ELSE pend[node][h]]]
        /\ UNCHANGED <<gone, cache, shadow, remover, job, node>>
    BY <1>5 DEF RecoverScan
  <2>2. pend \in [Node -> Versions]
    BY <1>1, DiskIsVersions DEF TypeOK, StoreTypeOK
  <2>3. \A h \in File : pend'[node][h] \in {0, pend[node][h]}
    BY <1>1, <2>1, <2>2
  <2> HIDE DEF bad
  <2> QED BY <1>1, <2>1, <2>3 DEF RemovedGone
<1>6. ASSUME NEW f \in File, PushPending(f) PROVE RemovedGone'
  <2>1. /\ UNCHANGED <<gone, cache, remover, job, node>>
        /\ UNCHANGED <<shadow, pend>> \/ (DropPending(f) /\ CleanShadow(f))
    BY <1>6 DEF PushPending
  <2>2. CASE UNCHANGED <<shadow, pend>>
    BY <2>1, <2>2 DEF RemovedGone
  <2>3. CASE DropPending(f) /\ CleanShadow(f)
    <3>1. \A h \in File : /\ pend'[node][h] = IF h = f THEN 0 ELSE pend[node][h]
                          /\ h # f => shadow'[h] = shadow[h]
      BY <1>1, <2>3, DropLeaves, ShadowCleaned
    <3> QED BY <1>1, <2>1, <3>1 DEF RemovedGone
  <2> QED BY <2>1, <2>2, <2>3
<1>7. ASSUME NEW f \in File, PushCache(f) PROVE RemovedGone'
  BY <1>7 DEF PushCache, RemovedGone
<1>8. CASE PushDone \/ LockReturns
  BY <1>8 DEF PushDone, LockReturns, RemovedGone
<1>9. CASE LockFails \/ \E f \in File : WipeMain(f)
  BY <1>9 DEF LockFails, WipeMain, RemovedGone
<1>10. ASSUME NEW f \in File, CleanupRestores(f) PROVE RemovedGone'
  <2>1. /\ UNCHANGED <<gone, cache, shadow, remover, job, node>>
        /\ pend' = pend \/ DropPending(f)
    BY <1>10 DEF CleanupRestores
  <2>2. \A h \in File : pend'[node][h] \in {0, pend[node][h]}
    BY <1>1, <2>1, DropLeaves
  <2> QED BY <1>1, <2>1, <2>2 DEF RemovedGone
<1>11. CASE Wipe
  <2>1. /\ UNCHANGED <<gone, shadow, remover, job, node>>
        /\ \A h \in File : /\ pend'[node][h] \in {0, pend[node][h]}
                           /\ cache'[node][h] \in {0, cache[node][h]}
    BY <1>1, <1>11, Wiping DEF Wipe
  <2> QED BY <1>1, <2>1 DEF RemovedGone
<1> QED BY <1>3, <1>4, <1>5, <1>6, <1>7, <1>8, <1>9, <1>10, <1>11 DEF LockStep

LEMMA GoneNext ==
  ASSUME TableInv, SessionRests, RemovedGone, OneHost, beside = "never", api = Idle,
         ~CallsRetryAPI, [Next]_vars
  PROVE  RemovedGone'
<1>1. ASSUME NEW f \in File, WriterStep(f) \/ RemoveStep(f) PROVE RemovedGone'
  BY <1>1, WriterGone, RemoveGone
<1>2. CASE LoopStep
  BY <1>2, LoopGone
<1>3. ~ApiStep
  BY ApiNext
<1>4. CASE LockStep
  BY <1>4, LockGone
<1>5. CASE Crash
  <2>1. gone \subseteq File
    BY DEF TableInv, TypeOK, ControlTypeOK
  <2> QED BY <1>5, <2>1, FilesAssumption
          DEF Crash, RemovedGone, NoRemove, s3Vars, diskVars, histVars
<1>6. CASE Unlock \/ LoseLease \/ Close \/ UNCHANGED vars
  BY <1>6 DEF Unlock, LoseLease, Close, vars, RemovedGone, s3Vars, diskVars, sessionVars, writerVars,
              loopVars, scanVars, histVars
<1> QED BY <1>1, <1>2, <1>3, <1>4, <1>5, <1>6 DEF Next

-----------------------------------------------------------------------------
(* The theorems                                                            *)

LEMMA RecoveryInit == ASSUME Init PROVE RecoveryInv
<1>1. SessionRests
  BY DEF Init, SessionRests, Up
<1>2. CachesHold
  <2> SUFFICES ASSUME NEW f \in File PROVE \E n \in Node : CachedAt(f, n)
    BY DEF CachesHold
  <2>1. /\ node \in Node /\ acked[f] = 0 /\ writer[f] = "none"
        /\ \A n \in Node : cache[n][f] = 0
    BY NothingFits DEF Init
  <2>2. CachedAt(f, node)
    BY <2>1 DEF CachedAt, Uploading
  <2> QED BY <2>1, <2>2
<1>3. api = Idle /\ RestoreUnderway /\ RemovedGone
  BY DEF Init, RestoreUnderway, RemovedGone
<1> QED BY <1>1, <1>2, <1>3 DEF RecoveryInv

LEMMA RecoveryNext == ASSUME TableInv, RecoveryInv, [Next]_vars PROVE RecoveryInv'
<1>1. SessionRests' /\ CachesHold'
  BY RestsNext, HoldNext DEF RecoveryInv
<1>2. ASSUME ~CallsRetryAPI PROVE api' = Idle /\ (beside' # "now" => RestoreUnderway')
  BY <1>2, RestoreNext, ApiNext DEF RecoveryInv
<1>3. ASSUME ~CallsRetryAPI, OneHost', beside' = "never" PROVE RemovedGone'
  <2>1. node \in Node
    BY DEF TableInv, TypeOK, ControlTypeOK
  <2>2. OneHost
    BY <1>3, <2>1 DEF OneHost
  <2>3. beside = "never"
    BY <1>3, BesideNext
  <2> QED BY <1>3, <2>2, <2>3, GoneNext DEF RecoveryInv
<1> QED BY <1>1, <1>2, <1>3 DEF RecoveryInv

\* In every number of sessions on every number of hosts, the local cache of some
\* host holds what the last Sync of a journal or manifest reported and no other
\* host has an older copy, until Remove or the clean-up in Lock() gives the file
\* up; without RetryPendingUploads a Lock() beside a loop at rest uploads every
\* cached file, and on one host, as long as no Lock() ran beside the loop, a
\* removed file is in no cache and is pending only if its shadow stayed
\* (storage.go:54-76, 204-214, 836-866, 1163-1291, 1532-1573).
THEOREM RecoveryInvHolds == Spec => []RecoveryInv
<1>1. Init => RecoveryInv
  BY RecoveryInit
<1>2. TableInv /\ RecoveryInv /\ [Next]_vars => RecoveryInv'
  BY RecoveryNext
<1> QED BY <1>1, <1>2, TableInvHolds, PTL DEF Spec

\* An acknowledged journal or manifest stays in a cache until Remove is called or
\* the clean-up in Lock() takes a copy of it, whatever older pending copies,
\* RetryPendingUploads and crashes do to S3 (storage.go:54-76, 846-866, 1543).
THEOREM CachedCopiesStay == Spec => []CachedCopyKept
<1>1. TableInv /\ RecoveryInv => CachedCopyKept
  BY DEF RecoveryInv, CachesHold, CachedAt, CachedCopyKept, TableInv, TypeOK, CopyTypeOK,
         StoreTypeOK, Contents, Versions
<1> QED BY <1>1, TableInvHolds, RecoveryInvHolds, PTL

\* On one host that does not call RetryPendingUploads, a Lock() beside which the
\* loop was at rest returns only after S3 has nothing older than what a Sync
\* reported of a file that was not given up: of tables because they are never
\* lost, of the others because their cached copies are uploaded last
\* (storage.go:204-214, 1243-1291, 1532-1573).
THEOREM LockRestoresAcked ==
  ASSUME NEW n, Node = {n}, ~CallsRetryAPI
  PROVE  Spec => RecoveryRestoresAcked
<1>1. ASSUME TableInv, RecoveryInv, LockReturns, beside # "now", NEW f \in File \ GivenUp
      PROVE  main[f] >= acked[f]
  <2>1. /\ TypeOK /\ node = n /\ f \notin wiped
        /\ \/ phase = "cache" /\ f \notin todo
           \/ phase = "wipe"
    BY <1>1 DEF TableInv, TypeOK, ControlTypeOK, LockReturns, GivenUp
  <2>2. main[f] \in Nat /\ acked[f] \in Nat /\ cache[node][f] \in Nat
    BY <1>1, <2>1, NumbersAt DEF TypeOK, ControlTypeOK
  <2>3. CASE Cached(f)
    <3>1. PICK m \in Node : CachedAt(f, m)
      BY <1>1, <2>3 DEF RecoveryInv, CachesHold
    <3>2. m = node /\ acked[f] <= cache[node][f]
      BY <2>1, <3>1 DEF CachedAt
    <3>3. main[f] >= cache[node][f]
      BY <1>1, <2>1, <2>3 DEF RecoveryInv, RestoreUnderway
    <3> QED BY <2>2, <3>2, <3>3
  <2>4. CASE ~Cached(f)
    <3>1. kind[f] = "table" /\ acked[f] \in 0..1
      BY <1>1, <2>1, <2>4, ContentsAt, TableOnce DEF Cached, TypeOK, CopyTypeOK
    <3>2. acked[f] > 0 => main[f] > 0
      BY <1>1, <3>1 DEF TableInv, TablesSafe, Safe
    <3> QED BY <2>2, <3>1, <3>2
  <2> QED BY <2>3, <2>4
<1>2. TableInv /\ RecoveryInv /\ [Next]_vars =>
          [LockReturns /\ beside # "now" =>
               \A f \in File \ GivenUp : main[f] >= acked[f]]_vars
  BY <1>1
<1> QED
  BY <1>2, TableInvHolds, RecoveryInvHolds, PTL DEF Spec, RecoveryRestoresAcked

\* The same of S3: a step that puts a removed file into S3 is the upload of a
\* goroutine that has it in hand, or has its shadow to blame.
LEMMA StaysNext ==
  ASSUME TableInv, RecoveryInv, OneHost, ~CallsRetryAPI, beside = "never", Next,
         NEW f \in gone, main[f] = 0, main'[f] # 0
  PROVE  job[f] = "put" \/ shadow[f] # 0
<1> USE FilesAssumption
    DEF s3Vars, diskVars, sessionVars, flagVars, writerVars, scanVars, loopVars, histVars,
        outsideWriter, outsideRemove, outsideLoop, outsideApi, outsideLock, Recovering, GivenUp
<1>1. /\ TypeOK /\ main \in [File -> Nat] /\ f \in File
      /\ SessionRests /\ RestoreUnderway /\ RemovedGone
  BY DEF TableInv, TypeOK, StoreTypeOK, ControlTypeOK, Versions, RecoveryInv
<1>2. ASSUME NEW g \in File, WriterStep(g) PROVE main'[f] = main[f]
  <2>1. g # f
    BY <1>1, <1>2
    DEF SessionRests, WriterStep, Create, Write, Sync, UploadOk, UploadFails, PersistData,
        PersistChecksum, PersistShadow, UploadDropsPending, UploadReturns
  <2>2. main' \in {main, [main EXCEPT ![g] = buf[g]]}
    BY <1>2
    DEF WriterStep, Create, Write, Sync, UploadOk, UploadFails, PersistData, PersistChecksum,
        PersistShadow, UploadDropsPending, UploadReturns, MaybePut
  <2> QED BY <1>1, <2>1, <2>2
<1>3. ASSUME NEW g \in File, RemoveStep(g) PROVE main'[f] \in {0, main[f]}
  BY <1>1, <1>3 DEF RemoveStep, RemoveBegin, RemoveShadow, RemoveMain, MaybePut
<1>4. ASSUME NEW g \in File, JobPutOk(g) \/ JobPutFails(g)
      PROVE  main'[f] = main[f] \/ job[f] = "put"
  BY <1>1, <1>4 DEF JobPutOk, JobPutFails, MaybePut
<1>5. CASE LoopStep /\ ~\E g \in File : JobPutOk(g) \/ JobPutFails(g)
  BY <1>5
  DEF LoopStep, BgTick, BgLastPass, BgQueue, BgEnds, BgStops, BgRead, BgCheck, JobStep,
      JobStart, JobTry, JobDropsPending, JobEnds
<1>6. ~ApiStep
  BY ApiNext DEF RecoveryInv
<1>7. ASSUME NEW g \in File, PushPending(g) PROVE main'[f] = main[f] \/ shadow[f] # 0
  <2>1. main' \in {main, [main EXCEPT ![g] = found[g]]} /\ phase = "push" /\ g \in todo
    BY <1>7 DEF PushPending, MaybePut
  <2>2. g = f => shadow[f] # 0
    BY <1>1, <2>1 DEF RestoreUnderway, RemovedGone
  <2> QED BY <1>1, <2>1, <2>2
<1>8. ASSUME NEW g \in File, main' \in {main, [main EXCEPT ![g] = cache[node][g]]}
      PROVE  main'[f] \in {0, main[f]}
  BY <1>1, <1>8 DEF RemovedGone
<1>9. CASE LockFails \/ \E g \in File : PushCache(g)
  <2>1. \E g \in File : main' \in {main, [main EXCEPT ![g] = cache[node][g]]}
    BY <1>1, <1>9 DEF LockFails, PushCache, MaybePut, TypeOK, ControlTypeOK
  <2> QED BY <1>8, <2>1
<1>10. CASE \/ \E n \in Node : LockAcquired(n)
            \/ \E g \in File : FetchShadow(g)
            \/ RecoverScan \/ PushDone \/ Wipe \/ LockReturns
            \/ Unlock \/ LoseLease \/ Close \/ Crash
  BY <1>10
  DEF LockAcquired, FetchShadow, RecoverScan, PushDone, Wipe, LockReturns, Unlock, LoseLease,
      Close, Crash
<1>11. ASSUME NEW g \in File, WipeMain(g) PROVE main'[f] \in {0, main[f]}
  BY <1>1, <1>11 DEF WipeMain, MaybePut
<1>12. ASSUME NEW g \in File, CleanupRestores(g) PROVE main'[f] = main[f] \/ shadow[f] # 0
  <2>1. \/ main' \in {main, [main EXCEPT ![g] = cache[node][g]]} /\ cache[node][g] # 0
        \/ main' \in {main, [main EXCEPT ![g] = pend[node][g]]} /\ pend[node][g] # 0
    BY <1>12 DEF CleanupRestores, MaybePut
  <2> QED BY <1>1, <2>1 DEF RemovedGone
<1> QED BY <1>2, <1>3, <1>4, <1>5, <1>6, <1>7, <1>9, <1>10, <1>11, <1>12 DEF Next, LockStep

\* On one host that does not call RetryPendingUploads a removed file stays away,
\* unless an upload goroutine has read it before, its shadow could not be
\* deleted, or a Lock() ran beside a loop that was awake: Remove leaves nothing else behind that Lock() or the loop could
\* upload (storage.go:836-866, 1212-1291).
THEOREM RemovedStayAway ==
  ASSUME NEW n, Node = {n}, ~CallsRetryAPI
  PROVE  Spec => RemovedStays
<1>1. TableInv => OneHost
  BY DEF TableInv, TypeOK, ControlTypeOK, OneHost
<1>2. TableInv /\ RecoveryInv /\ [Next]_vars =>
          [\A f \in gone :
               main[f] = 0 /\ main'[f] # 0 =>
                   job[f] = "put" \/ shadow[f] # 0 \/ beside # "never"]_vars
  BY <1>1, StaysNext
<1> QED
  BY <1>2, TableInvHolds, RecoveryInvHolds, PTL DEF Spec, RemovedStays

-----------------------------------------------------------------------------
(* What S3 holds without RetryPendingUploads                               *)

\* A put of what the writer, the scans or the cache have keeps S3 in its type.
LEMMA VersionPut ==
  ASSUME main \in Contents, NEW g \in Contents, NEW f \in File,
         main' \in {main, [main EXCEPT ![f] = g[f]], [main EXCEPT ![f] = 0]}
  PROVE  main' \in Contents
<1>1. g[f] \in 0..MaxVersion[f] /\ 0 \in 0..MaxVersion[f]
  BY FilesAssumption, ContentsAt
<1> QED BY <1>1, ContentsPut

LEMMA WrittenNext ==
  ASSUME TableInv, api = Idle, ~CallsRetryAPI, main \in Contents, Next
  PROVE  main' \in Contents
<1> USE DEF s3Vars, diskVars, sessionVars, flagVars, writerVars, scanVars, loopVars, histVars,
        outsideWriter, outsideRemove, outsideLoop, outsideApi, outsideLock, Recovering, GivenUp
<1>1. /\ batch \in Contents /\ found \in Contents /\ buf \in Contents
      /\ cache[node] \in Contents /\ pend[node] \in Contents
  BY DEF TableInv, TypeOK, CopyTypeOK, StoreTypeOK, ControlTypeOK
<1>2. ASSUME NEW f \in File, WriterStep(f) PROVE main' \in Contents
  <2>1. main' \in {main, [main EXCEPT ![f] = buf[f]]}
    BY <1>2
    DEF WriterStep, Create, Write, Sync, UploadOk, UploadFails, PersistData, PersistChecksum,
        PersistShadow, UploadDropsPending, UploadReturns, MaybePut
  <2> QED BY <1>1, <2>1, VersionPut
<1>3. ASSUME NEW f \in File, RemoveStep(f) \/ WipeMain(f) PROVE main' \in Contents
  <2>1. main' \in {main, [main EXCEPT ![f] = 0]}
    BY <1>3 DEF RemoveStep, RemoveBegin, RemoveShadow, RemoveMain, WipeMain, MaybePut
  <2> QED BY <1>1, <2>1, VersionPut
<1>4. ASSUME NEW f \in File, JobPutOk(f) \/ JobPutFails(f) PROVE main' \in Contents
  <2>1. main' \in {main, [main EXCEPT ![f] = batch[f]]}
    BY <1>4 DEF JobPutOk, JobPutFails, MaybePut
  <2> QED BY <1>1, <2>1, VersionPut
<1>9. ASSUME NEW f \in File, PushPending(f) \/ CleanupRestores(f) PROVE main' \in Contents
  <2>1. \E g \in {found, cache[node], pend[node]} : main' \in {main, [main EXCEPT ![f] = g[f]]}
    BY <1>9 DEF PushPending, CleanupRestores, MaybePut
  <2> QED BY <1>1, <2>1, VersionPut
<1>5. CASE LoopStep /\ ~\E f \in File : JobPutOk(f) \/ JobPutFails(f)
  BY <1>5
  DEF LoopStep, BgTick, BgLastPass, BgQueue, BgEnds, BgStops, BgRead, BgCheck, JobStep,
      JobStart, JobTry, JobDropsPending, JobEnds
<1>6. ~ApiStep
  BY ApiNext
<1>7. CASE LockFails \/ \E f \in File : PushCache(f)
  <2>1. \E f \in File : main' \in {main, [main EXCEPT ![f] = cache[node][f]]}
    BY <1>7 DEF LockFails, PushCache, MaybePut, TableInv, TypeOK, ControlTypeOK
  <2> QED BY <1>1, <2>1, VersionPut
<1>8. CASE \/ \E n \in Node : LockAcquired(n)
           \/ \E f \in File : FetchShadow(f)
           \/ RecoverScan \/ PushDone \/ Wipe \/ LockReturns
           \/ Unlock \/ LoseLease \/ Close \/ Crash
  BY <1>8
  DEF LockAcquired, FetchShadow, RecoverScan, PushDone, Wipe, LockReturns, Unlock, LoseLease,
      Close, Crash
<1> QED BY <1>2, <1>3, <1>4, <1>5, <1>6, <1>7, <1>8, <1>9 DEF Next, LockStep

\* RetryPendingUploads is the only way for a checksum to get under the name of a
\* file: without its calls every object in S3 is a version that a writer has
\* made, on any number of hosts and with torn checksums (storage.go:479-556,
\* 656-717, 1163-1291).
THEOREM OnlyTheAPIWritesGarbage ==
  ASSUME ~CallsRetryAPI
  PROVE  Spec => []OnlyWrittenContent
<1>1. Init => main \in Contents
  BY NothingFits DEF Init
<1>2. TableInv /\ RecoveryInv /\ main \in Contents /\ [Next]_vars => (main \in Contents)'
  BY WrittenNext DEF RecoveryInv, vars, s3Vars
<1>3. main \in Contents => OnlyWrittenContent
  BY DEF Contents, OnlyWrittenContent
<1> QED
  BY <1>1, <1>2, <1>3, TableInvHolds, RecoveryInvHolds, PTL DEF Spec
=============================================================================
