--------------------------- MODULE LockedStorage ---------------------------
(***************************************************************************)
(* The lease lock composed with those who write to S3 under it: S3Lock     *)
(* with its renewal and monitor, and in each process a call of goleveldb   *)
(* (uploadFile, Remove, SetMeta or Rename), an upload goroutine of the     *)
(* background loop, and the recovery inside Lock().  The first two test    *)
(* lockLost some time before the S3 calls it protects and do several of    *)
(* them under one test; the recovery tests it only before the clean-up.    *)
(*                                                                         *)
(* What is written is the subject of PendingUpload; here only when.        *)
(***************************************************************************)
EXTENDS S3Lock

\* The writes to S3 an operation may still do when it has passed its test: a put
\* and then the shadow put of persistToLocal or the delete of cleanShadow; the
\* deletes of shadow and file; CURRENT; and for Rename the copy, the delete and
\* the put of the shadows, the delete of the source and its second attempt.
OpWrites == [uploadFile |-> 2, Remove |-> 2, SetMeta |-> 1, Rename |-> 5]

Ops == DOMAIN OpWrites

VARIABLES
    api,    \* node -> a call of goleveldb is past its test
    bg,     \* node -> where its upload goroutine is
    left,   \* node -> actor -> writes it may still do under the passed test
    late,   \* history: node -> actor -> writes begun after lockLost, capped
    adrift  \* history: nodes whose recovery began a write after lockLost

writeVars == <<api, bg, left, late, adrift>>
allVars == <<vars, writeVars>>

Actors == {"api", "bg"}

\* The most an actor writes under one test.  An upload goroutine puts the file
\* and then deletes its shadow.
Most == [x \in Actors |-> IF x = "api" THEN 5 ELSE 2]

InitAll ==
    /\ Init
    /\ api = [n \in Node |-> FALSE]
    /\ bg = [n \in Node |-> "idle"]
    /\ left = [n \in Node |-> [x \in Actors |-> 0]]
    /\ late = [n \in Node |-> [x \in Actors |-> 0]]
    /\ adrift = {}

\* The test is passed: the operation may do so many writes.
Grant(n, actor, writes) == left' = [left EXCEPT ![n][actor] = writes]

\* A write leaves the process.
Begins(n, actor) ==
    /\ left' = [left EXCEPT ![n][actor] = @ - 1]
    /\ late' = IF lockLost[n] /\ late[n][actor] <= Most[actor]
               THEN [late EXCEPT ![n][actor] = @ + 1] ELSE late

-----------------------------------------------------------------------------
(* The calls of goleveldb.  It works between Lock and Unlock only.         *)

\* Mutant: the call does not look at lockLost.
ApiUnchecked(n) ==
    /\ ~api[n] /\ Held(n)
    /\ api' = [api EXCEPT ![n] = TRUE]
    /\ \E op \in Ops : Grant(n, "api", OpWrites[op])
    /\ UNCHANGED <<vars, bg, late, adrift>>

\* The test of lockLost; an open writer can be synced also after Close.
ApiCheck(n) ==
    /\ ~api[n] /\ Held(n)
    /\ ~lockLost[n]
    /\ api' = [api EXCEPT ![n] = TRUE]
    /\ \E op \in Ops : Grant(n, "api", OpWrites[op])
    /\ UNCHANGED <<vars, bg, late, adrift>>

\* The next write of the call, with no further test.
ApiWrite(n) ==
    /\ api[n] /\ left[n]["api"] > 0
    /\ Begins(n, "api")
    /\ UNCHANGED <<vars, api, bg, adrift>>

\* The call returns, after its last write or because one has failed.
ApiEnds(n) ==
    /\ api[n]
    /\ api' = [api EXCEPT ![n] = FALSE]
    /\ Grant(n, "api", 0)
    /\ UNCHANGED <<vars, bg, late, adrift>>

-----------------------------------------------------------------------------
(* retryPendingFilesOnce and uploadWithInfiniteRetry                       *)

\* A pending file is found, by the ticker or in the pass that Close asks for.
BgScan(n) ==
    /\ bg[n] = "idle"
    /\ ~lockLost[n] /\ lockHeld[n]
    /\ bg' = [bg EXCEPT ![n] = "try"]
    /\ UNCHANGED <<vars, api, left, late, adrift>>

\* Mutant: the loop does not look at lockLost.
BgTryBlindly(n) ==
    /\ bg[n] = "try"
    /\ \/ closed[n] /\ bg' = [bg EXCEPT ![n] = "idle"] /\ UNCHANGED left
       \/ ~closed[n] /\ bg' = [bg EXCEPT ![n] = "go"] /\ Grant(n, "bg", Most["bg"])
    /\ UNCHANGED <<vars, api, late, adrift>>

\* Head of the loop: retryStopCh and lockLost, not lockHeld.
BgTry(n) ==
    /\ bg[n] = "try"
    /\ \/ /\ closed[n] \/ lockLost[n]
          /\ bg' = [bg EXCEPT ![n] = "idle"]
          /\ UNCHANGED left
       \/ /\ ~closed[n] /\ ~lockLost[n]
          /\ bg' = [bg EXCEPT ![n] = "go"]
          /\ Grant(n, "bg", Most["bg"])
    /\ UNCHANGED <<vars, api, late, adrift>>

BgPut(n) ==
    /\ bg[n] = "go"
    /\ bg' = [bg EXCEPT ![n] = "put"]
    /\ Begins(n, "bg")
    /\ UNCHANGED <<vars, api, adrift>>

\* The put succeeds: the shadow is deleted, again without a test.
BgClean(n) ==
    /\ bg[n] = "put"
    /\ bg' = [bg EXCEPT ![n] = "clean"]
    /\ Begins(n, "bg")
    /\ UNCHANGED <<vars, api, adrift>>

\* The goroutine is through, or its put has failed and RetryMaxDuration is over.
BgEnds(n) ==
    /\ bg[n] \in {"put", "clean"}
    /\ bg' = [bg EXCEPT ![n] = "idle"]
    /\ Grant(n, "bg", 0)
    /\ UNCHANGED <<vars, api, late, adrift>>

\* The put fails; after the back-off the loop begins again.
BgAgain(n) ==
    /\ bg[n] = "put"
    /\ bg' = [bg EXCEPT ![n] = "try"]
    /\ Grant(n, "bg", 0)
    /\ UNCHANGED <<vars, api, late, adrift>>

-----------------------------------------------------------------------------
(* The recovery inside Lock()                                              *)

\* syncPendingToS3, syncLocalToS3 and cleanupOrphaned put files and delete
\* shadows, one call per file, and look at no flag; removeAllOrphaned looked
\* once and then deletes every file.
RecoveryWrite(n) ==
    /\ pc[n] \in {"recover", "wiped"}
    /\ adrift' = IF lockLost[n] THEN adrift \cup {n} ELSE adrift
    /\ UNCHANGED <<vars, api, bg, left, late>>

-----------------------------------------------------------------------------
\* goleveldb has closed its writers before it unlocks.  Lock and Unlock of
\* S3Storage do not wait for a writer, and nobody waits for the goroutine.
LockMoves(n) ==
    /\ \/ LockStep(n)
       \/ ~api[n] /\ StorageLockerUnlock(n)
       \/ StorageUnlock(n) \/ ReleaseOk(n) \/ ReleaseLost(n) \/ ReleaseFails(n)
       \/ \E k \in Session : RenewStep(n, k)
       \/ MonitorFires(n) \/ MonitorStops(n)
    /\ UNCHANGED writeVars

\* Close waits for the background loop, but closed and ctx are set before.
CloseAll(n) == Close(n) /\ UNCHANGED writeVars

CrashAll(n) ==
    /\ Crash(n)
    /\ api' = [api EXCEPT ![n] = FALSE]
    /\ bg' = [bg EXCEPT ![n] = "idle"]
    /\ left' = [left EXCEPT ![n] = [x \in Actors |-> 0]]
    /\ late' = [late EXCEPT ![n] = [x \in Actors |-> 0]]
    /\ adrift' = adrift \ {n}

WriteStep(n) ==
    \/ ApiCheck(n) \/ ApiWrite(n) \/ ApiEnds(n)
    \/ BgScan(n) \/ BgTry(n) \/ BgPut(n) \/ BgClean(n) \/ BgEnds(n) \/ BgAgain(n)
    \/ RecoveryWrite(n)

NextAll ==
    \/ Tick /\ UNCHANGED writeVars
    \/ \E n \in Node : LockMoves(n) \/ CloseAll(n) \/ CrashAll(n) \/ WriteStep(n)

SpecAll == InitAll /\ [][NextAll]_allVars

\* The goroutines run and every S3 call ends (operationContext); a release or a
\* Lock() may hang for as long as it likes.
FairnessAll ==
    \A n \in Node :
        /\ WF_allVars(MonitorFires(n) /\ UNCHANGED writeVars)
        /\ \A k \in Session :
               /\ SF_allVars(RenewStop(n, k) /\ UNCHANGED writeVars)
               /\ WF_allVars((RenewOk(n, k) \/ RenewFails(n, k)) /\ UNCHANGED writeVars)
        /\ WF_allVars(ApiWrite(n) \/ ApiEnds(n))
        /\ WF_allVars(BgTry(n) \/ BgPut(n) \/ BgClean(n) \/ BgEnds(n) \/ BgAgain(n))

LiveSpecAll == SpecAll /\ FairnessAll

-----------------------------------------------------------------------------
(* Properties                                                              *)

WriteTypeOK ==
    /\ api \in [Node -> BOOLEAN]
    /\ bg \in [Node -> {"idle", "try", "go", "put", "clean"}]
    /\ left \in [Node -> [Actors -> 0..5]]
    /\ late \in [Node -> [Actors -> 0..6]]
    /\ adrift \in SUBSET Node

\* What the goroutine may still write, by where it is.
BgLeft == [idle |-> 0, try |-> 0, go |-> 2, put |-> 1, clean |-> 0]

\* The inductive invariant of the fencing: before the loss nothing is late, and
\* from then on what an actor has written and what it may still write come from
\* the one test it had passed, so together they stay within what one operation
\* does (storage.go:484-515, 552-577, 857-965, 1048-1053, 1074-1081).
FencingInv ==
    /\ WriteTypeOK
    /\ \A n \in Node : left[n]["bg"] = BgLeft[bg[n]]
    /\ \A n \in Node : n \in adrift => lockLost[n]
    /\ \A n \in Node, x \in Actors :
           IF lockLost[n] THEN late[n][x] + left[n][x] <= Most[x]
                          ELSE late[n][x] = 0 /\ left[n][x] <= Most[x]

\* Who holds the lock in its first session is renewed, or the failure of the
\* renewal is known to a flag or on its way to one (lock.go:172-199,
\* storage.go:1142-1161).  After an Unlock this is lost: stopCh stays closed.
RenewedOrFenced ==
    \A n \in Node :
        Holder(n) /\ ~stopped[n] /\ ~closed[n] =>
            \/ \E k \in Session : renewer[n][k] # "none"
            \/ leaseErr[n] /\ monitors[n] > 0
            \/ lockLost[n]

\* Fencing: once the lease is known to be lost, a writer and an upload goroutine
\* begin no more than what is left of the one operation whose test was passed
\* already: five writes of a Rename, or the put and the delete of an upload,
\* over any number of retries, sessions and new calls (storage.go:484-515,
\* 868-957, 1048-1053, 1074-1081, 1135-1141).  The recovery inside Lock() is not
\* fenced and is not counted here: see RecoveryFenced.
LateWritesBounded ==
    \A n \in Node, x \in Actors : late[n][x] <= Most[x]

\* With the lease lost the writes die out: no put that is repeated for ever
\* (storage.go:1067-1111).
WritesCease ==
    \A n \in Node :
        <>[]lockLost[n] => <>[](~api[n] /\ bg[n] = "idle")

-----------------------------------------------------------------------------
(* What a comment says and the code does not do                            *)

\* storage.go:1000-1001: who does not hold the distributed lock uploads no
\* pending file.  storageLocker.Unlock leaves lockHeld set, so the scans go on
\* after the release has returned.
NoUploadWithoutLock ==
    [][\A n \in Node :
           BgScan(n) => remote = lockID[n] \/ pc[n] # "idle"]_allVars

\* storage.go:200-201: the monitor starts before the recovery so that a renewal
\* that fails meanwhile is noticed at once and writing is forbidden.  No put of
\* the recovery looks at lockLost.
RecoveryFenced == adrift = {}
=============================================================================
