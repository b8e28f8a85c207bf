------------------------------- MODULE S3Lock -------------------------------
(***************************************************************************)
(* The lease lock of levels3: S3Lock (lock.go), the way S3Storage takes    *)
(* and gives it back (storage.go: Lock, storageLocker.Unlock, Unlock,      *)
(* Close, startLeaseMonitoring) and the two goroutines each session        *)
(* starts, the lease renewal and the lease monitor.                        *)
(*                                                                         *)
(* A node is one process with one S3Storage and one S3Lock.  The LOCK      *)
(* object in S3 is one register; every S3 call is one atomic step of it,   *)
(* and a call may also take effect and lose its answer (client.go retries  *)
(* it, or reports the failure).  A clock counts lease time.                *)
(*                                                                         *)
(* The protocol is read-then-write, so it cannot exclude two holders by    *)
(* itself.  The history variable  breach  names each step that acted       *)
(* blindly; ExclusiveUnlessBreach says these steps are the only ways in    *)
(* which two nodes come to hold the lock.                                  *)
(***************************************************************************)
EXTENDS Naturals

CONSTANTS
    Node,           \* processes that open the database
    Dir,            \* node -> its LocalCacheDir; two nodes may share one
    Pid,            \* process ids; two hosts may use the same one
    NoLock,         \* absence of the LOCK object or of the local LOCK file
    LeaseDuration,  \* OpenOption.LeaseDuration, in clock units
    MaxTime,        \* bound on the clock
    MaxIds,         \* bound on the Lock() calls of one node
    Quota           \* node -> bound on its own Lock() calls

Session == 1..MaxIds

\* "{pid}-{timestamp}-{random}": owner and session number stand for the random
\* part, which makes every id new.
LockId == [owner : Node, no : Session, pid : Pid, ts : 0..MaxTime]

ASSUME BoundsAssumption ==
    /\ MaxTime \in Nat
    /\ MaxIds \in Nat
    /\ LeaseDuration \in Nat
    /\ Quota \in [Node -> 0..MaxIds]

ASSUME NoLockAssumption == NoLock \notin LockId

VARIABLES
    now,        \* the clock
    remote,     \* S3 object {Path}/LOCK
    local,      \* directory -> content of its LOCK file
    pc,         \* node -> where its Lock() or Unlock() call is
    pid,        \* node -> os.Getpid() of its process
    lockID,     \* node -> S3Lock.lockID
    serial,     \* node -> number of ids made so far (survives a crash)
    sawLocal,   \* node -> localErr == nil at the start of Lock()
    saw,        \* node -> remote value on which the liveness check passed
    renewer,    \* node -> session -> state of its renewal goroutine
    renewID,    \* node -> session -> id its PutBytes carries
    stopped,    \* node -> stopCh is closed
    leaseErr,   \* node -> leaseErrCh (capacity 1) holds an error
    monitors,   \* node -> lease monitor goroutines still waiting
    lockLost,   \* node -> S3Storage.lockLost
    lockHeld,   \* node -> S3Storage.lockHeld
    closed,     \* node -> S3Storage.closed, hence ctx cancelled
    breach      \* history: kind of the first blind step, or "none"

callVars  == <<pc, lockID, serial, sawLocal, saw>>
renewVars == <<renewer, renewID, stopped, leaseErr>>
flagVars  == <<monitors, lockLost, lockHeld, closed>>
storeVars == <<remote, local>>
vars == <<now, storeVars, pid, callVars, renewVars, flagVars, breach>>

(***************************************************************************)
(* Control points of a call: "exists", "get" (the liveness check), "local" *)
(* and "put" (acquireLock), "recover" (S3Storage.Lock after s3Lock.Lock),  *)
(* "held", "abort" (Unlock after a failed recovery), "rel1" and "rel2"     *)
(* (the two Unlock attempts of a release).  A recovery that has removed    *)
(* the cache directory goes on at "wiped" and ends at "bare", which is     *)
(* "held" without a local LOCK file.                                       *)
(***************************************************************************)
Control == {"idle", "exists", "get", "local", "put", "recover", "wiped",
            "held", "bare", "abort", "rel1", "rel2"}

Breaches == {"blindAcquire", "blindRenew", "blindRelease",
             "staleLive", "sharedDir"}

TypeOK ==
    /\ now \in 0..MaxTime
    /\ remote \in LockId \cup {NoLock}
    /\ local \in [{Dir[n] : n \in Node} -> LockId \cup {NoLock}]
    /\ pc \in [Node -> Control]
    /\ pid \in [Node -> Pid]
    /\ lockID \in [Node -> LockId \cup {NoLock}]
    /\ serial \in [Node -> 0..MaxIds]
    /\ sawLocal \in [Node -> BOOLEAN]
    /\ saw \in [Node -> LockId \cup {NoLock}]
    /\ renewer \in [Node -> [Session -> {"none", "wait", "put"}]]
    /\ renewID \in [Node -> [Session -> LockId \cup {NoLock}]]
    /\ stopped \in [Node -> BOOLEAN]
    /\ leaseErr \in [Node -> BOOLEAN]
    /\ monitors \in [Node -> Nat]
    /\ lockLost \in [Node -> BOOLEAN]
    /\ lockHeld \in [Node -> BOOLEAN]
    /\ closed \in [Node -> BOOLEAN]
    /\ breach \in Breaches \cup {"none"}

Init ==
    /\ now = 0
    /\ remote = NoLock
    /\ local = [d \in {Dir[n] : n \in Node} |-> NoLock]
    /\ pc = [n \in Node |-> "idle"]
    /\ pid \in [Node -> Pid]
    /\ lockID = [n \in Node |-> NoLock]
    /\ serial = [n \in Node |-> 0]
    /\ sawLocal = [n \in Node |-> FALSE]
    /\ saw = [n \in Node |-> NoLock]
    /\ renewer = [n \in Node |-> [k \in Session |-> "none"]]
    /\ renewID = [n \in Node |-> [k \in Session |-> NoLock]]
    /\ stopped = [n \in Node |-> FALSE]
    /\ leaseErr = [n \in Node |-> FALSE]
    /\ monitors = [n \in Node |-> 0]
    /\ lockLost = [n \in Node |-> FALSE]
    /\ lockHeld = [n \in Node |-> FALSE]
    /\ closed = [n \in Node |-> FALSE]
    /\ breach = "none"

-----------------------------------------------------------------------------
(* Helpers                                                                 *)

Goto(n, point) == pc' = [pc EXCEPT ![n] = point]

\* Lock() of m may have written, or is about to write, its id to S3 and has
\* not given up on it.
Claiming(m) == pc[m] \in {"put", "recover", "wiped", "held", "bare"}

Holder(n) == pc[n] \in {"recover", "wiped", "held", "bare"}

\* S3Storage.Lock has returned its locker.
Held(n) == pc[n] \in {"held", "bare"}

LiveClaim(id) == \E m \in Node : Claiming(m) /\ lockID[m] = id

\* The variables of Lock() end with the call.
Forget(n) ==
    /\ sawLocal' = [sawLocal EXCEPT ![n] = FALSE]
    /\ saw' = [saw EXCEPT ![n] = NoLock]

Note(kind, blind) ==
    breach' = IF blind /\ breach = "none" THEN kind ELSE breach

LeaseExpired(id) == now - id.ts > LeaseDuration

\* isLockStale.  isProcessRunning never answers true: Signal(nil) is an error
\* by itself, whatever the process does.  So only the caller's own pid counts
\* as running.
IsLockStale(n, id) == LeaseExpired(id) \/ id.pid # pid[n]

\* Mutant: the process id alone decides.
IsLockHolderByPid(n, id) ==
    sawLocal[n] /\ local[Dir[n]] # NoLock /\ local[Dir[n]].pid = id.pid

\* isLockHolder: the local file, read again, has the remote content.
IsLockHolder(n, id) == sawLocal[n] /\ local[Dir[n]] = id

-----------------------------------------------------------------------------
(* Time                                                                    *)

Tick ==
    /\ now < MaxTime
    /\ now' = now + 1
    /\ UNCHANGED <<pid, storeVars, callVars, renewVars, flagVars, breach>>

-----------------------------------------------------------------------------
(* S3Storage.Lock and S3Lock.Lock                                          *)

LockBegin(n) ==
    /\ pc[n] = "idle"
    /\ ~closed[n]
    /\ serial[n] < Quota[n]
    /\ lockID' = [lockID EXCEPT ![n] =
                    [owner |-> n, no |-> serial[n] + 1, pid |-> pid[n],
                     ts |-> now]]
    /\ serial' = [serial EXCEPT ![n] = @ + 1]
    /\ sawLocal' = [sawLocal EXCEPT ![n] = local[Dir[n]] # NoLock]
    /\ Goto(n, "exists")
    /\ UNCHANGED <<now, pid, storeVars, saw, renewVars, flagVars, breach>>

Exists(n) ==
    /\ pc[n] = "exists"
    /\ \/ /\ remote # NoLock
          /\ Goto(n, "get")
          /\ UNCHANGED saw
       \/ /\ remote = NoLock
          /\ saw' = [saw EXCEPT ![n] = NoLock]
          /\ Goto(n, "local")
    /\ UNCHANGED <<now, pid, storeVars, lockID, serial, sawLocal, renewVars,
                   flagVars, breach>>

\* The LOCK in S3 is our own left-over: take it over.
CheckHolder(n) ==
    /\ pc[n] = "get"
    /\ remote # NoLock
    /\ IsLockHolder(n, remote)
    /\ saw' = [saw EXCEPT ![n] = remote]
    /\ Note("sharedDir", LiveClaim(remote))
    /\ Goto(n, "local")
    /\ UNCHANGED <<now, pid, storeVars, lockID, serial, sawLocal, renewVars,
                   flagVars>>

\* The LOCK in S3 looks dead: take it over.
CheckStale(n) ==
    /\ pc[n] = "get"
    /\ remote # NoLock
    /\ ~IsLockHolder(n, remote)
    /\ IsLockStale(n, remote)
    /\ saw' = [saw EXCEPT ![n] = remote]
    /\ Note("staleLive", LiveClaim(remote))
    /\ Goto(n, "local")
    /\ UNCHANGED <<now, pid, storeVars, lockID, serial, sawLocal, renewVars,
                   flagVars>>

\* Mutant: the lock of a live owner is taken over.
CheckTakesOver(n) ==
    /\ pc[n] = "get"
    /\ remote # NoLock
    /\ saw' = [saw EXCEPT ![n] = remote]
    /\ Goto(n, "local")
    /\ UNCHANGED <<now, pid, storeVars, lockID, serial, sawLocal, renewVars,
                   flagVars, breach>>

\* ErrLockHeld.
CheckRefuses(n) ==
    /\ pc[n] = "get"
    /\ remote # NoLock
    /\ ~IsLockHolder(n, remote)
    /\ ~IsLockStale(n, remote)
    /\ Goto(n, "idle")
    /\ Forget(n)
    /\ UNCHANGED <<now, pid, storeVars, lockID, serial, renewVars,
                   flagVars, breach>>

\* Exists or GetBytes fails (GetBytes also when LOCK is gone by now), or the
\* local file cannot be written; half of it is as good as none.
LockFails(n) ==
    /\ pc[n] \in {"exists", "get", "local"}
    /\ \/ UNCHANGED local
       \/ pc[n] = "local" /\ local' = [local EXCEPT ![Dir[n]] = NoLock]
    /\ Goto(n, "idle")
    /\ Forget(n)
    /\ UNCHANGED <<now, pid, remote, lockID, serial, renewVars,
                   flagVars, breach>>

\* Mutant: the local file is not written.
SkipLocal(n) ==
    /\ pc[n] = "local"
    /\ Goto(n, "put")
    /\ UNCHANGED <<now, pid, storeVars, lockID, serial, sawLocal, saw,
                   renewVars, flagVars, breach>>

WriteLocal(n) ==
    /\ pc[n] = "local"
    /\ local' = [local EXCEPT ![Dir[n]] = lockID[n]]
    /\ Goto(n, "put")
    /\ UNCHANGED <<now, pid, remote, lockID, serial, sawLocal, saw, renewVars,
                   flagVars, breach>>

\* The write of acquireLock reaches S3; it is blind when LOCK is no longer
\* what the check saw.
PutLock(n) ==
    /\ remote' = lockID[n]
    /\ Note("blindAcquire", remote \notin {saw[n], lockID[n]})

\* PutBytes answers: the renewal starts (it returns from its first select when
\* stopCh is closed already), and S3Storage.Lock starts the monitor.
PutLockOk(n) ==
    /\ pc[n] = "put"
    /\ PutLock(n)
    /\ renewer' = IF stopped[n] THEN renewer
                  ELSE [renewer EXCEPT ![n][lockID[n].no] = "wait"]
    /\ monitors' = [monitors EXCEPT ![n] = @ + 1]
    /\ Goto(n, "recover")
    /\ Forget(n)
    /\ UNCHANGED <<now, pid, local, lockID, serial, renewID,
                   stopped, leaseErr, lockLost, lockHeld, closed>>

\* The write takes effect but its answer is lost; WithRetry is still at it.
PutLockLost(n) ==
    /\ pc[n] = "put"
    /\ PutLock(n)
    /\ UNCHANGED <<now, pid, local, callVars, renewVars, flagVars>>

\* Mutant: the error of the write is ignored.
PutLockErrorIgnored(n) ==
    /\ pc[n] = "put"
    /\ Goto(n, "recover")
    /\ Forget(n)
    /\ UNCHANGED <<now, pid, storeVars, lockID, serial, renewVars, flagVars,
                   breach>>

\* Retries are used up: the local file is cleaned up.
PutLockFails(n) ==
    /\ pc[n] = "put"
    /\ local' = [local EXCEPT ![Dir[n]] = NoLock]
    /\ Goto(n, "idle")
    /\ Forget(n)
    /\ UNCHANGED <<now, pid, remote, lockID, serial, renewVars,
                   flagVars, breach>>

\* cleanupOrphaned gives the database up: removeAllOrphaned tests lockLost and
\* removes the cache directory, and with it the LOCK file of the lock in hand.
\* When os.RemoveAll fails this is only logged and the file may stay.
WipeDir(n) ==
    /\ pc[n] = "recover"
    /\ ~lockLost[n]
    /\ local' = [local EXCEPT ![Dir[n]] = NoLock]
    /\ Goto(n, "wiped")
    /\ UNCHANGED <<now, pid, remote, lockID, serial, sawLocal, saw, renewVars,
                   flagVars, breach>>

\* syncPendingToS3, syncLocalToS3 and cleanupOrphaned are done; lockHeld is set
\* whatever lockLost says.
RecoverOk(n) ==
    /\ pc[n] \in {"recover", "wiped"}
    /\ lockHeld' = [lockHeld EXCEPT ![n] = TRUE]
    /\ Goto(n, IF pc[n] = "recover" THEN "held" ELSE "bare")
    /\ UNCHANGED <<now, pid, storeVars, lockID, serial, sawLocal, saw,
                   renewVars, monitors, lockLost, closed, breach>>

\* syncLocalToS3 fails: S3Lock.Unlock once, then Lock returns the error.
RecoverFails(n) ==
    /\ pc[n] = "recover"
    /\ stopped' = [stopped EXCEPT ![n] = TRUE]
    /\ Goto(n, "abort")
    /\ UNCHANGED <<now, pid, storeVars, lockID, serial, sawLocal, saw, renewer,
                   renewID, leaseErr, flagVars, breach>>

-----------------------------------------------------------------------------
(* Release: storageLocker.Unlock (the path goleveldb takes) and            *)
(* S3Storage.Unlock.  Both skip S3Lock.Unlock once the lock is lost.       *)

Release(n) ==
    /\ Held(n)
    /\ \/ /\ lockLost[n]
          /\ Goto(n, "idle")
          /\ UNCHANGED stopped
       \/ /\ ~lockLost[n]
          /\ stopped' = [stopped EXCEPT ![n] = TRUE]
          /\ Goto(n, "rel1")
    /\ UNCHANGED <<now, pid, storeVars, lockID, serial, sawLocal, saw, renewer,
                   renewID, leaseErr, monitors, lockLost, closed, breach>>

StorageLockerUnlock(n) == Release(n) /\ UNCHANGED lockHeld

StorageUnlock(n) == Release(n) /\ lockHeld' = [lockHeld EXCEPT ![n] = FALSE]

\* The delete reaches S3; it is blind when LOCK is another one by now.
DeleteLock(n) ==
    /\ remote' = NoLock
    /\ Note("blindRelease", remote \notin {NoLock, lockID[n]})

\* The first attempt of a release uses the storage's context, which Close
\* cancels; the second has a context of its own.
CanCall(n) == pc[n] = "rel2" \/ (pc[n] \in {"abort", "rel1"} /\ ~closed[n])

ReleaseOk(n) ==
    /\ CanCall(n)
    /\ DeleteLock(n)
    /\ local' = [local EXCEPT ![Dir[n]] = NoLock]
    /\ Goto(n, "idle")
    /\ UNCHANGED <<now, pid, lockID, serial, sawLocal, saw, renewVars,
                   flagVars>>

ReleaseLost(n) ==
    /\ CanCall(n)
    /\ DeleteLock(n)
    /\ UNCHANGED <<now, pid, local, callVars, renewVars, flagVars>>

ReleaseFails(n) ==
    /\ pc[n] \in {"abort", "rel1", "rel2"}
    /\ Goto(n, IF pc[n] = "rel1" THEN "rel2" ELSE "idle")
    /\ UNCHANGED <<now, pid, storeVars, lockID, serial, sawLocal, saw,
                   renewVars, flagVars, breach>>

-----------------------------------------------------------------------------
(* The renewal goroutine of session k                                      *)

\* select takes the ticker; it may do so with stopCh closed, for select picks
\* at random among what is ready.  The id is read from S3Lock at this moment.
RenewTick(n, k) ==
    /\ renewer[n][k] = "wait"
    /\ renewer' = [renewer EXCEPT ![n][k] = "put"]
    /\ renewID' = [renewID EXCEPT ![n][k] = lockID[n]]
    /\ UNCHANGED <<now, pid, storeVars, callVars, stopped, leaseErr, flagVars,
                   breach>>

\* renewLease writes the id as it was made, whatever LOCK holds by now.
RenewPut(n, k) ==
    /\ renewer[n][k] = "put"
    /\ ~closed[n]
    /\ remote' = renewID[n][k]
    /\ Note("blindRenew", remote # renewID[n][k])

RenewOk(n, k) ==
    /\ RenewPut(n, k)
    /\ renewer' = [renewer EXCEPT ![n][k] = "wait"]
    /\ renewID' = [renewID EXCEPT ![n][k] = NoLock]
    /\ UNCHANGED <<now, pid, local, callVars, stopped, leaseErr, flagVars>>

RenewLost(n, k) ==
    /\ RenewPut(n, k)
    /\ UNCHANGED <<now, pid, local, callVars, renewVars, flagVars>>

RenewFails(n, k) ==
    /\ renewer[n][k] = "put"
    /\ renewer' = [renewer EXCEPT ![n][k] = "none"]
    /\ renewID' = [renewID EXCEPT ![n][k] = NoLock]
    /\ leaseErr' = [leaseErr EXCEPT ![n] = TRUE]
    /\ UNCHANGED <<now, pid, storeVars, callVars, stopped, flagVars,
                   breach>>

\* Mutant: the goroutine does not wait on stopCh.
RenewStopsOnClose(n, k) ==
    /\ renewer[n][k] = "wait"
    /\ closed[n]
    /\ renewer' = [renewer EXCEPT ![n][k] = "none"]
    /\ UNCHANGED <<now, pid, storeVars, callVars, renewID, stopped, leaseErr,
                   flagVars, breach>>

RenewStop(n, k) ==
    /\ renewer[n][k] = "wait"
    /\ stopped[n] \/ closed[n]
    /\ renewer' = [renewer EXCEPT ![n][k] = "none"]
    /\ UNCHANGED <<now, pid, storeVars, callVars, renewID, stopped, leaseErr,
                   flagVars, breach>>

-----------------------------------------------------------------------------
(* The lease monitor, Close and the end of the process                     *)

\* Mutant: the error is only logged.
MonitorLogs(n) ==
    /\ monitors[n] > 0
    /\ leaseErr[n]
    /\ leaseErr' = [leaseErr EXCEPT ![n] = FALSE]
    /\ monitors' = [monitors EXCEPT ![n] = @ - 1]
    /\ UNCHANGED <<now, pid, storeVars, callVars, renewer, renewID, stopped,
                   lockLost, lockHeld, closed, breach>>

MonitorFires(n) ==
    /\ monitors[n] > 0
    /\ leaseErr[n]
    /\ leaseErr' = [leaseErr EXCEPT ![n] = FALSE]
    /\ lockLost' = [lockLost EXCEPT ![n] = TRUE]
    /\ monitors' = [monitors EXCEPT ![n] = @ - 1]
    /\ UNCHANGED <<now, pid, storeVars, callVars, renewer, renewID, stopped,
                   lockHeld, closed, breach>>

MonitorStops(n) ==
    /\ monitors[n] > 0
    /\ closed[n]
    /\ monitors' = [monitors EXCEPT ![n] = @ - 1]
    /\ UNCHANGED <<now, pid, storeVars, callVars, renewVars, lockLost,
                   lockHeld, closed, breach>>

\* Close takes s.mu, which S3Storage.Lock and S3Storage.Unlock hold to their
\* end and storageLocker.Unlock does not take.
Close(n) ==
    /\ ~closed[n]
    /\ \/ pc[n] = "idle" \/ Held(n)
       \/ pc[n] \in {"rel1", "rel2"} /\ lockHeld[n]
    /\ closed' = [closed EXCEPT ![n] = TRUE]
    /\ UNCHANGED <<now, pid, storeVars, callVars, renewVars, monitors,
                   lockLost, lockHeld, breach>>

\* The process ends, at any point, and a new one starts: S3 and the local file
\* are all that stays.
Crash(n) ==
    /\ lockID[n] # NoLock
    /\ pc' = [pc EXCEPT ![n] = "idle"]
    /\ lockID' = [lockID EXCEPT ![n] = NoLock]
    /\ sawLocal' = [sawLocal EXCEPT ![n] = FALSE]
    /\ saw' = [saw EXCEPT ![n] = NoLock]
    /\ renewer' = [renewer EXCEPT ![n] = [k \in Session |-> "none"]]
    /\ renewID' = [renewID EXCEPT ![n] = [k \in Session |-> NoLock]]
    /\ stopped' = [stopped EXCEPT ![n] = FALSE]
    /\ leaseErr' = [leaseErr EXCEPT ![n] = FALSE]
    /\ monitors' = [monitors EXCEPT ![n] = 0]
    /\ lockLost' = [lockLost EXCEPT ![n] = FALSE]
    /\ lockHeld' = [lockHeld EXCEPT ![n] = FALSE]
    /\ closed' = [closed EXCEPT ![n] = FALSE]
    /\ \E p \in Pid : pid' = [pid EXCEPT ![n] = p]
    /\ UNCHANGED <<now, storeVars, serial, breach>>

-----------------------------------------------------------------------------
LockStep(n) ==
    \/ LockBegin(n) \/ Exists(n)
    \/ CheckHolder(n) \/ CheckStale(n) \/ CheckRefuses(n) \/ LockFails(n)
    \/ WriteLocal(n) \/ PutLockOk(n) \/ PutLockLost(n) \/ PutLockFails(n)
    \/ WipeDir(n) \/ RecoverOk(n) \/ RecoverFails(n)

UnlockStep(n) ==
    \/ StorageLockerUnlock(n) \/ StorageUnlock(n)
    \/ ReleaseOk(n) \/ ReleaseLost(n) \/ ReleaseFails(n)

RenewStep(n, k) ==
    \/ RenewTick(n, k) \/ RenewOk(n, k) \/ RenewLost(n, k)
    \/ RenewFails(n, k) \/ RenewStop(n, k)

NodeStep(n) ==
    \/ LockStep(n) \/ UnlockStep(n)
    \/ \E k \in Session : RenewStep(n, k)
    \/ MonitorFires(n) \/ MonitorStops(n) \/ Close(n) \/ Crash(n)

Next == Tick \/ \E n \in Node : NodeStep(n)

Spec == Init /\ [][Next]_vars

-----------------------------------------------------------------------------
(* Properties                                                              *)

\* As long as no step has acted blindly, LOCK in S3 is the holder's own, so
\* two nodes never hold the lock together: the read-then-write of Lock, the
\* unconditional renewal and the unconditional delete of Unlock, a staleness
\* verdict on a live owner and a shared cache directory are the only ways to
\* break mutual exclusion (lock.go:47-78, 85-103, 125-143, 209-211).
ExclusiveUnlessBreach ==
    breach = "none" =>
        /\ \A n \in Node : Holder(n) => remote = lockID[n]
        /\ \A m, n \in Node : Holder(m) /\ Holder(n) => m = n

\* The two facts that make ExclusiveUnlessBreach inductive.  An id becomes
\* visible in S3 only once its owner is at the write, and who passed the
\* liveness check on it passed before its owner claimed it.
FreshIdUnseen ==
    \A m \in Node : pc[m] \in {"exists", "get", "local"} =>
        /\ remote # lockID[m]
        /\ \A n \in Node : saw[n] # lockID[m]

ClaimUnseen ==
    \A m, n \in Node :
        m # n /\ Claiming(m) /\ pc[n] \in {"local", "put"}
            => saw[n] # lockID[m]

\* What is known of the ids in S3 and in the checks: numbers never run ahead of
\* their owner.
SeenKnown ==
    \A n \in Node :
        /\ remote # NoLock /\ remote.owner = n => remote.no <= serial[n]
        /\ \A m \in Node : saw[m] # NoLock /\ saw[m].owner = n
                               => saw[m].no <= serial[n]

\* The id of a call is the last one its node made.
OwnIdKnown ==
    \A n \in Node :
        /\ lockID[n] # NoLock =>
               lockID[n].owner = n /\ lockID[n].no = serial[n]
        /\ pc[n] # "idle" => lockID[n] # NoLock

HolderOwnsLock == \A n \in Node : Holder(n) => remote = lockID[n]

LockCore ==
    /\ OwnIdKnown
    /\ breach = "none" =>
           SeenKnown /\ FreshIdUnseen /\ ClaimUnseen /\ HolderOwnsLock

\* The inductive invariant behind ExclusiveUnlessBreach: an id is seen by
\* another node only after its owner claims it, and the LOCK of a holder stays
\* in S3 until a blind step (lock.go:47-165).
LockInv == TypeOK /\ LockCore

\* A process that ends during or after the write of its LOCK finds that LOCK to
\* be its own when it comes back: the local file is written first
\* (lock.go:146-162) and removed last (lock.go:95-100), and nothing a renewal or
\* another node does touches it.  Two things take this away: another process
\* in its directory, and the clean-up of its own Lock(), which removes the file
\* of the lock in hand (storage.go:1541-1550); after it the file is gone until
\* the next Lock() and the owner waits for its own lease like a stranger.
Alone(n) == \A m \in Node : Dir[m] = Dir[n] => m = n

Wiped(n) == pc[n] \in {"wiped", "bare"}

HolderIdentifiable ==
    \A n \in Node : Claiming(n) /\ Alone(n) =>
        local[Dir[n]] = IF Wiped(n) THEN NoLock ELSE lockID[n]

\* The other direction: what isLockHolder takes for a left-over of the caller is
\* the LOCK of a process that still uses it only where two processes share
\* LocalCacheDir, whatever ids coincide and however old the local file is
\* (lock.go:146-165, 201-211): a file in a directory of one's own is by oneself.
LeftoverIsOwn ==
    /\ \A n \in Node : Alone(n) /\ local[Dir[n]] # NoLock
                         => local[Dir[n]].owner = n
    /\ breach = "sharedDir" => \E n \in Node : ~Alone(n)

\* Every renewal failure of an open storage reaches a monitor, however the
\* sessions overlap, so that the writes are fenced off (storage.go:1142-1161):
\* the error never sits in leaseErrCh with nobody to take it.
LeaseLossFences ==
    \A n \in Node :
        (leaseErr[n] /\ ~closed[n])
            ~> (lockLost[n] \/ closed[n] \/ lockID[n] = NoLock)

\* Once Unlock has closed stopCh, every renewal goroutine ends, also one that
\* was in the middle of a write (lock.go:172-199).
RenewalEnds ==
    \A n \in Node : stopped[n] ~>
        (~stopped[n] \/ \A k \in Session : renewer[n][k] = "none")

\* The goroutines run; select is fair to a closed channel; an S3 call ends.
Fairness ==
    \A n \in Node :
        /\ WF_vars(MonitorFires(n))
        /\ \A k \in Session :
               /\ SF_vars(RenewStop(n, k))
               /\ WF_vars(RenewOk(n, k) \/ RenewFails(n, k))

LiveSpec == Spec /\ Fairness

-----------------------------------------------------------------------------
(* Refinement                                                              *)

Mutex == INSTANCE LeaseMutex WITH
    holders <- {n \in Node : Holder(n)},
    broken <- (breach # "none")

\* Lock, renewal, monitor, release, Close, crash and lost answers together are
\* a mutex up to the first blind step: nobody becomes a holder while another
\* process is one, by whatever road it came to hold (lock.go:47-165, 209-211,
\* storage.go:188-251).
ImplementsMutex == Mutex!Spec

-----------------------------------------------------------------------------
(* What a comment says and the code does not do                            *)

\* lock.go:229-230: the pid check identifies the locks of definitely-dead
\* processes; a lock whose lease is running and whose owner lives is not stale.
StaleOwnerDead ==
    [][\A n \in Node :
           CheckStale(n) /\ LiveClaim(remote) => LeaseExpired(remote)]_vars
=============================================================================
