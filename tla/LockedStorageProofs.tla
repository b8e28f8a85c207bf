------------------------ MODULE LockedStorageProofs ------------------------
(* The lock with those who write under it, for every set of nodes and every  *)
(* bound: the composition keeps what the lock promises, the loss of a lease  *)
(* is never silent in a first session, and it fences the writes.             *)
EXTENDS LockedStorage, S3LockProofs

\* The writers take no step of the lock.
LEMMA ComposedStep == ASSUME [NextAll]_allVars PROVE [Next]_vars
<1>1. ASSUME NEW n \in Node, LockMoves(n) PROVE Next
  BY <1>1 DEF LockMoves, Next, NodeStep, UnlockStep
<1>2. ASSUME NEW n \in Node, CloseAll(n) \/ CrashAll(n) PROVE Next
  BY <1>2 DEF CloseAll, CrashAll, Next, NodeStep
<1>3. ASSUME NEW n \in Node, WriteStep(n) PROVE UNCHANGED vars
  BY <1>3 DEF WriteStep, ApiCheck, ApiWrite, ApiEnds, BgScan, BgTry, BgPut, BgClean, BgEnds, BgAgain,
     RecoveryWrite
<1> QED BY <1>1, <1>2, <1>3 DEF NextAll, Next, allVars

\* What is proved of the lock holds under the writers: they are its users, not
\* a part of it (storage.go:990-1111, 1004-1014).
THEOREM ComposedImplementsLock == SpecAll => Spec
<1>1. InitAll => Init
  BY DEF InitAll
<1>2. [NextAll]_allVars => [Next]_vars
  BY ComposedStep
<1> QED BY <1>1, <1>2, PTL DEF SpecAll, Spec

-----------------------------------------------------------------------------
(* Fencing                                                                 *)

\* lockLost is set by the monitor and goes only with the process.
LEMMA LostStays ==
  ASSUME TypeOK, NEW m \in Node, LockMoves(m) \/ CloseAll(m), NEW n \in Node, lockLost[n]
  PROVE  lockLost'[n]
<1> USE DEF Goto, storeVars, renewVars, flagVars, callVars
<1>1. CASE LockStep(m)
  BY <1>1 DEF LockStep, LockBegin, Exists, CheckHolder, CheckStale, CheckRefuses, LockFails,
     WriteLocal, PutLockOk, PutLockLost, PutLockFails, WipeDir, RecoverOk, RecoverFails
<1>2. CASE StorageLockerUnlock(m) \/ StorageUnlock(m) \/ ReleaseOk(m) \/ ReleaseLost(m) \/ ReleaseFails(m)
  BY <1>2 DEF StorageLockerUnlock, StorageUnlock, Release, ReleaseOk, ReleaseLost, ReleaseFails
<1>3. ASSUME NEW k \in Session, RenewStep(m, k) PROVE lockLost'[n]
  BY <1>3 DEF RenewStep, RenewTick, RenewOk, RenewLost, RenewFails, RenewStop
<1>4. CASE MonitorFires(m) \/ MonitorStops(m) \/ CloseAll(m)
  BY <1>4 DEF MonitorFires, MonitorStops, CloseAll, Close, TypeOK
<1> QED BY <1>1, <1>2, <1>3, <1>4 DEF LockMoves

LEMMA FencingNext ==
  ASSUME TypeOK, FencingInv, [NextAll]_allVars PROVE FencingInv'
<1> USE DEF Actors, Most, Ops, OpWrites, BgLeft
<1>1. ASSUME NEW m \in Node, LockMoves(m) \/ CloseAll(m) PROVE FencingInv'
  <2>1. UNCHANGED writeVars
    BY <1>1 DEF LockMoves, CloseAll
  <2>2. \A n \in Node : lockLost[n] => lockLost'[n]
    BY <1>1, LostStays
  <2> QED
    <3>1. WriteTypeOK'
      BY <2>1 DEF FencingInv, WriteTypeOK, writeVars
    <3>2. ASSUME NEW n \in Node, NEW x \in Actors, lockLost'[n]
          PROVE  late'[n][x] + left'[n][x] <= Most[x]
      <4>1. /\ late'[n][x] = late[n][x] /\ left'[n][x] = left[n][x]
            /\ late[n][x] \in 0..6 /\ left[n][x] \in 0..5 /\ Most[x] \in 0..5
        BY <2>1 DEF FencingInv, WriteTypeOK, writeVars
      <4>2. CASE lockLost[n]
        BY <4>1, <4>2 DEF FencingInv
      <4>3. CASE ~lockLost[n]
        BY <4>1, <4>3 DEF FencingInv
      <4> QED BY <4>2, <4>3
    <3>3. ASSUME NEW n \in Node, NEW x \in Actors, ~lockLost'[n]
          PROVE  late'[n][x] = 0 /\ left'[n][x] <= Most[x]
      BY <2>1, <2>2, <3>3 DEF FencingInv, writeVars
    <3> QED BY <2>1, <2>2, <3>1, <3>2, <3>3 DEF FencingInv, writeVars
<1>2. CASE (Tick /\ UNCHANGED writeVars) \/ UNCHANGED allVars
  <2>1. UNCHANGED <<lockLost, api, bg, left, late, adrift>>
    BY <1>2 DEF Tick, allVars, vars, flagVars, writeVars
  <2> QED BY <2>1 DEF FencingInv, WriteTypeOK
<1>3. ASSUME NEW n \in Node, CrashAll(n) PROVE FencingInv'
  <2>1. /\ \A m \in Node \ {n} : lockLost'[m] = lockLost[m]
        /\ lockLost'[n] = FALSE
    BY <1>3 DEF CrashAll, Crash, TypeOK
  <2>2. /\ bg' = [bg EXCEPT ![n] = "idle"] /\ api' = [api EXCEPT ![n] = FALSE]
        /\ left' = [left EXCEPT ![n] = [x \in Actors |-> 0]]
        /\ late' = [late EXCEPT ![n] = [x \in Actors |-> 0]]
        /\ adrift' = adrift \ {n}
    BY <1>3 DEF CrashAll
  <2>3. WriteTypeOK'
    BY <2>2 DEF FencingInv, WriteTypeOK
  <2>4. ASSUME NEW m \in Node
        PROVE  /\ left'[m]["bg"] = BgLeft[bg'[m]]
               /\ m \in adrift' => lockLost'[m]
               /\ \A x \in Actors :
                     IF lockLost'[m] THEN late'[m][x] + left'[m][x] <= Most[x]
                                     ELSE late'[m][x] = 0 /\ left'[m][x] <= Most[x]
    <3>1. CASE m = n
      BY <2>1, <2>2, <3>1 DEF FencingInv, WriteTypeOK
    <3>2. CASE m # n
      BY <2>1, <2>2, <3>2 DEF FencingInv, WriteTypeOK
    <3> QED BY <3>1, <3>2
  <2> QED BY <2>3, <2>4 DEF FencingInv
<1>4. ASSUME NEW n \in Node, NEW y \in Actors, NEW w \in 0..5, Grant(n, y, w),
             UNCHANGED <<lockLost, late, adrift>>,
             w = 0 \/ (~lockLost[n] /\ w <= Most[y]),
             \/ y = "api" /\ api' \in [Node -> BOOLEAN] /\ bg' = bg
             \/ /\ y = "bg" /\ api' = api
                /\ \E point \in {"idle", "try", "go"} :
                      bg' = [bg EXCEPT ![n] = point] /\ BgLeft[point] = w
      PROVE  FencingInv'
  <2>1. left' = [left EXCEPT ![n][y] = w]
    BY <1>4 DEF Grant
  <2>2. WriteTypeOK'
    <3>1. left' \in [Node -> [Actors -> 0..5]]
      BY <1>4, <2>1 DEF FencingInv, WriteTypeOK
    <3>2. bg' \in [Node -> {"idle", "try", "go", "put", "clean"}] /\ api' \in [Node -> BOOLEAN]
      BY <1>4 DEF FencingInv, WriteTypeOK
    <3> QED BY <1>4, <3>1, <3>2 DEF FencingInv, WriteTypeOK
  <2>3. ASSUME NEW m \in Node PROVE left'[m]["bg"] = BgLeft[bg'[m]]
    BY <1>4, <2>1 DEF FencingInv, WriteTypeOK
  <2>4. ASSUME NEW m \in Node, NEW x \in Actors
        PROVE  IF lockLost'[m] THEN late'[m][x] + left'[m][x] <= Most[x]
                               ELSE late'[m][x] = 0 /\ left'[m][x] <= Most[x]
    <3>1. CASE m = n /\ x = y
      <4>1. left'[n][y] = w /\ late'[n][y] = late[n][y] /\ lockLost'[n] = lockLost[n]
        BY <1>4, <2>1 DEF FencingInv, WriteTypeOK
      <4>2. late[n][y] \in 0..6 /\ left[n][y] \in 0..5 /\ Most[y] \in 0..5
        BY DEF FencingInv, WriteTypeOK
      <4>3. CASE lockLost[n]
        BY <1>4, <3>1, <4>1, <4>2, <4>3 DEF FencingInv
      <4>4. CASE ~lockLost[n]
        BY <1>4, <3>1, <4>1, <4>2, <4>4 DEF FencingInv
      <4> QED BY <4>3, <4>4
    <3>2. CASE ~(m = n /\ x = y)
      <4>1. left'[m][x] = left[m][x]
        BY <2>1, <3>2 DEF FencingInv, WriteTypeOK
      <4> QED BY <1>4, <4>1 DEF FencingInv
    <3> QED BY <3>1, <3>2
  <2> QED BY <1>4, <2>2, <2>3, <2>4 DEF FencingInv
<1>5. ASSUME NEW n \in Node, NEW y \in Actors, Begins(n, y), left[n][y] > 0,
             UNCHANGED <<lockLost, api, adrift>>,
             \/ y = "api" /\ bg' = bg
             \/ y = "bg" /\ bg[n] = "go" /\ bg' = [bg EXCEPT ![n] = "put"]
             \/ y = "bg" /\ bg[n] = "put" /\ bg' = [bg EXCEPT ![n] = "clean"]
      PROVE  FencingInv'
  <2>1. left' = [left EXCEPT ![n][y] = left[n][y] - 1] /\ left[n][y] \in 1..5 /\ left[n][y] <= Most[y]
    BY <1>5 DEF Begins, FencingInv, WriteTypeOK
  <2>2. CASE lockLost[n]
    <3>1. late[n][y] + left[n][y] <= Most[y] /\ late[n][y] \in 0..6
      BY <2>2 DEF FencingInv, WriteTypeOK
    <3>2. late' = [late EXCEPT ![n][y] = late[n][y] + 1] /\ late[n][y] + 1 \in 0..6
      BY <1>5, <2>1, <2>2, <3>1 DEF Begins
    <3>3. WriteTypeOK'
      <4>1. left' \in [Node -> [Actors -> 0..5]] /\ late' \in [Node -> [Actors -> 0..6]]
        BY <2>1, <3>2 DEF FencingInv, WriteTypeOK
      <4> QED BY <1>5, <4>1 DEF FencingInv, WriteTypeOK
    <3>4. ASSUME NEW m \in Node PROVE left'[m]["bg"] = BgLeft[bg'[m]]
      BY <1>5, <2>1 DEF FencingInv, WriteTypeOK
    <3>5. ASSUME NEW m \in Node, NEW x \in Actors
          PROVE  IF lockLost'[m] THEN late'[m][x] + left'[m][x] <= Most[x]
                                 ELSE late'[m][x] = 0 /\ left'[m][x] <= Most[x]
      <4>1. CASE m = n /\ x = y
        BY <1>5, <2>1, <2>2, <3>1, <3>2, <4>1 DEF FencingInv, WriteTypeOK
      <4>2. CASE ~(m = n /\ x = y)
        <5>1. left'[m][x] = left[m][x] /\ late'[m][x] = late[m][x]
          BY <2>1, <3>2, <4>2 DEF FencingInv, WriteTypeOK
        <5> QED BY <1>5, <5>1 DEF FencingInv
      <4> QED BY <4>1, <4>2
    <3> QED BY <1>5, <3>3, <3>4, <3>5 DEF FencingInv
  <2>3. CASE ~lockLost[n]
    <3>1. late' = late
      BY <1>5, <2>3 DEF Begins
    <3>2. WriteTypeOK'
      <4>1. left' \in [Node -> [Actors -> 0..5]]
        BY <2>1 DEF FencingInv, WriteTypeOK
      <4> QED BY <1>5, <3>1, <4>1 DEF FencingInv, WriteTypeOK
    <3>3. ASSUME NEW m \in Node PROVE left'[m]["bg"] = BgLeft[bg'[m]]
      BY <1>5, <2>1 DEF FencingInv, WriteTypeOK
    <3>4. ASSUME NEW m \in Node, NEW x \in Actors
          PROVE  IF lockLost'[m] THEN late'[m][x] + left'[m][x] <= Most[x]
                                 ELSE late'[m][x] = 0 /\ left'[m][x] <= Most[x]
      <4>1. CASE m = n /\ x = y
        BY <1>5, <2>1, <2>3, <3>1, <4>1 DEF FencingInv, WriteTypeOK
      <4>2. CASE ~(m = n /\ x = y)
        <5>1. left'[m][x] = left[m][x]
          BY <2>1, <4>2 DEF FencingInv, WriteTypeOK
        <5> QED BY <1>5, <3>1, <5>1 DEF FencingInv
      <4> QED BY <4>1, <4>2
    <3> QED BY <1>5, <3>2, <3>3, <3>4 DEF FencingInv
  <2> QED BY <2>2, <2>3
<1>6. ASSUME NEW n \in Node, ApiCheck(n) PROVE FencingInv'
  <2>1. PICK op \in Ops : Grant(n, "api", OpWrites[op])
    BY <1>6 DEF ApiCheck
  <2>2. /\ OpWrites[op] \in 0..5 /\ OpWrites[op] <= Most["api"]
        /\ ~lockLost[n] /\ UNCHANGED <<lockLost, late, adrift, bg>>
        /\ api' \in [Node -> BOOLEAN]
    BY <1>6 DEF ApiCheck, vars, flagVars, FencingInv, WriteTypeOK
  <2> QED BY <1>4, <2>1, <2>2
<1>7. ASSUME NEW n \in Node, ApiEnds(n) PROVE FencingInv'
  <2>1. /\ Grant(n, "api", 0) /\ UNCHANGED <<lockLost, late, adrift, bg>>
        /\ api' \in [Node -> BOOLEAN]
    BY <1>7 DEF ApiEnds, vars, flagVars, FencingInv, WriteTypeOK
  <2> QED BY <1>4, <2>1
<1>8. ASSUME NEW n \in Node, BgScan(n) \/ BgTry(n) \/ BgEnds(n) \/ BgAgain(n) PROVE FencingInv'
  <2>1. UNCHANGED <<lockLost, late, adrift, api>>
    BY <1>8 DEF BgScan, BgTry, BgEnds, BgAgain, vars, flagVars
  <2>2. CASE \E point \in {"idle", "try"} : bg' = [bg EXCEPT ![n] = point] /\ Grant(n, "bg", 0)
    <3>1. PICK point \in {"idle", "try"} : bg' = [bg EXCEPT ![n] = point]
      BY <2>2
    <3>2. Grant(n, "bg", 0) /\ BgLeft[point] = 0
      BY <2>2, <3>1
    <3>3. \E q \in {"idle", "try", "go"} : bg' = [bg EXCEPT ![n] = q] /\ BgLeft[q] = 0
      BY <3>1, <3>2
    <3>4. 0 \in 0..5 /\ "bg" \in Actors /\ UNCHANGED <<lockLost, late, adrift>> /\ api' = api
      BY <2>1
    <3> HIDE DEF Actors, Most, BgLeft
    <3> QED BY <1>4, <3>2, <3>3, <3>4, Zenon
  <2>3. CASE BgTry(n) /\ ~closed[n] /\ ~lockLost[n]
    <3>1. bg' = [bg EXCEPT ![n] = "go"] /\ Grant(n, "bg", 2)
      BY <2>3 DEF BgTry
    <3>2. \E q \in {"idle", "try", "go"} : bg' = [bg EXCEPT ![n] = q] /\ BgLeft[q] = 2
      BY <3>1
    <3>3. 2 \in 0..5 /\ "bg" \in Actors /\ ~lockLost[n] /\ 2 <= Most["bg"]
      BY <2>3
    <3>4. UNCHANGED <<lockLost, late, adrift>> /\ api' = api
      BY <2>1
    <3> HIDE DEF Actors, Most, BgLeft
    <3> QED BY <1>4, <3>1, <3>2, <3>3, <3>4, Zenon
  <2>4. CASE bg[n] \in {"idle", "try"} /\ UNCHANGED left
             /\ \E point \in {"idle", "try"} : bg' = [bg EXCEPT ![n] = point]
    <3>1. WriteTypeOK'
      BY <2>1, <2>4 DEF FencingInv, WriteTypeOK
    <3>2. ASSUME NEW m \in Node PROVE left'[m]["bg"] = BgLeft[bg'[m]]
      BY <2>4 DEF FencingInv, WriteTypeOK
    <3> QED BY <2>1, <2>4, <3>1, <3>2 DEF FencingInv
  <2> QED BY <1>8, <2>2, <2>3, <2>4 DEF BgScan, BgTry, BgEnds, BgAgain
<1>9. ASSUME NEW n \in Node, ApiWrite(n) PROVE FencingInv'
  <2>1. Begins(n, "api") /\ left[n]["api"] > 0 /\ UNCHANGED <<lockLost, api, adrift, bg>>
    BY <1>9 DEF ApiWrite, vars, flagVars
  <2> QED BY <1>5, <2>1
<1>10. ASSUME NEW n \in Node, BgPut(n) \/ BgClean(n) PROVE FencingInv'
  <2>1. /\ Begins(n, "bg") /\ UNCHANGED <<lockLost, api, adrift>>
        /\ \/ bg[n] = "go" /\ bg' = [bg EXCEPT ![n] = "put"]
           \/ bg[n] = "put" /\ bg' = [bg EXCEPT ![n] = "clean"]
    BY <1>10 DEF BgPut, BgClean, vars, flagVars
  <2>2. left[n]["bg"] > 0
    BY <2>1 DEF FencingInv
  <2> QED BY <1>5, <2>1, <2>2
<1>11. ASSUME NEW n \in Node, RecoveryWrite(n) PROVE FencingInv'
  BY <1>11 DEF RecoveryWrite, vars, flagVars, FencingInv, WriteTypeOK
<1> QED BY <1>1, <1>2, <1>3, <1>6, <1>7, <1>8, <1>9, <1>10, <1>11 DEF NextAll, WriteStep

\* Whatever the lock, the renewals, the retries and the calls do: what a writer or
\* an upload goroutine writes after the loss belongs to one operation whose test
\* came before it, and there is no second one (storage.go:484-515, 868-957,
\* 990-1014, 1048-1081, 1135-1161).
THEOREM FencingHolds == SpecAll => []FencingInv
<1>1. InitAll => FencingInv
  BY DEF InitAll, FencingInv, WriteTypeOK, Actors, Most, BgLeft
<1>2. TypeOK /\ FencingInv /\ [NextAll]_allVars => FencingInv'
  BY FencingNext
<1> QED BY <1>1, <1>2, ComposedImplementsLock, TypeCorrect, PTL DEF SpecAll

\* After the loss of its lease a process begins at most five more writes of the
\* call in progress and two of an upload goroutine, however long it goes on; the
\* recovery of a Lock() is not among them (storage.go:484-515, 868-957,
\* 1048-1081).
THEOREM FewLateWrites == SpecAll => []LateWritesBounded
<1>1. FencingInv => LateWritesBounded
  <2> SUFFICES ASSUME FencingInv, NEW n \in Node, NEW x \in Actors PROVE late[n][x] <= Most[x]
    BY DEF LateWritesBounded
  <2>1. late[n][x] \in 0..6 /\ left[n][x] \in 0..5 /\ Most[x] \in 0..5
    BY DEF FencingInv, WriteTypeOK, Actors, Most
  <2>2. CASE lockLost[n]
    BY <2>1, <2>2 DEF FencingInv
  <2>3. CASE ~lockLost[n]
    BY <2>1, <2>3 DEF FencingInv
  <2> QED BY <2>2, <2>3
<1> QED BY <1>1, FencingHolds, PTL

-----------------------------------------------------------------------------
(* A lost lease is not silent                                              *)

\* Somebody waits for the error of the renewal of an open storage.
MonitorWaits ==
    \A n \in Node :
        ~lockLost[n] /\ ~closed[n]
            /\ (Holder(n) \/ \E k \in Session : renewer[n][k] # "none")
        => monitors[n] > 0

RenewInv == MonitorWaits /\ RenewedOrFenced

\* A step of one node leaves the others' part of RenewInv alone.
LEMMA RenewNext ==
  ASSUME TypeOK, OwnIdKnown, RenewInv, [Next]_vars PROVE RenewInv'
<1> USE DEF Goto, storeVars, renewVars, flagVars, callVars, Holder
<1>1. ASSUME NEW n \in Node, LockStep(n) PROVE RenewInv'
  <2>1. CASE PutLockOk(n)
    <3>1. lockID[n].no \in Session
      <4>1. lockID[n] \in LockId
        BY <2>1 DEF PutLockOk, OwnIdKnown, TypeOK
      <4> QED BY <4>1 DEF LockId
    <3>2. monitors' = [monitors EXCEPT ![n] = @ + 1] /\ monitors'[n] > 0
      BY <2>1 DEF PutLockOk, TypeOK
    <3>3. pc' = [pc EXCEPT ![n] = "recover"] /\ UNCHANGED <<stopped, closed, leaseErr, lockLost>>
      BY <2>1 DEF PutLockOk
    <3>4. ~stopped[n] => renewer'[n][lockID[n].no] = "wait"
      BY <2>1, <3>1 DEF PutLockOk, TypeOK
    <3>5. \A m \in Node \ {n} : renewer'[m] = renewer[m] /\ monitors'[m] = monitors[m] /\ pc'[m] = pc[m]
      BY <2>1, <3>2, <3>3 DEF PutLockOk, TypeOK
    <3>6. MonitorWaits'
      BY <3>2, <3>3, <3>5 DEF RenewInv, MonitorWaits, TypeOK
    <3>7. RenewedOrFenced'
      <4>1. SUFFICES ASSUME NEW m \in Node, Holder(m)', ~stopped[m], ~closed[m]
                     PROVE  \/ \E k \in Session : renewer'[m][k] # "none"
                            \/ leaseErr[m] /\ monitors'[m] > 0
                            \/ lockLost[m]
        BY <3>3 DEF RenewedOrFenced
      <4>2. CASE m = n
        BY <3>1, <3>4, <4>1, <4>2
      <4>3. CASE m # n
        BY <3>5, <4>1, <4>3 DEF RenewInv, RenewedOrFenced
      <4> QED BY <4>2, <4>3
    <3> QED BY <3>6, <3>7 DEF RenewInv
  <2>2. CASE WipeDir(n) \/ RecoverOk(n) \/ RecoverFails(n)
    BY <2>2 DEF WipeDir, RecoverOk, RecoverFails, RenewInv, MonitorWaits, RenewedOrFenced, TypeOK
  <2>3. CASE \/ LockBegin(n) \/ Exists(n) \/ CheckHolder(n) \/ CheckStale(n) \/ CheckRefuses(n)
             \/ LockFails(n) \/ WriteLocal(n) \/ PutLockFails(n) \/ PutLockLost(n)
    <3>1. /\ UNCHANGED <<renewer, stopped, leaseErr, monitors, lockLost, closed>>
          /\ \A m \in Node : Holder(m)' => Holder(m)
      BY <2>3 DEF LockBegin, Exists, CheckHolder, CheckStale, CheckRefuses, LockFails, WriteLocal,
         PutLockFails, PutLockLost, Forget, TypeOK
    <3> QED BY <3>1 DEF RenewInv, MonitorWaits, RenewedOrFenced
  <2> QED BY <1>1, <2>1, <2>2, <2>3 DEF LockStep
<1>2. ASSUME NEW n \in Node, UnlockStep(n) PROVE RenewInv'
  <2>1. /\ UNCHANGED <<renewer, leaseErr, monitors, lockLost, closed>>
        /\ \A m \in Node : Holder(m)' => Holder(m) /\ stopped'[m] = stopped[m]
    BY <1>2 DEF UnlockStep, StorageLockerUnlock, StorageUnlock, Release, ReleaseOk, ReleaseLost,
       ReleaseFails, TypeOK, Held
  <2> QED BY <2>1 DEF RenewInv, MonitorWaits, RenewedOrFenced
<1>3. ASSUME NEW n \in Node, NEW k \in Session, RenewStep(n, k) PROVE RenewInv'
  <2>1. CASE RenewTick(n, k) \/ RenewOk(n, k)
    <3>1. /\ UNCHANGED <<pc, stopped, leaseErr, monitors, lockLost, closed>>
          /\ \A m \in Node, j \in Session : renewer'[m][j] # "none" <=> renewer[m][j] # "none"
      <4>1. /\ UNCHANGED <<pc, stopped, leaseErr, monitors, lockLost, closed>>
            /\ renewer[n][k] # "none"
            /\ \E state \in {"wait", "put"} : renewer' = [renewer EXCEPT ![n][k] = state]
        BY <2>1 DEF RenewTick, RenewOk, RenewPut
      <4>2. \A m \in Node, j \in Session :
               IF m = n /\ j = k THEN renewer'[m][j] # "none" ELSE renewer'[m][j] = renewer[m][j]
        BY <4>1 DEF TypeOK
      <4> QED BY <4>1, <4>2
    <3> QED BY <3>1 DEF RenewInv, MonitorWaits, RenewedOrFenced
  <2>2. CASE RenewLost(n, k)
    BY <2>2 DEF RenewLost, RenewInv, MonitorWaits, RenewedOrFenced
  <2>3. CASE RenewFails(n, k)
    <3>1. /\ UNCHANGED <<pc, stopped, monitors, lockLost, closed>>
          /\ renewer[n][k] # "none"
          /\ leaseErr' = [leaseErr EXCEPT ![n] = TRUE]
          /\ \A m \in Node, j \in Session : renewer'[m][j] # "none" => renewer[m][j] # "none"
          /\ \A m \in Node \ {n} : renewer'[m] = renewer[m]
      <4>1. /\ renewer[n][k] = "put" /\ renewer' = [renewer EXCEPT ![n][k] = "none"]
            /\ UNCHANGED <<pc, stopped, monitors, lockLost, closed>>
            /\ leaseErr' = [leaseErr EXCEPT ![n] = TRUE]
        BY <2>3 DEF RenewFails
      <4>2. \A m \in Node, j \in Session :
               renewer'[m][j] = IF m = n /\ j = k THEN "none" ELSE renewer[m][j]
        BY <4>1 DEF TypeOK
      <4>3. \A m \in Node \ {n} : renewer'[m] = renewer[m]
        BY <4>1 DEF TypeOK
      <4> QED BY <4>1, <4>2, <4>3
    <3>2. MonitorWaits'
      BY <3>1 DEF RenewInv, MonitorWaits
    <3>3. RenewedOrFenced'
      BY <3>1 DEF RenewInv, MonitorWaits, RenewedOrFenced, TypeOK
    <3> QED BY <3>2, <3>3 DEF RenewInv
  <2>4. CASE RenewStop(n, k)
    <3>1. /\ UNCHANGED <<pc, stopped, leaseErr, monitors, lockLost, closed>>
          /\ stopped[n] \/ closed[n]
          /\ \A m \in Node, j \in Session : renewer'[m][j] # "none" => renewer[m][j] # "none"
          /\ \A m \in Node \ {n} : renewer'[m] = renewer[m]
      BY <2>4 DEF RenewStop, TypeOK
    <3> QED BY <3>1 DEF RenewInv, MonitorWaits, RenewedOrFenced
  <2> QED BY <1>3, <2>1, <2>2, <2>3, <2>4 DEF RenewStep
<1>4. ASSUME NEW n \in Node, MonitorFires(n) \/ MonitorStops(n) PROVE RenewInv'
  <2>1. /\ UNCHANGED <<pc, renewer, stopped, closed>>
        /\ \A m \in Node \ {n} : /\ monitors'[m] = monitors[m] /\ leaseErr'[m] = leaseErr[m]
                                 /\ lockLost'[m] = lockLost[m]
        /\ lockLost'[n] \/ closed[n]
    BY <1>4 DEF MonitorFires, MonitorStops, TypeOK
  <2> QED BY <2>1 DEF RenewInv, MonitorWaits, RenewedOrFenced
<1>5. ASSUME NEW n \in Node, Close(n) PROVE RenewInv'
  BY <1>5 DEF Close, RenewInv, MonitorWaits, RenewedOrFenced, TypeOK
<1>6. ASSUME NEW n \in Node, Crash(n) PROVE RenewInv'
  <2>1. /\ pc'[n] = "idle" /\ \A k \in Session : renewer'[n][k] = "none"
        /\ \A m \in Node \ {n} :
              /\ pc'[m] = pc[m] /\ renewer'[m] = renewer[m] /\ stopped'[m] = stopped[m]
              /\ leaseErr'[m] = leaseErr[m] /\ monitors'[m] = monitors[m]
              /\ lockLost'[m] = lockLost[m] /\ closed'[m] = closed[m]
    BY <1>6 DEF Crash, TypeOK
  <2> QED BY <2>1 DEF RenewInv, MonitorWaits, RenewedOrFenced
<1>7. CASE Tick \/ UNCHANGED vars
  BY <1>7 DEF Tick, vars, RenewInv, MonitorWaits, RenewedOrFenced
<1> QED BY <1>1, <1>2, <1>3, <1>4, <1>5, <1>6, <1>7 DEF Next, NodeStep

\* A holder in its first session is being renewed, or the failure is known to
\* S3Storage or on its way to a monitor that waits for it (lock.go:172-199,
\* storage.go:1142-1161).
THEOREM LossIsSeen == SpecAll => []RenewedOrFenced
<1>1. Init => RenewInv
  BY DEF Init, RenewInv, MonitorWaits, RenewedOrFenced, Holder
<1>2. TypeOK /\ LockInv /\ RenewInv /\ [Next]_vars => RenewInv'
  BY RenewNext DEF LockInv, LockCore
<1>3. RenewInv => RenewedOrFenced
  BY DEF RenewInv
<1>4. Spec => []RenewedOrFenced
  BY <1>1, <1>2, <1>3, TypeCorrect, LockInvHolds, PTL DEF Spec
<1> QED BY <1>4, ComposedImplementsLock, PTL

\* The safety half of LeaseLossFences: an error in leaseErrCh meets a monitor that
\* waits, unless the writes are fenced already; for overlapping sessions too.
ErrorHeard ==
    \A n \in Node : leaseErr[n] /\ ~lockLost[n] /\ ~closed[n] => monitors[n] > 0

LEMMA HeardNext ==
  ASSUME TypeOK, RenewInv, ErrorHeard, [Next]_vars PROVE ErrorHeard'
<1> USE DEF Goto, storeVars, renewVars, flagVars, callVars
<1> SUFFICES ASSUME NEW n \in Node, leaseErr'[n], ~lockLost'[n], ~closed'[n]
             PROVE  monitors'[n] > 0
  BY DEF ErrorHeard
<1>1. CASE UNCHANGED <<leaseErr, lockLost, closed, monitors>>
  BY <1>1 DEF ErrorHeard
<1>2. ASSUME NEW m \in Node, LockStep(m) PROVE monitors'[n] > 0
  <2>1. CASE PutLockOk(m)
    <3>1. /\ UNCHANGED <<leaseErr, lockLost, closed>>
          /\ monitors' = [monitors EXCEPT ![m] = monitors[m] + 1]
          /\ monitors \in [Node -> Nat]
      BY <2>1 DEF PutLockOk, TypeOK
    <3>2. monitors[n] > 0
      BY <3>1 DEF ErrorHeard
    <3> QED BY <3>1, <3>2
  <2>2. CASE ~PutLockOk(m)
    BY <1>1, <1>2, <2>2
    DEF LockStep, LockBegin, Exists, CheckHolder, CheckStale, CheckRefuses, LockFails, WriteLocal,
        PutLockLost, PutLockFails, WipeDir, RecoverOk, RecoverFails
  <2> QED BY <2>1, <2>2
<1>3. ASSUME NEW m \in Node, UnlockStep(m) PROVE monitors'[n] > 0
  BY <1>1, <1>3
  DEF UnlockStep, StorageLockerUnlock, StorageUnlock, Release, ReleaseOk, ReleaseLost, ReleaseFails
<1>4. ASSUME NEW m \in Node, NEW k \in Session, RenewStep(m, k) PROVE monitors'[n] > 0
  <2>1. CASE RenewFails(m, k)
    <3>1. /\ renewer[m][k] = "put" /\ UNCHANGED <<lockLost, closed, monitors>>
          /\ leaseErr' = [leaseErr EXCEPT ![m] = TRUE]
      BY <2>1 DEF RenewFails
    <3>2. CASE m = n
      BY <3>1, <3>2 DEF RenewInv, MonitorWaits
    <3>3. CASE m # n
      BY <3>1, <3>3 DEF ErrorHeard, TypeOK
    <3> QED BY <3>2, <3>3
  <2>2. CASE ~RenewFails(m, k)
    BY <1>1, <1>4, <2>2 DEF RenewStep, RenewTick, RenewOk, RenewLost, RenewStop
  <2> QED BY <2>1, <2>2
<1>5. ASSUME NEW m \in Node, MonitorFires(m) \/ MonitorStops(m) PROVE monitors'[n] > 0
  <2>1. CASE m = n
    BY <1>5, <2>1 DEF MonitorFires, MonitorStops, TypeOK
  <2>2. CASE m # n
    BY <1>5, <2>2 DEF MonitorFires, MonitorStops, TypeOK, ErrorHeard
  <2> QED BY <2>1, <2>2
<1>6. ASSUME NEW m \in Node, Close(m) \/ Crash(m) PROVE monitors'[n] > 0
  <2>1. m # n
    BY <1>6 DEF Close, Crash, TypeOK
  <2> QED BY <1>6, <2>1 DEF Close, Crash, TypeOK, ErrorHeard
<1>7. CASE Tick \/ UNCHANGED vars
  BY <1>1, <1>7 DEF Tick, vars
<1> QED BY <1>2, <1>3, <1>4, <1>5, <1>6, <1>7 DEF Next, NodeStep

\* No failure of a renewal is left in leaseErrCh without a monitor that takes it,
\* whatever the order of releases, new sessions and failures: what LeaseLossFences
\* leaves to the scheduler is that this monitor runs (lock.go:182-194,
\* storage.go:1142-1161).
THEOREM ErrorsAreHeard == SpecAll => []ErrorHeard
<1>1. Init => RenewInv /\ ErrorHeard
  BY DEF Init, RenewInv, MonitorWaits, RenewedOrFenced, Holder, ErrorHeard
<1>2. TypeOK /\ LockInv /\ RenewInv /\ ErrorHeard /\ [Next]_vars => RenewInv' /\ ErrorHeard'
  BY RenewNext, HeardNext DEF LockInv, LockCore
<1>3. Spec => []ErrorHeard
  BY <1>1, <1>2, TypeCorrect, LockInvHolds, PTL DEF Spec
<1> QED BY <1>3, ComposedImplementsLock, PTL
=============================================================================
