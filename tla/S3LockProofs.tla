---------------------------- MODULE S3LockProofs ----------------------------
(* Type correctness and conditional mutual exclusion of the lease lock, for  *)
(* every set of nodes and process ids, every sharing of directories and      *)
(* every bound.                                                              *)
EXTENDS S3Lock, TLAPS

LEMMA TypeInit == ASSUME Init PROVE TypeOK
  BY BoundsAssumption DEF Init, TypeOK, Control, Session

LEMMA TypeNext == ASSUME TypeOK, [Next]_vars PROVE TypeOK'
<1>1. CASE Tick
  BY <1>1, BoundsAssumption DEF Tick, TypeOK, storeVars, callVars, renewVars, flagVars
<1>2. ASSUME NEW n \in Node, LockBegin(n) PROVE TypeOK'
  <2>1. serial[n] + 1 \in Session
    <3>1. serial[n] \in 0..MaxIds /\ Quota[n] \in 0..MaxIds
      BY BoundsAssumption DEF TypeOK
    <3>2. serial[n] < Quota[n]
      BY <1>2 DEF LockBegin
    <3> QED BY <3>1, <3>2, BoundsAssumption DEF Session
  <2>2. [owner |-> n, no |-> serial[n] + 1, pid |-> pid[n], ts |-> now] \in LockId
    BY <2>1 DEF LockId, TypeOK
  <2> QED
    BY <1>2, <2>1, <2>2, BoundsAssumption
    DEF LockBegin, TypeOK, Session, Goto, Control, storeVars, renewVars, flagVars
<1>3. ASSUME NEW n \in Node, Exists(n) PROVE TypeOK'
  BY <1>3 DEF Exists, TypeOK, Goto, Control, storeVars, renewVars, flagVars
<1>4. ASSUME NEW n \in Node, CheckHolder(n) PROVE TypeOK'
  BY <1>4 DEF CheckHolder, Note, TypeOK, Goto, Control, Breaches, storeVars, renewVars, flagVars
<1>5. ASSUME NEW n \in Node, CheckStale(n) PROVE TypeOK'
  BY <1>5 DEF CheckStale, Note, TypeOK, Goto, Control, Breaches, storeVars, renewVars, flagVars
<1>6. ASSUME NEW n \in Node, CheckRefuses(n) PROVE TypeOK'
  BY <1>6 DEF CheckRefuses, Forget, TypeOK, Goto, Control, storeVars, renewVars, flagVars
<1>7. ASSUME NEW n \in Node, LockFails(n) PROVE TypeOK'
  BY <1>7 DEF LockFails, Forget, TypeOK, Goto, Control, storeVars, renewVars, flagVars
<1>8. ASSUME NEW n \in Node, WriteLocal(n) PROVE TypeOK'
  BY <1>8 DEF WriteLocal, TypeOK, Goto, Control, renewVars, flagVars
<1>9. ASSUME NEW n \in Node, PutLockOk(n) PROVE TypeOK'
  <2>1. monitors' \in [Node -> Nat]
    BY <1>9 DEF PutLockOk, TypeOK
  <2>2. renewer' \in [Node -> [Session -> {"none", "wait", "put"}]]
    <3>1. CASE stopped[n]
      BY <1>9, <3>1 DEF PutLockOk, TypeOK
    <3>2. CASE ~stopped[n]
      <4>1. renewer' = [renewer EXCEPT ![n][lockID[n].no] = "wait"]
        BY <1>9, <3>2 DEF PutLockOk
      <4> QED BY <4>1 DEF TypeOK
    <3> QED BY <3>1, <3>2
  <2>3. remote' \in LockId \cup {NoLock} /\ breach' \in Breaches \cup {"none"}
    BY <1>9 DEF PutLockOk, PutLock, Note, TypeOK, Breaches
  <2> QED
    BY <1>9, <2>1, <2>2, <2>3 DEF PutLockOk, Forget, TypeOK, Goto, Control
<1>10. ASSUME NEW n \in Node, PutLockLost(n) PROVE TypeOK'
  BY <1>10 DEF PutLockLost, PutLock, Note, TypeOK, Breaches, callVars, renewVars, flagVars
<1>11. ASSUME NEW n \in Node, PutLockFails(n) PROVE TypeOK'
  BY <1>11 DEF PutLockFails, Forget, TypeOK, Goto, Control, renewVars, flagVars
<1>12. ASSUME NEW n \in Node, WipeDir(n) \/ RecoverOk(n) PROVE TypeOK'
  BY <1>12 DEF WipeDir, RecoverOk, TypeOK, Goto, Control, storeVars, renewVars, flagVars
<1>13. ASSUME NEW n \in Node, RecoverFails(n) PROVE TypeOK'
  BY <1>13 DEF RecoverFails, TypeOK, Goto, Control, storeVars, flagVars
<1>14. ASSUME NEW n \in Node, StorageLockerUnlock(n) \/ StorageUnlock(n) PROVE TypeOK'
  BY <1>14 DEF StorageLockerUnlock, StorageUnlock, Release, TypeOK, Goto, Control, storeVars
<1>15. ASSUME NEW n \in Node, ReleaseOk(n) PROVE TypeOK'
  BY <1>15 DEF ReleaseOk, DeleteLock, Note, TypeOK, Goto, Control, Breaches, renewVars, flagVars
<1>16. ASSUME NEW n \in Node, ReleaseLost(n) PROVE TypeOK'
  BY <1>16 DEF ReleaseLost, DeleteLock, Note, TypeOK, Breaches, callVars, renewVars, flagVars
<1>17. ASSUME NEW n \in Node, ReleaseFails(n) PROVE TypeOK'
  BY <1>17 DEF ReleaseFails, TypeOK, Goto, Control, storeVars, renewVars, flagVars
<1>18. ASSUME NEW n \in Node, NEW k \in Session, RenewStep(n, k) PROVE TypeOK'
  <2>1. CASE RenewTick(n, k)
    BY <2>1 DEF RenewTick, TypeOK, storeVars, callVars, flagVars
  <2>2. CASE RenewOk(n, k)
    BY <2>2 DEF RenewOk, RenewPut, Note, TypeOK, Breaches, callVars, flagVars
  <2>3. CASE RenewLost(n, k)
    BY <2>3 DEF RenewLost, RenewPut, Note, TypeOK, Breaches, callVars, renewVars, flagVars
  <2>4. CASE RenewFails(n, k)
    BY <2>4 DEF RenewFails, TypeOK, storeVars, callVars, flagVars
  <2>5. CASE RenewStop(n, k)
    BY <2>5 DEF RenewStop, TypeOK, storeVars, callVars, flagVars
  <2> QED BY <1>18, <2>1, <2>2, <2>3, <2>4, <2>5 DEF RenewStep
<1>19. ASSUME NEW n \in Node, MonitorFires(n) \/ MonitorStops(n) PROVE TypeOK'
  <2>1. monitors' \in [Node -> Nat]
    <3>1. monitors[n] \in Nat /\ monitors[n] > 0
      BY <1>19 DEF MonitorFires, MonitorStops, TypeOK
    <3>2. monitors[n] - 1 \in Nat
      BY <3>1
    <3> QED BY <1>19, <3>2 DEF MonitorFires, MonitorStops, TypeOK
  <2>2. CASE MonitorFires(n)
    BY <2>1, <2>2 DEF MonitorFires, TypeOK, storeVars, callVars
  <2>3. CASE MonitorStops(n)
    BY <2>1, <2>3 DEF MonitorStops, TypeOK, storeVars, callVars, renewVars
  <2> QED BY <1>19, <2>2, <2>3
<1>20. ASSUME NEW n \in Node, Close(n) PROVE TypeOK'
  BY <1>20 DEF Close, TypeOK, storeVars, callVars, renewVars
<1>21. ASSUME NEW n \in Node, Crash(n) PROVE TypeOK'
  BY <1>21 DEF Crash, TypeOK, Control, storeVars
<1>22. CASE UNCHANGED vars
  BY <1>22 DEF vars, TypeOK, storeVars, callVars, renewVars, flagVars
<1> QED
  BY <1>1, <1>2, <1>3, <1>4, <1>5, <1>6, <1>7, <1>8, <1>9, <1>10, <1>11, <1>12,
     <1>13, <1>14, <1>15, <1>16, <1>17, <1>18, <1>19, <1>20, <1>21, <1>22
  DEF Next, NodeStep, LockStep, UnlockStep

\* Every variable of the lock keeps its type, whatever the processes and S3 do
\* (the state of S3Lock and of the lock part of S3Storage).
THEOREM TypeCorrect == Spec => []TypeOK
<1>1. Init => TypeOK
  BY TypeInit
<1>2. TypeOK /\ [Next]_vars => TypeOK'
  BY TypeNext
<1> QED
  BY <1>1, <1>2, PTL DEF Spec

-----------------------------------------------------------------------------
(* Mutual exclusion as long as no step was blind                           *)

\* A step that leaves breach at "none" was not blind, nor was any before it.
LEMMA NotBlind ==
  ASSUME NEW kind \in Breaches, NEW blind, Note(kind, blind), breach' = "none"
  PROVE  breach = "none" /\ ~blind
  BY DEF Note, Breaches

LEMMA CoreInit == ASSUME Init PROVE LockCore
  BY BoundsAssumption, NoLockAssumption
  DEF Init, LockCore, OwnIdKnown, SeenKnown, FreshIdUnseen, ClaimUnseen, HolderOwnsLock, Holder,
      Claiming

\* Two calls under way never have the same id.
LEMMA IdsDiffer ==
  ASSUME OwnIdKnown, NEW m \in Node, NEW n \in Node, m # n,
         pc[m] # "idle", pc[n] # "idle"
  PROVE  lockID[m] # lockID[n] /\ lockID[m] # NoLock /\ lockID[n] # NoLock
  BY DEF OwnIdKnown

\* Steps of the call up to the write in S3.
LEMMA CoreAcquire ==
  ASSUME TypeOK, LockCore, NEW n \in Node,
         \/ LockBegin(n) \/ Exists(n) \/ CheckHolder(n) \/ CheckStale(n)
         \/ CheckRefuses(n) \/ LockFails(n) \/ WriteLocal(n)
  PROVE  LockCore'
<1> USE DEF Goto, storeVars, renewVars, flagVars
<1>1. CASE LockBegin(n)
  <2> DEFINE id == [owner |-> n, no |-> serial[n] + 1, pid |-> pid[n], ts |-> now]
  <2>1. /\ serial[n] \in Nat /\ id # NoLock
        /\ lockID' = [lockID EXCEPT ![n] = id]
        /\ serial' = [serial EXCEPT ![n] = serial[n] + 1]
        /\ pc[n] = "idle" /\ pc' = [pc EXCEPT ![n] = "exists"]
        /\ UNCHANGED <<remote, saw, breach>>
    <3>1. serial[n] \in 0..MaxIds /\ Quota[n] \in 0..MaxIds /\ serial[n] < Quota[n]
      BY <1>1, BoundsAssumption DEF LockBegin, TypeOK
    <3>2. id \in LockId
      BY <3>1, BoundsAssumption DEF TypeOK, LockId, Session
    <3> QED BY <1>1, <3>1, <3>2, NoLockAssumption, BoundsAssumption DEF LockBegin
  <2>2. OwnIdKnown'
    BY <2>1 DEF LockCore, OwnIdKnown, TypeOK
  <2>3. ASSUME breach' = "none" PROVE SeenKnown'
    <3>1. ASSUME NEW m \in Node, NEW i \in Nat, i <= serial[m] PROVE i <= serial'[m]
      BY <2>1, <3>1, BoundsAssumption DEF TypeOK
    <3>2. remote # NoLock => remote.no \in Nat
      BY BoundsAssumption DEF TypeOK, LockId, Session
    <3>3. \A m \in Node : saw[m] # NoLock => saw[m].no \in Nat
      BY BoundsAssumption DEF TypeOK, LockId, Session
    <3> QED BY <2>1, <2>3, <3>1, <3>2, <3>3 DEF LockCore, SeenKnown
  <2>4. ASSUME breach' = "none" PROVE FreshIdUnseen'
    <3>1. remote # id /\ \A m \in Node : saw[m] # id
      BY <2>1, <2>4 DEF LockCore, SeenKnown
    <3> QED BY <2>1, <2>4, <3>1 DEF LockCore, FreshIdUnseen, TypeOK
  <2>5. ASSUME breach' = "none" PROVE ClaimUnseen' /\ HolderOwnsLock'
    BY <2>1, <2>5 DEF LockCore, ClaimUnseen, HolderOwnsLock, Holder, Claiming, TypeOK
  <2> HIDE DEF id
  <2> QED BY <2>2, <2>3, <2>4, <2>5 DEF LockCore
<1>2. CASE Exists(n)
  <2>1. OwnIdKnown'
    BY <1>2 DEF Exists, LockCore, OwnIdKnown, TypeOK
  <2>2. ASSUME breach' = "none" PROVE SeenKnown' /\ FreshIdUnseen' /\ ClaimUnseen' /\ HolderOwnsLock'
    <3>1. /\ pc[n] = "exists" /\ lockID[n] # NoLock
          /\ \E point \in {"get", "local"} : pc' = [pc EXCEPT ![n] = point]
          /\ saw' \in {saw, [saw EXCEPT ![n] = NoLock]}
          /\ pc'[n] = "local" => saw'[n] = NoLock
          /\ UNCHANGED <<remote, lockID, serial, breach>>
      BY <1>2 DEF Exists, LockCore, OwnIdKnown, TypeOK
    <3>2. SeenKnown' /\ HolderOwnsLock'
      BY <2>2, <3>1 DEF LockCore, SeenKnown, HolderOwnsLock, Holder, TypeOK
    <3>3. FreshIdUnseen'
      BY <2>2, <3>1 DEF LockCore, OwnIdKnown, FreshIdUnseen, TypeOK
    <3>4. ASSUME NEW m \in Node, Claiming(m)' PROVE m # n /\ Claiming(m) /\ lockID[m] # NoLock
      BY <3>1, <3>4 DEF Claiming, TypeOK, LockCore, OwnIdKnown
    <3>5. ClaimUnseen'
      BY <2>2, <3>1, <3>4 DEF LockCore, ClaimUnseen, TypeOK
    <3> QED BY <3>2, <3>3, <3>5
  <2> QED BY <2>1, <2>2 DEF LockCore
<1>3. CASE CheckHolder(n) \/ CheckStale(n)
  <2>1. /\ remote # NoLock /\ saw' = [saw EXCEPT ![n] = remote]
        /\ pc[n] = "get" /\ pc' = [pc EXCEPT ![n] = "local"]
        /\ UNCHANGED <<now, remote, local, lockID, serial, renewID>>
    BY <1>3 DEF CheckHolder, CheckStale
  <2>2. OwnIdKnown'
    BY <2>1 DEF LockCore, OwnIdKnown, TypeOK
  <2>3. ASSUME breach' = "none" PROVE breach = "none" /\ ~LiveClaim(remote)
    BY <1>3, <2>3, NotBlind DEF CheckHolder, CheckStale, Breaches
  <2>4. ASSUME breach' = "none" PROVE SeenKnown' /\ FreshIdUnseen' /\ HolderOwnsLock'
    BY <2>1, <2>3, <2>4 DEF LockCore, SeenKnown, FreshIdUnseen, HolderOwnsLock, Holder, TypeOK
  <2>5. ASSUME breach' = "none" PROVE ClaimUnseen'
    BY <2>1, <2>3, <2>5 DEF LockCore, LiveClaim, ClaimUnseen, Claiming, TypeOK
  <2> QED BY <2>2, <2>4, <2>5 DEF LockCore
<1>4. CASE CheckRefuses(n) \/ LockFails(n)
  <2>1. /\ saw' = [saw EXCEPT ![n] = NoLock] /\ pc' = [pc EXCEPT ![n] = "idle"]
        /\ UNCHANGED <<now, remote, lockID, serial, renewID, breach>>
    BY <1>4 DEF CheckRefuses, LockFails, Forget
  <2>2. OwnIdKnown'
    BY <2>1 DEF LockCore, OwnIdKnown, TypeOK
  <2>3. ASSUME breach' = "none" PROVE SeenKnown' /\ FreshIdUnseen' /\ ClaimUnseen' /\ HolderOwnsLock'
    BY <2>1, <2>3 DEF LockCore, OwnIdKnown, SeenKnown, FreshIdUnseen, ClaimUnseen, HolderOwnsLock,
       Holder, Claiming, TypeOK
  <2> QED BY <2>2, <2>3 DEF LockCore
<1>5. CASE WriteLocal(n)
  <2>1. OwnIdKnown'
    BY <1>5 DEF WriteLocal, LockCore, OwnIdKnown, TypeOK
  <2>2. ASSUME breach' = "none" PROVE SeenKnown' /\ FreshIdUnseen' /\ ClaimUnseen' /\ HolderOwnsLock'
    BY <1>5, <2>2 DEF WriteLocal, LockCore, SeenKnown, FreshIdUnseen, ClaimUnseen,
       HolderOwnsLock, Holder, Claiming, TypeOK
  <2> QED BY <2>1, <2>2 DEF LockCore
<1> QED BY <1>1, <1>2, <1>3, <1>4, <1>5

\* The write in S3 and what follows it.
LEMMA CorePut ==
  ASSUME TypeOK, LockCore, NEW n \in Node,
         \/ PutLockOk(n) \/ PutLockLost(n) \/ PutLockFails(n)
         \/ WipeDir(n) \/ RecoverOk(n) \/ RecoverFails(n)
  PROVE  LockCore'
<1> USE DEF Goto, storeVars, renewVars, flagVars, callVars
<1>1. CASE PutLockOk(n) \/ PutLockLost(n)
  <2>1. /\ pc[n] = "put" /\ pc' \in {pc, [pc EXCEPT ![n] = "recover"]}
        /\ remote' = lockID[n]
        /\ saw' \in {saw, [saw EXCEPT ![n] = NoLock]}
        /\ UNCHANGED <<lockID, serial, renewID>>
    BY <1>1 DEF PutLockOk, PutLockLost, PutLock, Forget
  <2>2. OwnIdKnown'
    BY <2>1 DEF LockCore, OwnIdKnown, TypeOK
  <2>3. ASSUME breach' = "none"
        PROVE  breach = "none" /\ remote \in {saw[n], lockID[n]}
    BY <1>1, <2>3, NotBlind DEF PutLockOk, PutLockLost, PutLock, Breaches
  <2>4. \A m \in Node : m # n /\ pc[m] # "idle" => lockID[m] # lockID[n] /\ lockID[m] # NoLock
    BY <2>1, IdsDiffer DEF LockCore
  <2>5. ASSUME breach' = "none" PROVE SeenKnown' /\ FreshIdUnseen' /\ ClaimUnseen'
    <3>1. SeenKnown'
      <4>1. lockID[n].owner = n /\ lockID[n].no = serial[n] /\ serial[n] <= serial[n]
        BY <2>1, BoundsAssumption DEF LockCore, OwnIdKnown, TypeOK
      <4> QED BY <2>1, <2>3, <2>5, <4>1 DEF LockCore, SeenKnown, TypeOK
    <3>2. FreshIdUnseen'
      <4>1. ASSUME NEW m \in Node, pc'[m] \in {"exists", "get", "local"}
            PROVE  m # n /\ pc[m] = pc'[m]
        BY <2>1, <4>1 DEF TypeOK
      <4>2. ASSUME NEW k \in Node
            PROVE  saw'[k] \in {saw[k], NoLock}
        BY <2>1, <4>2 DEF TypeOK
      <4> QED BY <2>1, <2>3, <2>4, <2>5, <4>1, <4>2 DEF LockCore, FreshIdUnseen
    <3>3. ClaimUnseen'
      <4>1. \A m \in Node : Claiming(m)' => Claiming(m)
        BY <2>1 DEF Claiming, TypeOK
      <4>2. \A m \in Node : pc'[m] \in {"local", "put"} => pc[m] = pc'[m]
        BY <2>1 DEF TypeOK
      <4>3. \A m \in Node : Claiming(m) => lockID[m] # NoLock
        BY DEF Claiming, LockCore, OwnIdKnown
      <4> QED BY <2>1, <2>3, <2>5, <4>1, <4>2, <4>3 DEF LockCore, ClaimUnseen, TypeOK
    <3> QED BY <3>1, <3>2, <3>3
  <2>6. ASSUME breach' = "none" PROVE HolderOwnsLock'
    <3>1. ASSUME NEW m \in Node, m # n, Holder(m) PROVE FALSE
      <4>1. remote = lockID[m] /\ saw[n] # lockID[m]
        BY <2>1, <2>3, <2>6, <3>1 DEF LockCore, HolderOwnsLock, ClaimUnseen, Claiming, Holder
      <4> QED BY <2>3, <2>4, <2>6, <3>1, <4>1 DEF Holder
    <3> QED BY <2>1, <3>1 DEF HolderOwnsLock, Holder, TypeOK
  <2> QED BY <2>2, <2>5, <2>6 DEF LockCore
<1>2. CASE PutLockFails(n)
  <2>1. OwnIdKnown'
    BY <1>2 DEF PutLockFails, Forget, LockCore, OwnIdKnown, TypeOK
  <2>2. ASSUME breach' = "none" PROVE SeenKnown' /\ FreshIdUnseen' /\ ClaimUnseen' /\ HolderOwnsLock'
    BY <1>2, <2>2 DEF PutLockFails, Forget, LockCore, OwnIdKnown, SeenKnown, FreshIdUnseen, ClaimUnseen,
       HolderOwnsLock, Holder, Claiming, TypeOK
  <2> QED BY <2>1, <2>2 DEF LockCore
<1>3. CASE WipeDir(n) \/ RecoverOk(n) \/ RecoverFails(n)
  <2>1. /\ pc[n] \in {"recover", "wiped"}
        /\ \E point \in {"wiped", "held", "bare", "abort"} : pc' = [pc EXCEPT ![n] = point]
        /\ UNCHANGED <<remote, lockID, serial, saw, renewID, breach>>
    BY <1>3 DEF WipeDir, RecoverOk, RecoverFails
  <2>2. OwnIdKnown'
    BY <2>1 DEF LockCore, OwnIdKnown, TypeOK
  <2>3. ASSUME breach' = "none" PROVE SeenKnown' /\ FreshIdUnseen' /\ ClaimUnseen' /\ HolderOwnsLock'
    BY <2>1, <2>3 DEF LockCore, SeenKnown, FreshIdUnseen, ClaimUnseen, HolderOwnsLock, Holder,
       Claiming, TypeOK
  <2> QED BY <2>2, <2>3 DEF LockCore
<1> QED BY <1>1, <1>2, <1>3

\* The release.
LEMMA CoreRelease ==
  ASSUME TypeOK, LockCore, NEW n \in Node,
         \/ Release(n) \/ ReleaseOk(n) \/ ReleaseLost(n) \/ ReleaseFails(n)
  PROVE  LockCore'
<1> USE DEF Goto, storeVars, renewVars, flagVars, callVars
<1>1. CASE Release(n) \/ ReleaseFails(n)
  <2>1. /\ pc[n] # "idle"
        /\ \E point \in {"idle", "rel1", "rel2"} : pc' = [pc EXCEPT ![n] = point]
        /\ UNCHANGED <<remote, lockID, serial, saw, renewID, breach>>
    BY <1>1 DEF Release, ReleaseFails, Held
  <2>2. OwnIdKnown'
    BY <2>1 DEF LockCore, OwnIdKnown, TypeOK
  <2>3. ASSUME breach' = "none" PROVE SeenKnown' /\ FreshIdUnseen' /\ ClaimUnseen' /\ HolderOwnsLock'
    BY <2>1, <2>3 DEF LockCore, SeenKnown, FreshIdUnseen, ClaimUnseen, HolderOwnsLock, Holder,
       Claiming, TypeOK
  <2> QED BY <2>2, <2>3 DEF LockCore
<1>2. CASE ReleaseOk(n) \/ ReleaseLost(n)
  <2>1. /\ pc[n] \in {"abort", "rel1", "rel2"} /\ remote' = NoLock
        /\ pc' \in {pc, [pc EXCEPT ![n] = "idle"]}
        /\ UNCHANGED <<lockID, serial, saw, renewID>>
    BY <1>2 DEF ReleaseOk, ReleaseLost, CanCall, DeleteLock
  <2>2. OwnIdKnown'
    BY <2>1 DEF LockCore, OwnIdKnown, TypeOK
  <2>3. ASSUME breach' = "none"
        PROVE  breach = "none" /\ remote \in {NoLock, lockID[n]}
    BY <1>2, <2>3, NotBlind DEF ReleaseOk, ReleaseLost, DeleteLock, Breaches
  <2>4. ASSUME breach' = "none" PROVE SeenKnown' /\ FreshIdUnseen' /\ ClaimUnseen'
    BY <2>1, <2>3, <2>4 DEF LockCore, OwnIdKnown, SeenKnown, FreshIdUnseen, ClaimUnseen, Claiming, TypeOK
  <2>5. ASSUME breach' = "none" PROVE HolderOwnsLock'
    <3>1. \A m \in Node : ~Holder(m)
      <4>1. SUFFICES ASSUME NEW m \in Node, Holder(m) PROVE FALSE
        OBVIOUS
      <4>2. m # n /\ remote = lockID[m]
        BY <2>1, <2>3, <2>5, <4>1 DEF LockCore, HolderOwnsLock, Holder
      <4>3. lockID[m] # lockID[n] /\ lockID[m] # NoLock
        BY <2>1, <4>1, <4>2, IdsDiffer DEF LockCore, Holder
      <4> QED BY <2>3, <2>5, <4>2, <4>3
    <3> QED BY <2>1, <3>1 DEF HolderOwnsLock, Holder, TypeOK
  <2> QED BY <2>2, <2>4, <2>5 DEF LockCore
<1> QED BY <1>1, <1>2

\* The renewal goroutines.
LEMMA CoreRenew ==
  ASSUME TypeOK, LockCore, NEW n \in Node, NEW k \in Session, RenewStep(n, k)
  PROVE  LockCore'
<1> USE DEF storeVars, renewVars, flagVars, callVars
<1>1. CASE RenewTick(n, k)
  <2>1. lockID[n] # NoLock => lockID[n].owner = n /\ lockID[n].no <= serial[n]
    BY BoundsAssumption DEF LockCore, OwnIdKnown, TypeOK
  <2>2. OwnIdKnown'
    BY <1>1, <2>1 DEF RenewTick, LockCore, OwnIdKnown, TypeOK
  <2> QED BY <1>1, <2>2 DEF RenewTick, LockCore, SeenKnown, FreshIdUnseen, ClaimUnseen,
             HolderOwnsLock, Holder, Claiming
<1>2. CASE RenewOk(n, k) \/ RenewLost(n, k)
  <2>1. /\ remote' = renewID[n][k]
        /\ renewID' \in {renewID, [renewID EXCEPT ![n][k] = NoLock]}
        /\ UNCHANGED <<pc, lockID, serial, saw>>
    BY <1>2 DEF RenewOk, RenewLost, RenewPut
  <2>2. OwnIdKnown'
    BY <2>1 DEF LockCore, OwnIdKnown, TypeOK
  <2>3. ASSUME breach' = "none" PROVE breach = "none" /\ remote' = remote
    BY <1>2, <2>3, NotBlind DEF RenewOk, RenewLost, RenewPut, Breaches
  <2> QED BY <2>1, <2>2, <2>3 DEF LockCore, SeenKnown, FreshIdUnseen, ClaimUnseen,
             HolderOwnsLock, Holder, Claiming
<1>3. CASE RenewFails(n, k) \/ RenewStop(n, k)
  <2>1. /\ renewID' \in {renewID, [renewID EXCEPT ![n][k] = NoLock]}
        /\ UNCHANGED <<remote, pc, lockID, serial, saw, breach>>
    BY <1>3 DEF RenewFails, RenewStop
  <2>2. OwnIdKnown'
    BY <2>1 DEF LockCore, OwnIdKnown, TypeOK
  <2> QED BY <2>1, <2>2 DEF LockCore, SeenKnown, FreshIdUnseen, ClaimUnseen,
             HolderOwnsLock, Holder, Claiming
<1> QED BY <1>1, <1>2, <1>3 DEF RenewStep

\* The rest: the clock, the monitor, Close and the end of a process.
LEMMA CoreRest ==
  ASSUME TypeOK, LockCore,
         \/ Tick \/ UNCHANGED vars
         \/ \E n \in Node : MonitorFires(n) \/ MonitorStops(n) \/ Close(n) \/ Crash(n)
  PROVE  LockCore'
<1> USE DEF storeVars, renewVars, flagVars, callVars
<1>1. CASE UNCHANGED <<remote, pc, lockID, serial, saw, renewID, breach>>
  BY <1>1 DEF LockCore, OwnIdKnown, SeenKnown, FreshIdUnseen, ClaimUnseen, HolderOwnsLock, Holder, Claiming
<1>2. ASSUME NEW n \in Node, Crash(n) PROVE LockCore'
  <2>1. OwnIdKnown'
    BY <1>2 DEF Crash, LockCore, OwnIdKnown, TypeOK
  <2> QED BY <1>2, <2>1 DEF Crash, LockCore, OwnIdKnown, SeenKnown, FreshIdUnseen, ClaimUnseen,
             HolderOwnsLock, Holder, Claiming, TypeOK
<1> QED BY <1>1, <1>2 DEF Tick, vars, MonitorFires, MonitorStops, Close

LEMMA CoreNext == ASSUME TypeOK, LockCore, [Next]_vars PROVE LockCore'
  BY CoreAcquire, CorePut, CoreRelease, CoreRenew, CoreRest
  DEF Next, NodeStep, LockStep, UnlockStep, StorageLockerUnlock, StorageUnlock

LEMMA CoreExclusive == ASSUME LockCore PROVE ExclusiveUnlessBreach
<1>1. SUFFICES ASSUME breach = "none", NEW m \in Node, NEW n \in Node,
                      Holder(m), Holder(n), m # n
               PROVE  FALSE
  BY DEF LockCore, ExclusiveUnlessBreach, HolderOwnsLock
<1>2. remote = lockID[m] /\ remote = lockID[n]
  BY <1>1 DEF LockCore, HolderOwnsLock
<1> QED BY <1>1, <1>2, IdsDiffer DEF LockCore, Holder

\* An id is seen by others only once its owner claims it, and a holder's LOCK
\* stays in S3 until a blind step: the invariant that carries the exclusion
\* (lock.go:47-165, 209-211, storage.go:94-110, 188-251).
THEOREM LockInvHolds == Spec => []LockInv
<1>1. Init => LockInv
  BY TypeInit, CoreInit DEF LockInv
<1>2. LockInv /\ [Next]_vars => LockInv'
  BY TypeNext, CoreNext DEF LockInv
<1> QED
  BY <1>1, <1>2, PTL DEF Spec

\* The lease lock excludes two holders as long as none of the named blind steps
\* has happened, and a holder's id is then the one in S3: nothing else in
\* lock.go, storage.go Lock/Unlock/Close or a crash can break the lock.
THEOREM ExclusionHolds == Spec => []ExclusiveUnlessBreach
<1>1. LockInv => ExclusiveUnlessBreach
  BY CoreExclusive DEF LockInv
<1> QED
  BY <1>1, LockInvHolds, PTL

-----------------------------------------------------------------------------
(* The local LOCK file                                                     *)

LEMMA IdentifiableNext ==
  ASSUME TypeOK, HolderIdentifiable, [Next]_vars
  PROVE  HolderIdentifiable'
<1> USE DEF Goto, storeVars, renewVars, flagVars, callVars
<1> DEFINE Own(n) == local[Dir[n]] = IF Wiped(n) THEN NoLock ELSE lockID[n]
<1> SUFFICES ASSUME NEW n \in Node, Claiming(n)', Alone(n)
             PROVE  Own(n)'
  BY DEF HolderIdentifiable, Alone
<1>1. CASE Claiming(n) /\ UNCHANGED <<local, lockID>> /\ (Wiped(n)' <=> Wiped(n))
  BY <1>1 DEF HolderIdentifiable
<1>2. ASSUME NEW m \in Node, LockStep(m) PROVE Own(n)'
  <2>1. CASE WriteLocal(m)
    <3>1. CASE m = n
      BY <2>1, <3>1 DEF WriteLocal, TypeOK, Wiped
    <3>2. CASE m # n
      BY <2>1, <3>2 DEF WriteLocal, TypeOK, Alone, HolderIdentifiable, Claiming, Wiped
    <3> QED BY <3>1, <3>2
  <2>2. CASE PutLockFails(m) \/ LockFails(m)
    <3>1. /\ pc' = [pc EXCEPT ![m] = "idle"] /\ UNCHANGED lockID
          /\ local' \in {local, [local EXCEPT ![Dir[m]] = NoLock]}
      BY <2>2 DEF PutLockFails, LockFails, Forget
    <3>2. m # n /\ Claiming(n) /\ (Wiped(n)' <=> Wiped(n))
      BY <3>1 DEF Claiming, TypeOK, Wiped
    <3>3. Dir[m] # Dir[n]
      BY <3>2 DEF Alone
    <3>4. local'[Dir[n]] = local[Dir[n]]
      BY <3>1, <3>3 DEF TypeOK
    <3> QED BY <3>1, <3>2, <3>4 DEF HolderIdentifiable
  <2>3. CASE LockBegin(m)
    BY <2>3 DEF LockBegin, TypeOK, HolderIdentifiable, Claiming, Wiped
  <2>4. CASE \/ Exists(m) \/ CheckHolder(m) \/ CheckStale(m) \/ CheckRefuses(m)
             \/ PutLockOk(m) \/ PutLockLost(m)
             \/ RecoverOk(m) \/ RecoverFails(m)
    <3>1. UNCHANGED <<local, lockID>>
      BY <2>4 DEF Exists, CheckHolder, CheckStale, CheckRefuses,
         PutLockOk, PutLockLost, RecoverOk, RecoverFails
    <3>2. Claiming(n) /\ (Wiped(n)' <=> Wiped(n))
      BY <2>4 DEF Exists, CheckHolder, CheckStale, CheckRefuses,
         PutLockOk, PutLockLost, RecoverOk, RecoverFails, Claiming, TypeOK, Wiped
    <3> QED BY <1>1, <3>1, <3>2
  <2>5. CASE WipeDir(m)
    <3>1. CASE m = n
      BY <2>5, <3>1 DEF WipeDir, TypeOK, Wiped
    <3>2. CASE m # n
      BY <2>5, <3>2 DEF WipeDir, TypeOK, Alone, HolderIdentifiable, Claiming, Wiped
    <3> QED BY <3>1, <3>2
  <2> QED BY <1>2, <2>1, <2>2, <2>3, <2>4, <2>5 DEF LockStep
<1>3. ASSUME NEW m \in Node, UnlockStep(m) PROVE Own(n)'
  <2>1. /\ pc[m] \in {"held", "bare", "abort", "rel1", "rel2"}
        /\ pc' = pc \/ \E point \in {"idle", "rel1", "rel2"} : pc' = [pc EXCEPT ![m] = point]
        /\ UNCHANGED lockID
    BY <1>3 DEF UnlockStep, StorageLockerUnlock, StorageUnlock, Release, ReleaseOk,
       ReleaseLost, ReleaseFails, CanCall, Held
  <2>2. Claiming(n) /\ (Wiped(n)' <=> Wiped(n))
    BY <2>1 DEF Claiming, TypeOK, Wiped
  <2>3. CASE ReleaseOk(m)
    <3>1. m # n
      BY <2>3 DEF ReleaseOk, CanCall, Claiming, TypeOK
    <3> QED BY <2>2, <2>3, <3>1 DEF ReleaseOk, TypeOK, Alone, HolderIdentifiable
  <2>4. CASE UNCHANGED local
    BY <1>1, <2>1, <2>2, <2>4
  <2> QED BY <1>3, <2>3, <2>4 DEF UnlockStep, StorageLockerUnlock, StorageUnlock,
             Release, ReleaseLost, ReleaseFails
<1>4. ASSUME NEW m \in Node, NEW k \in Session, RenewStep(m, k)
      PROVE  Own(n)'
  BY <1>1, <1>4 DEF RenewStep, RenewTick, RenewOk, RenewLost, RenewPut, RenewFails,
     RenewStop, Claiming, Wiped
<1>5. ASSUME NEW m \in Node, MonitorFires(m) \/ MonitorStops(m) \/ Close(m)
      PROVE  Own(n)'
  BY <1>1, <1>5 DEF MonitorFires, MonitorStops, Close, Claiming, Wiped
<1>6. ASSUME NEW m \in Node, Crash(m) PROVE Own(n)'
  BY <1>6 DEF Crash, TypeOK, HolderIdentifiable, Claiming, Wiped
<1>7. CASE Tick \/ UNCHANGED vars
  BY <1>1, <1>7 DEF Tick, vars, Claiming, Wiped
<1> QED BY <1>2, <1>3, <1>4, <1>5, <1>6, <1>7 DEF Next, NodeStep

\* A process that ends with its LOCK in S3, or on the way there, finds it again
\* through the local file, whatever the other nodes do (lock.go:107-118,
\* 146-162, 95-100), unless the clean-up of that very Lock() has removed the
\* directory, after which the file is gone for sure (storage.go:1541-1550).
THEOREM HolderFindsItsLock == Spec => []HolderIdentifiable
<1>1. Init => HolderIdentifiable
  BY DEF Init, HolderIdentifiable, Claiming
<1>2. TypeOK /\ HolderIdentifiable /\ [Next]_vars => HolderIdentifiable'
  BY IdentifiableNext
<1> QED
  BY <1>1, <1>2, TypeCorrect, PTL DEF Spec

\* The local files: only WriteLocal puts an id there, and it is the caller's.
LEMMA FilesNext ==
  ASSUME [Next]_vars
  PROVE  \/ UNCHANGED local
         \/ \E n \in Node : \/ WriteLocal(n)
                          \/ local' = [local EXCEPT ![Dir[n]] = NoLock]
<1> USE DEF storeVars
<1>1. ASSUME NEW n \in Node, LockStep(n)
      PROVE  \/ UNCHANGED local \/ WriteLocal(n)
             \/ local' = [local EXCEPT ![Dir[n]] = NoLock]
  BY <1>1 DEF LockStep, LockBegin, Exists, CheckHolder, CheckStale, CheckRefuses, LockFails,
     PutLockOk, PutLockLost, PutLockFails, WipeDir, RecoverOk, RecoverFails
<1>2. ASSUME NEW n \in Node, UnlockStep(n)
      PROVE  UNCHANGED local \/ local' = [local EXCEPT ![Dir[n]] = NoLock]
  BY <1>2 DEF UnlockStep, StorageLockerUnlock, StorageUnlock, Release, ReleaseOk, ReleaseLost,
     ReleaseFails
<1>3. ASSUME NEW n \in Node, NEW k \in Session, RenewStep(n, k) PROVE UNCHANGED local
  BY <1>3 DEF RenewStep, RenewTick, RenewOk, RenewLost, RenewFails, RenewStop
<1>4. ASSUME NEW n \in Node, MonitorFires(n) \/ MonitorStops(n) \/ Close(n) \/ Crash(n)
      PROVE  UNCHANGED local
  BY <1>4 DEF MonitorFires, MonitorStops, Close, Crash
<1>5. CASE Tick \/ UNCHANGED vars
  BY <1>5 DEF Tick, vars
<1> QED BY <1>1, <1>2, <1>3, <1>4, <1>5 DEF Next, NodeStep

\* Only CheckHolder can record a shared directory.
LEMMA SharingRecorded ==
  ASSUME [Next]_vars, breach # "sharedDir", breach' = "sharedDir"
  PROVE  \E n \in Node : CheckHolder(n) /\ LiveClaim(remote)
<1>1. ASSUME NEW n \in Node, LockStep(n) PROVE CheckHolder(n) /\ LiveClaim(remote)
  <2>1. CASE CheckHolder(n)
    BY <2>1 DEF CheckHolder, Note
  <2>2. CASE CheckStale(n) \/ PutLockOk(n) \/ PutLockLost(n)
    BY <2>2 DEF CheckStale, PutLockOk, PutLockLost, PutLock, Note
  <2>3. CASE ~CheckHolder(n) /\ ~(CheckStale(n) \/ PutLockOk(n) \/ PutLockLost(n))
    BY <1>1, <2>3 DEF LockStep, LockBegin, Exists, CheckRefuses, LockFails, WriteLocal,
       PutLockFails, WipeDir, RecoverOk, RecoverFails
  <2> QED BY <2>1, <2>2, <2>3
<1>2. ASSUME NEW n \in Node, UnlockStep(n) PROVE FALSE
  BY <1>2 DEF UnlockStep, StorageLockerUnlock, StorageUnlock, Release, ReleaseOk, ReleaseLost,
     ReleaseFails, DeleteLock, Note
<1>3. ASSUME NEW n \in Node, NEW k \in Session, RenewStep(n, k) PROVE FALSE
  BY <1>3 DEF RenewStep, RenewTick, RenewOk, RenewLost, RenewPut, RenewFails, RenewStop, Note
<1>4. ASSUME NEW n \in Node, MonitorFires(n) \/ MonitorStops(n) \/ Close(n) \/ Crash(n)
      PROVE  FALSE
  BY <1>4 DEF MonitorFires, MonitorStops, Close, Crash
<1>5. CASE Tick \/ UNCHANGED vars
  BY <1>5 DEF Tick, vars
<1> QED BY <1>1, <1>2, <1>3, <1>4, <1>5 DEF Next, NodeStep

\* The LOCK a process takes over as its own left-over belongs to nobody who
\* still uses it, unless two processes share a directory (lock.go:107-118,
\* 146-162): a file of one's own directory has one's own id, and the only call
\* with that id would be the one that checks.
THEOREM LeftoversAreOwn == Spec => []LeftoverIsOwn
<1>1. ASSUME Init PROVE LeftoverIsOwn
  <2>1. breach # "sharedDir" /\ local = [d \in {Dir[n] : n \in Node} |-> NoLock]
    BY <1>1 DEF Init
  <2>2. ASSUME NEW n \in Node PROVE local[Dir[n]] = NoLock
    <3>1. Dir[n] \in {Dir[m] : m \in Node}
      OBVIOUS
    <3> QED BY <2>1, <3>1
  <2> QED BY <2>1, <2>2 DEF LeftoverIsOwn
<1>2. ASSUME LockInv, LeftoverIsOwn, [Next]_vars PROVE LeftoverIsOwn'
  <2>1. ASSUME NEW n \in Node, Alone(n), local'[Dir[n]] # NoLock
        PROVE  local'[Dir[n]].owner = n
    <3>1. CASE UNCHANGED local
      BY <1>2, <2>1, <3>1 DEF LeftoverIsOwn
    <3>2. ASSUME NEW m \in Node, WriteLocal(m) PROVE local'[Dir[n]].owner = n
      <4>1. CASE m = n
        <5>1. pc[n] # "idle" /\ local' = [local EXCEPT ![Dir[n]] = lockID[n]]
          BY <3>2, <4>1 DEF WriteLocal
        <5>2. lockID[n].owner = n
          BY <1>2, <5>1 DEF LockInv, LockCore, OwnIdKnown
        <5> QED BY <1>2, <5>1, <5>2 DEF LockInv, TypeOK
      <4>2. CASE m # n
        BY <1>2, <2>1, <3>2, <4>2 DEF WriteLocal, LockInv, TypeOK, Alone, LeftoverIsOwn
      <4> QED BY <4>1, <4>2
    <3>3. ASSUME NEW m \in Node, local' = [local EXCEPT ![Dir[m]] = NoLock]
          PROVE  local'[Dir[n]].owner = n
      BY <1>2, <2>1, <3>3 DEF LockInv, TypeOK, LeftoverIsOwn
    <3> QED BY <1>2, <3>1, <3>2, <3>3, FilesNext
  <2>2. ASSUME breach' = "sharedDir", \A n \in Node : Alone(n) PROVE FALSE
    <3>1. breach # "sharedDir"
      BY <1>2, <2>2 DEF LeftoverIsOwn
    <3>2. PICK n \in Node : CheckHolder(n) /\ LiveClaim(remote)
      BY <1>2, <2>2, <3>1, SharingRecorded
    <3>3. PICK m \in Node : Claiming(m) /\ lockID[m] = remote
      BY <3>2 DEF LiveClaim
    <3>4. pc[n] = "get" /\ remote # NoLock /\ local[Dir[n]] = remote
      BY <3>2 DEF CheckHolder, IsLockHolder
    <3>5. remote.owner = n
      BY <1>2, <2>2, <3>4 DEF LeftoverIsOwn
    <3>6. remote.owner = m
      BY <1>2, <3>3, <3>4 DEF LockInv, LockCore, OwnIdKnown
    <3> QED BY <3>3, <3>4, <3>5, <3>6 DEF Claiming
  <2> QED BY <2>1, <2>2 DEF LeftoverIsOwn, Alone
<1> QED
  BY <1>1, <1>2, LockInvHolds, PTL DEF Spec

-----------------------------------------------------------------------------
(* The lock implements a mutex up to the first blind step                  *)

Holders == {n \in Node : Holder(n)}

\* A step moves the control point of one node at most, and a blind step is
\* never forgotten.
LEMMA OneMoves ==
  ASSUME TypeOK, [Next]_vars
  PROVE  /\ \/ pc' = pc
            \/ \E n \in Node, point \in Control : pc' = [pc EXCEPT ![n] = point]
         /\ breach # "none" => breach' # "none"
<1> USE DEF Goto, storeVars, renewVars, flagVars, callVars, Control
<1> DEFINE Moves == \/ pc' = pc
                    \/ \E n \in Node, point \in Control : pc' = [pc EXCEPT ![n] = point]
           Kept == breach # "none" => breach' # "none"
<1>1. ASSUME NEW n \in Node, LockStep(n) PROVE Moves /\ Kept
  <2>1. CASE LockBegin(n) \/ Exists(n) \/ CheckRefuses(n) \/ LockFails(n) \/ WriteLocal(n)
    BY <2>1 DEF LockBegin, Exists, CheckRefuses, LockFails, WriteLocal
  <2>2. CASE CheckHolder(n) \/ CheckStale(n)
    BY <2>2 DEF CheckHolder, CheckStale, Note
  <2>3. CASE PutLockOk(n) \/ PutLockLost(n)
    BY <2>3 DEF PutLockOk, PutLockLost, PutLock, Note
  <2>4. CASE PutLockFails(n) \/ WipeDir(n) \/ RecoverOk(n) \/ RecoverFails(n)
    BY <2>4 DEF PutLockFails, WipeDir, RecoverOk, RecoverFails
  <2> QED BY <1>1, <2>1, <2>2, <2>3, <2>4 DEF LockStep
<1>2. ASSUME NEW n \in Node, UnlockStep(n) PROVE Moves /\ Kept
  <2>1. CASE StorageLockerUnlock(n) \/ StorageUnlock(n)
    BY <2>1 DEF StorageLockerUnlock, StorageUnlock, Release
  <2>2. CASE ReleaseOk(n) \/ ReleaseLost(n)
    BY <2>2 DEF ReleaseOk, ReleaseLost, DeleteLock, Note
  <2>3. CASE ReleaseFails(n)
    BY <2>3 DEF ReleaseFails
  <2> QED BY <1>2, <2>1, <2>2, <2>3 DEF UnlockStep
<1>3. ASSUME NEW n \in Node, NEW k \in Session, RenewStep(n, k) PROVE Moves /\ Kept
  BY <1>3 DEF RenewStep, RenewTick, RenewOk, RenewLost, RenewPut, RenewFails, RenewStop, Note
<1>4. ASSUME NEW n \in Node, MonitorFires(n) \/ MonitorStops(n) \/ Close(n) \/ Crash(n)
      PROVE  Moves /\ Kept
  BY <1>4 DEF MonitorFires, MonitorStops, Close, Crash
<1>5. CASE Tick \/ UNCHANGED vars
  BY <1>5 DEF Tick, vars
<1> QED BY <1>1, <1>2, <1>3, <1>4, <1>5 DEF Next, NodeStep

\* Without a blind step a holder comes when there is none, or it goes.
LEMMA MutexStep ==
  ASSUME TypeOK, ExclusiveUnlessBreach, ExclusiveUnlessBreach', [Next]_vars
  PROVE  [Mutex!Next]_(Mutex!vars)
<1> DEFINE broken == breach # "none"
<1>1. Holders \in SUBSET Node /\ Holders' \in SUBSET Node
  BY DEF Holders
<1>2. CASE broken'
  BY <1>1, <1>2 DEF Mutex!Next, Mutex!Break, Holders
<1>3. CASE ~broken'
  <2>1. breach = "none" /\ breach' = "none"
    BY <1>3, OneMoves
  <2>2. CASE pc' = pc
    <3>1. Holders' = Holders
      BY <2>2 DEF Holders, Holder
    <3> QED BY <2>1, <3>1 DEF Mutex!vars, Holders
  <2>3. ASSUME NEW n \in Node, NEW point \in Control, pc' = [pc EXCEPT ![n] = point]
        PROVE  [Mutex!Next]_(Mutex!vars)
    <3>1. Holders \ {n} = Holders' \ {n}
      BY <2>3 DEF Holders, Holder, TypeOK
    <3>2. CASE (n \in Holders) = (n \in Holders')
      <4>1. Holders' = Holders
        BY <3>1, <3>2
      <4> QED BY <2>1, <4>1 DEF Mutex!vars, Holders
    <3>3. CASE n \in Holders /\ n \notin Holders'
      <4>1. Holders' = Holders \ {n}
        BY <3>1, <3>3
      <4> QED BY <2>1, <3>3, <4>1 DEF Mutex!Next, Mutex!Release, Holders
    <3>4. CASE n \notin Holders /\ n \in Holders'
      <4>1. \A m \in Node : m \in Holders' => m = n
        BY <2>1, <3>4 DEF ExclusiveUnlessBreach, Holders
      <4>2. Holders = {} /\ Holders' = {n}
        BY <1>1, <3>1, <3>4, <4>1
      <4> QED BY <2>1, <4>2 DEF Mutex!Next, Mutex!Acquire, Holders
    <3> QED BY <3>2, <3>3, <3>4
  <2> QED BY <2>2, <2>3, OneMoves
<1> QED BY <1>2, <1>3

\* Lock, the recovery, Unlock, the renewal, the monitor, Close and crashes of
\* any number of processes implement a mutex that nobody enters while another
\* process is inside, up to the first blind step (lock.go:47-211,
\* storage.go:90-110, 188-251).
THEOREM LockIsMutex == Spec => ImplementsMutex
<1>1. Init => Mutex!Init
  BY DEF Init, Mutex!Init, Holder
<1>2. TypeOK /\ ExclusiveUnlessBreach /\ ExclusiveUnlessBreach' /\ [Next]_vars
        => [Mutex!Next]_(Mutex!vars)
  BY MutexStep
<1> QED
  BY <1>1, <1>2, TypeCorrect, ExclusionHolds, PTL DEF Spec, ImplementsMutex, Mutex!Spec
=============================================================================
