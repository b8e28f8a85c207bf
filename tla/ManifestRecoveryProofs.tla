----------------------- MODULE ManifestRecoveryProofs -----------------------
(* What a session leaves behind can be found again: CommittedReachable for   *)
(* every set of hosts and every bound, and, for a single host whose cache    *)
(* works, that no commit is ever lost.  Both rest on SessionInv; the second  *)
(* on OneHostInv as well.                                                    *)
EXTENDS ManifestRecovery, TLAPS

-----------------------------------------------------------------------------
(* Helpers of the module                                                    *)

LEMMA MaxTwo ==
  ASSUME NEW a \in Nat, NEW b \in Nat
  PROVE  /\ Max({a, b}) \in {a, b}
         /\ Max({a, b}) >= a /\ Max({a, b}) >= b
<1>1. \E x \in {a, b} : \A y \in {a, b} : x >= y
  <2>1. CASE a >= b
    BY <2>1
  <2>2. CASE b >= a
    BY <2>2
  <2> QED BY <2>1, <2>2
<1> QED BY <1>1 DEF Max

LEMMA MinTwo ==
  ASSUME NEW a \in Nat, NEW b \in Nat
  PROVE  /\ Min({a, b}) \in {a, b}
         /\ Min({a, b}) <= a /\ Min({a, b}) <= b
<1>1. \E x \in {a, b} : \A y \in {a, b} : x <= y
  <2>1. CASE a <= b
    BY <2>1
  <2>2. CASE b <= a
    BY <2>2
  <2> QED BY <2>1, <2>2
<1> QED BY <1>1 DEF Min

LEMMA PutType ==
  ASSUME NEW store \in [Num -> Version], NEW k, NEW v \in Version
  PROVE  Put(store, k, v) \in [Num -> Version]
  BY DEF Put

LEMMA OverType ==
  ASSUME NEW store \in [Num -> Version], NEW files \in [Num -> Version], NEW K
  PROVE  Over(store, files, K) \in [Num -> Version]
  BY DEF Over

LEMMA WithoutType ==
  ASSUME NEW store \in [Num -> Version], NEW K
  PROVE  Without(store, K) \in [Num -> Version]
  BY BoundsAssumption DEF Without, Version

LEMMA OnDiskType ==
  ASSUME NEW disk \in [Node -> [Num -> Version]], NEW k, NEW v \in Version
  PROVE  OnDisk(disk, k, v) \in [Node -> [Num -> Version]]
  BY DEF OnDisk

LEMMA CleanType ==
  ASSUME NEW K, shadow \in [Num -> Version], CleanShadows(K)
  PROVE  shadow' \in [Num -> Version]
  BY WithoutType DEF CleanShadows

LEMMA ZeroType == 0 \in Version
  BY BoundsAssumption DEF Version

\* The file that was written is there, the others are as they were.
LEMMA OnDiskAt ==
  ASSUME NEW disk \in [Node -> [Num -> Version]], node \in Node,
         NEW k \in Num, NEW v, NEW j \in Num
  PROVE  OnDisk(disk, k, v)[node][j] = IF j = k THEN v ELSE disk[node][j]
  BY DEF OnDisk

-----------------------------------------------------------------------------
(* Type correctness                                                         *)

LEMMA SessionInit == ASSUME Init PROVE SessionInv
<1>1. NoFiles \in [Num -> Version]
  BY ZeroType DEF NoFiles
<1>2. TypeOK
  BY <1>1, ZeroType DEF Init, TypeOK
<1> QED BY <1>2 DEF Init, SessionInv

LEMMA CleanupType == ASSUME TypeOK, Cleanup PROVE TypeOK'
<1> USE DEF TypeOK, s3Vars, diskVars, memVars, GoesTo
<1>1. CASE CleanupFails \/ Consistent
  BY <1>1 DEF CleanupFails, Consistent
<1>2. CASE VerifyFromCache
  <2>1. current \in Num /\ loc[node][current] \in Version
    BY <1>2 DEF VerifyFromCache, Dangling
  <2> QED BY <1>2, <2>1, PutType DEF VerifyFromCache
<1>3. CASE VerifyFromPending
  <2>1. current \in Num /\ pend[node][current] \in Version
    BY <1>3 DEF VerifyFromPending, Dangling
  <2> QED BY <1>3, <2>1, PutType, OnDiskType, ZeroType DEF VerifyFromPending
<1>4. CASE VerifyGivesUp
  <2>1. loc[node][current] \in Version /\ pend[node][current] \in Version
    BY <1>4 DEF VerifyGivesUp, Dangling
  <2>2. man' \in [Num -> Version]
    BY <1>4, <2>1, PutType DEF VerifyGivesUp
  <2> QED BY <1>4, <2>2 DEF VerifyGivesUp
<1>5. ASSUME NEW k \in Num, NEW v \in Version, RecoverFrom(k, v)
      PROVE  /\ man' \in [Num -> Version] /\ current' \in Num \cup {0}
             /\ phase' \in {"ready", "wipe"}
             /\ UNCHANGED <<tables, shadow, loc, node, opened, live, ver, hand,
                            behind, committed>>
             /\ lockHeld' \in BOOLEAN
  <2>1. PICK p \in {"ready", "wipe"} : GoesTo(p)
    BY <1>5 DEF RecoverFrom
  <2>2. /\ phase' \in {"ready", "wipe"} /\ lockHeld' \in BOOLEAN
        /\ UNCHANGED <<node, opened, live, ver, hand, behind, committed>>
    BY <2>1
  <2>3. man' \in [Num -> Version] /\ current' \in Num \cup {0}
    BY <1>5, PutType DEF RecoverFrom, FailedPut
  <2> QED BY <1>5, <2>2, <2>3 DEF RecoverFrom
<1>6. CASE RecoverFromCache
  <2>1. PICK k \in Num : RecoverFrom(k, loc[node][k])
    BY <1>6 DEF RecoverFromCache
  <2> QED BY <1>5, <1>6, <2>1 DEF RecoverFromCache
<1>7. CASE RecoverFromPending
  <2>1. PICK k \in Num :
            /\ RecoverFrom(k, pend[node][k])
            /\ pend' = IF phase' = "ready" THEN OnDisk(pend, k, 0) ELSE pend
    BY <1>7 DEF RecoverFromPending
  <2>2. pend' \in [Node -> [Num -> Version]]
    BY <2>1, OnDiskType, ZeroType
  <2> QED BY <1>5, <2>1, <2>2
<1>8. CASE NothingToRecover
  BY <1>8 DEF NothingToRecover
<1>9. CASE WipeLocal
  <2>1. PICK L \in SUBSET Num, P \in SUBSET Num :
            /\ loc' = [loc EXCEPT ![node] = Without(loc[node], L)]
            /\ pend' = [pend EXCEPT ![node] = Without(pend[node], P)]
    BY <1>9 DEF WipeLocal
  <2>2. Without(loc[node], L) \in [Num -> Version]
    BY WithoutType
  <2>3. Without(pend[node], P) \in [Num -> Version]
    BY WithoutType
  <2>4. /\ loc' \in [Node -> [Num -> Version]]
        /\ pend' \in [Node -> [Num -> Version]]
    BY <2>1, <2>2, <2>3
  <2> QED BY <1>9, <2>4 DEF WipeLocal
<1>10. CASE WipeRemote
  BY <1>10, WithoutType, ZeroType DEF WipeRemote
<1> QED
  BY <1>1, <1>2, <1>3, <1>4, <1>6, <1>7, <1>8, <1>9, <1>10 DEF Cleanup

\* A commit in memory: the version stays within the bound, the tables follow.
LEMMA CommitVersion ==
  ASSUME TypeOK, ver < MaxVersion
  PROVE  ver + 1 \in Version /\ Max({tables, ver + 1}) \in Version
<1>1. ver + 1 \in Version /\ ver + 1 \in Nat /\ tables \in Nat
  BY BoundsAssumption DEF TypeOK, Version
<1> QED BY <1>1, MaxTwo DEF TypeOK

LEMMA CommitType == ASSUME SessionInv, Commit PROVE TypeOK'
<1> USE DEF TypeOK, loopVars
<1>1. TypeOK
  BY DEF SessionInv
<1>2. CASE NewManifest
  <2>1. NewNum \in Num /\ ver < MaxVersion
    BY <1>2 DEF NewManifest
  <2>2. loc' \in [Node -> [Num -> Version]]
    BY <1>1, <1>2, <2>1, CommitVersion, OnDiskType DEF NewManifest, EagerWrite
  <2> QED BY <1>1, <1>2, <2>1, <2>2, CommitVersion DEF NewManifest
<1>3. CASE SetMeta
  <2>1. NewNum \in Num
    BY <1>3 DEF SessionInv, SetMeta
  <2> QED
    BY <1>1, <1>3, <2>1 DEF SetMeta, FailedPut, diskVars, memVars
<1>4. CASE UndoManifest
  <2>1. NewNum \in Num /\ ver - 1 \in Version
    BY <1>4, BoundsAssumption DEF SessionInv, UndoManifest, Version
  <2>2. /\ loc' \in [Node -> [Num -> Version]]
        /\ pend' \in [Node -> [Num -> Version]]
    BY <1>1, <1>4, OnDiskType, ZeroType DEF UndoManifest
  <2>3. man' \in [Num -> Version] /\ shadow' \in [Num -> Version]
    BY <1>1, <1>4, PutType, CleanType, ZeroType DEF UndoManifest
  <2> QED BY <1>1, <1>4, <2>1, <2>2, <2>3 DEF UndoManifest
<1>5. CASE RemoveOld
  <2>1. NewNum \in Num
    BY <1>5 DEF SessionInv, RemoveOld
  <2>2. /\ loc' \in [Node -> [Num -> Version]]
        /\ pend' \in [Node -> [Num -> Version]]
    BY <1>1, <1>5, OnDiskType, ZeroType DEF RemoveOld
  <2>3. man' \in [Num -> Version] /\ shadow' \in [Num -> Version]
    BY <1>1, <1>5, PutType, CleanType, ZeroType DEF RemoveOld
  <2> QED BY <1>1, <1>5, <2>1, <2>2, <2>3 DEF RemoveOld
<1>6. CASE AppendOk
  <2>1. ver < MaxVersion
    BY <1>6 DEF AppendOk
  <2>2. /\ loc' \in [Node -> [Num -> Version]]
        /\ pend' \in [Node -> [Num -> Version]]
    BY <1>1, <1>6, <2>1, OnDiskType, ZeroType, CommitVersion DEF AppendOk
  <2>3. man' \in [Num -> Version] /\ shadow' \in [Num -> Version]
    BY <1>1, <1>6, <2>1, PutType, CleanType, CommitVersion DEF AppendOk
  <2> QED BY <1>1, <1>6, <2>1, <2>2, <2>3, CommitVersion DEF AppendOk
<1>7. CASE AppendFails
  <2>1. ver < MaxVersion
    BY <1>7 DEF AppendFails
  <2>2. loc' \in [Node -> [Num -> Version]]
    BY <1>1, <1>7, <2>1, OnDiskType, CommitVersion DEF AppendFails
  <2>3. man' \in [Num -> Version]
    BY <1>1, <1>7, <2>1, PutType, CommitVersion DEF AppendFails, FailedPut
  <2>4. pend' \in [Node -> [Num -> Version]] /\ shadow' \in [Num -> Version]
    BY <1>1, <1>7, <2>1, OnDiskType, PutType, CommitVersion DEF AppendFails
  <2> QED BY <1>1, <1>7, <2>1, <2>2, <2>3, <2>4, CommitVersion DEF AppendFails
<1> QED
  BY <1>2, <1>3, <1>4, <1>5, <1>6, <1>7 DEF Commit

LEMMA LoopType ==
  ASSUME TypeOK, NEW k \in Num, LoopReads(k) \/ LoopPuts(k) \/ LoopGivesUp(k)
  PROVE  TypeOK'
<1> USE DEF TypeOK, s3Vars, diskVars, memVars
<1>1. pend[node][k] \in Version /\ hand[k] \in Version
  OBVIOUS
<1>2. CASE LoopReads(k)
  <2>1. hand' \in [Num -> Version] /\ pend' \in [Node -> [Num -> Version]]
    BY <1>1, <1>2, PutType, OnDiskType, ZeroType DEF LoopReads
  <2> QED BY <1>2, <2>1 DEF LoopReads
<1>3. CASE LoopPuts(k)
  <2>1. man' \in [Num -> Version] /\ hand' \in [Num -> Version]
    BY <1>1, <1>3, PutType, ZeroType DEF LoopPuts
  <2>2. pend' \in [Node -> [Num -> Version]] /\ shadow' \in [Num -> Version]
    BY <1>3, OnDiskType, ZeroType, CleanType DEF LoopPuts
  <2>3. behind' \subseteq Num
    BY <1>3 DEF LoopPuts
  <2> QED BY <1>3, <2>1, <2>2, <2>3 DEF LoopPuts
<1>4. CASE LoopGivesUp(k)
  <2>1. hand' \in [Num -> Version]
    BY <1>4, PutType, ZeroType DEF LoopGivesUp
  <2> QED BY <1>4, <2>1 DEF LoopGivesUp
<1> QED BY <1>2, <1>3, <1>4

LEMMA TypeNext == ASSUME SessionInv, [Next]_vars PROVE TypeOK'
<1>1. TypeOK
  BY DEF SessionInv
<1>2. ASSUME NEW n \in Node, Start(n) PROVE TypeOK'
  BY <1>1, <1>2 DEF Start, TypeOK, s3Vars, diskVars, memVars, loopVars
<1>3. CASE SyncPending
  <2>1. PICK F \in SUBSET {k \in Files(shadow) : pend[node][k] = 0} :
          \E P \in SUBSET Files(Over(pend[node], shadow, F)) :
          \E D \in SUBSET Files(Over(pend[node], shadow, F)) :
            /\ man' = Over(man, Over(pend[node], shadow, F), P)
            /\ pend' = [pend EXCEPT ![node] =
                          Without(Over(pend[node], shadow, F), D)]
            /\ CleanShadows(P \cap D)
    BY <1>3 DEF SyncPending
  <2>2. pend[node] \in [Num -> Version] /\ shadow \in [Num -> Version]
    BY <1>1 DEF TypeOK
  <2>3. Over(pend[node], shadow, F) \in [Num -> Version]
    BY <2>2, OverType
  <2>4. /\ man' \in [Num -> Version]
        /\ pend' \in [Node -> [Num -> Version]]
        /\ shadow' \in [Num -> Version]
    BY <1>1, <2>1, <2>3, OverType, WithoutType, CleanType DEF TypeOK
  <2> QED BY <1>1, <1>3, <2>4 DEF SyncPending, TypeOK, memVars, loopVars
<1>4. CASE SyncLocal
  <2>1. man' \in [Num -> Version]
    BY <1>1, <1>4, OverType DEF SyncLocal, TypeOK
  <2>2. phase' \in {"cleanup", "down"}
    BY <1>4 DEF SyncLocal
  <2>3. behind' \subseteq Num
    BY <1>1, <1>4 DEF SyncLocal, TypeOK
  <2> QED BY <1>1, <1>4, <2>1, <2>2, <2>3 DEF SyncLocal, TypeOK, diskVars, memVars
<1>5. CASE Cleanup
  BY <1>1, <1>5, CleanupType
<1>6. CASE OpenExisting
  <2>1. man[current] \in Version /\ current \in Num
    BY <1>1, <1>6 DEF OpenExisting, MetaFound, TypeOK
  <2>2. committed \in Version /\ \A v \in Version : v \in Nat
    BY <1>1, BoundsAssumption DEF TypeOK, Version
  <2>3. committed' \in Version
    BY <1>6, <2>1, <2>2, MinTwo DEF OpenExisting
  <2> QED
    BY <1>1, <1>6, <2>1, <2>3 DEF OpenExisting, TypeOK, s3Vars, diskVars, loopVars
<1>7. CASE CreateNew
  BY <1>1, <1>7, ZeroType DEF CreateNew, TypeOK, s3Vars, diskVars, loopVars
<1>8. CASE Commit
  BY <1>8, CommitType
<1>9. CASE CloseDB \/ End
  <2>1. NoFiles \in [Num -> Version]
    BY ZeroType DEF NoFiles
  <2>2. lockHeld' \in BOOLEAN
    BY <1>1, <1>9 DEF CloseDB, End, TypeOK
  <2> QED
    BY <1>1, <1>9, <2>1, <2>2, ZeroType DEF CloseDB, End, TypeOK, s3Vars, diskVars
<1>10. ASSUME NEW k \in Num, LoopReads(k) \/ LoopPuts(k) \/ LoopGivesUp(k)
       PROVE  TypeOK'
  BY <1>1, <1>10, LoopType
<1>11. CASE UNCHANGED vars
  BY <1>1, <1>11 DEF vars, TypeOK, s3Vars, diskVars, memVars, loopVars
<1> QED
  BY <1>2, <1>3, <1>4, <1>5, <1>6, <1>7, <1>8, <1>9, <1>10, <1>11 DEF Next

-----------------------------------------------------------------------------
(* The session invariant                                                    *)

\* Steps before a database is open leave the session without a manifest.
LEMMA ClosedSteps ==
  ASSUME SessionInv,
         \/ \E n \in Node : Start(n)
         \/ SyncPending \/ SyncLocal \/ Cleanup
         \/ OpenExisting \/ CreateNew \/ CloseDB \/ End
  PROVE  live' = 0 /\ phase' \notin {"meta", "undo", "old"}
<1>1. TypeOK
  BY DEF SessionInv
<1>2. CASE \E n \in Node : Start(n)
  BY <1>2 DEF Start, memVars, SessionInv
<1>3. CASE SyncPending \/ SyncLocal
  BY <1>3 DEF SyncPending, SyncLocal, memVars, SessionInv
<1>4. CASE Cleanup
  <2>1. UNCHANGED live /\ phase # "serving"
    BY <1>4 DEF Cleanup, CleanupFails, Consistent, Dangling, NoCurrent,
       VerifyFromCache, VerifyFromPending, VerifyGivesUp, RecoverFromCache,
       RecoverFromPending, RecoverFrom, NothingToRecover, WipeLocal, WipeRemote,
       GoesTo, memVars
  <2>2. phase' \in {"ready", "wipe", "list"}
    BY <1>4 DEF Cleanup, CleanupFails, Consistent, VerifyFromCache,
       VerifyFromPending, VerifyGivesUp, RecoverFromCache, RecoverFromPending,
       RecoverFrom, NothingToRecover, WipeLocal, WipeRemote, GoesTo
  <2> QED BY <2>1, <2>2 DEF SessionInv
<1>5. CASE OpenExisting \/ CreateNew \/ CloseDB \/ End
  BY <1>5 DEF OpenExisting, CreateNew, CloseDB, End
<1> QED BY <1>2, <1>3, <1>4, <1>5

\* The loop has no part in the session.
LEMMA LoopLeaves ==
  ASSUME NEW k, LoopReads(k) \/ LoopPuts(k) \/ LoopGivesUp(k)
  PROVE  UNCHANGED <<current, loc, node, phase, opened, live, ver, committed>>
  BY DEF LoopReads, LoopPuts, LoopGivesUp, s3Vars, diskVars, memVars

LEMMA SessionNext ==
  ASSUME SessionInv, [Next]_vars, "eagerWrite" \notin Faults
  PROVE  SessionInv'
<1>1. TypeOK /\ TypeOK'
  BY TypeNext DEF SessionInv
<1>2. /\ node \in Node /\ opened \in Nat /\ ver \in Nat /\ committed \in Nat
      /\ loc \in [Node -> [Num -> Version]]
  <2>1. opened \in Num \cup {0} /\ ver \in Version /\ committed \in Version
    BY <1>1 DEF TypeOK
  <2>2. opened \in Nat /\ ver \in Nat /\ committed \in Nat
    BY <2>1, BoundsAssumption DEF Num, Version
  <2> QED BY <1>1, <2>2 DEF TypeOK
<1>3. CASE \/ \E n \in Node : Start(n)
           \/ SyncPending \/ SyncLocal \/ Cleanup
           \/ OpenExisting \/ CreateNew \/ CloseDB \/ End
  BY <1>1, <1>3, ClosedSteps DEF SessionInv
<1>4. CASE NewManifest
  <2>1. loc' = OnDisk(loc, NewNum, ver + 1) /\ NewNum' = NewNum /\ NewNum \in Num
    BY <1>4 DEF NewManifest, EagerWrite, NewNum
  <2>2. loc'[node][NewNum] = ver + 1
    BY <1>2, <2>1, OnDiskAt
  <2> QED BY <1>1, <1>2, <1>4, <2>1, <2>2 DEF SessionInv, NewManifest
<1>5. CASE SetMeta
  <2>1. /\ loc' = loc /\ node' = node /\ ver' = ver /\ live' = live
        /\ opened' = opened /\ NewNum' = NewNum
    BY <1>5 DEF SetMeta, diskVars, memVars, NewNum
  <2> QED BY <1>1, <1>5, <2>1 DEF SessionInv, SetMeta
<1>6. CASE UndoManifest
  BY <1>1, <1>6 DEF SessionInv, UndoManifest
<1>7. CASE RemoveOld
  <2>1. /\ current = NewNum /\ loc[node][NewNum] = ver /\ NewNum \in Num /\ live = 0
    BY <1>7 DEF SessionInv, RemoveOld
  <2>2. loc'[node][NewNum] = ver
    <3>1. CASE opened = 0
      BY <1>7, <2>1, <3>1 DEF RemoveOld
    <3>2. CASE opened # 0
      <4>1. opened \in Num /\ opened # NewNum
        BY <1>1, <1>2, <3>2 DEF TypeOK, NewNum
      <4> QED BY <1>2, <1>7, <2>1, <3>2, <4>1, OnDiskAt DEF RemoveOld
    <3> QED BY <3>1, <3>2
  <2> QED BY <1>1, <1>2, <1>7, <2>1, <2>2 DEF SessionInv, RemoveOld
<1>8. CASE AppendOk \/ AppendFails
  <2>1. /\ live # 0 /\ loc' = OnDisk(loc, live, ver + 1) /\ ver' = ver + 1
        /\ committed' \in {committed, ver + 1} /\ phase = "serving"
        /\ UNCHANGED <<current, node, phase, opened, live>>
    BY <1>8 DEF AppendOk, AppendFails
  <2>2. live \in Num /\ loc'[node][live] = ver + 1
    BY <1>1, <1>2, <2>1, OnDiskAt DEF TypeOK
  <2> QED BY <1>1, <1>2, <2>1, <2>2 DEF SessionInv
<1>9. ASSUME NEW k \in Num, LoopReads(k) \/ LoopPuts(k) \/ LoopGivesUp(k)
      PROVE  SessionInv'
  BY <1>1, <1>9, LoopLeaves DEF SessionInv, NewNum
<1>10. CASE UNCHANGED vars
  BY <1>1, <1>10 DEF SessionInv, vars, s3Vars, diskVars, memVars, NewNum
<1> QED
  BY <1>3, <1>4, <1>5, <1>6, <1>7, <1>8, <1>9, <1>10 DEF Next, Commit

LEMMA SessionReachable == ASSUME SessionInv PROVE CommittedReachable
<1> SUFFICES ASSUME phase = "serving", live # 0
             PROVE  current = live /\ Max({man[live], loc[node][live]}) >= committed
  BY DEF CommittedReachable
<1>1. live \in Num /\ ver \in Nat /\ committed \in Nat
  BY BoundsAssumption DEF SessionInv, TypeOK, Version
<1>2. man[live] \in Nat /\ loc[node][live] \in Nat
  BY <1>1, BoundsAssumption DEF SessionInv, TypeOK, Version
<1>3. Max({man[live], loc[node][live]}) >= loc[node][live]
  BY <1>2, MaxTwo
<1>4. Max({man[live], loc[node][live]}) \in Nat
  BY <1>2, MaxTwo
<1> QED BY <1>1, <1>2, <1>3, <1>4 DEF SessionInv

\* While Write reaches the cache, the cache of a session's node has its manifest
\* with every commit from the first Write on, and CURRENT names it before the
\* session goes on: for any number of hosts, lost answers, unreadable caches and
\* failed clean-ups (storage.go:56-65, 253-272).
THEOREM SessionInvHolds == ASSUME "eagerWrite" \notin Faults PROVE Spec => []SessionInv
<1>1. Init => SessionInv
  BY SessionInit
<1>2. SessionInv /\ [Next]_vars => SessionInv'
  BY SessionNext
<1> QED BY <1>1, <1>2, PTL DEF Spec

\* Under the same conditions a session writes the manifest that CURRENT names,
\* and that manifest, or the node's copy, has every commit (storage.go:56-65,
\* 253-272, 1304-1452).
THEOREM SessionsAreFound ==
  ASSUME "eagerWrite" \notin Faults
  PROVE  Spec => []CommittedReachable
<1>1. SessionInv => CommittedReachable
  BY SessionReachable
<1> QED BY <1>1, SessionInvHolds, PTL

-----------------------------------------------------------------------------
(* One host                                                                 *)

\* A single host, with a cache that works and S3 calls that fail without effect.
OneHost == (\E n : Node = {n}) /\ Faults \subseteq {"cleanShadow"}

LEMMA OneNode == ASSUME OneHost, NEW n \in Node, NEW m \in Node PROVE n = m
  BY DEF OneHost

\* The numbers behind the invariant.
LEMMA Numbers ==
  ASSUME TypeOK
  PROVE  /\ current \in Nat /\ opened \in Nat /\ live \in Nat
         /\ ver \in Nat /\ committed \in Nat
         /\ current # 0 => current \in Num
         /\ opened # 0 => opened \in Num
         /\ live # 0 => live \in Num
         /\ \A k \in Num : man[k] \in Nat /\ loc[node][k] \in Nat
<1>1. \A v \in Version : v \in Nat
  BY BoundsAssumption DEF Version
<1>2. \A k \in Num : k \in Nat
  BY BoundsAssumption DEF Num
<1>3. /\ current \in Num \cup {0} /\ opened \in Num \cup {0} /\ live \in Num \cup {0}
      /\ ver \in Version /\ committed \in Version /\ node \in Node
      /\ man \in [Num -> Version] /\ loc \in [Node -> [Num -> Version]]
  BY DEF TypeOK
<1>4. \A k \in Num : man[k] \in Version /\ loc[node][k] \in Version
  BY <1>3
<1>5. current \in Nat /\ opened \in Nat /\ live \in Nat /\ ver \in Nat /\ committed \in Nat
  BY <1>1, <1>2, <1>3
<1> QED BY <1>1, <1>3, <1>4, <1>5

LEMMA OneHostInit == ASSUME Init PROVE OneHostInv
  BY DEF Init, OneHostInv

\* Lock(): no step of it finds fewer commits than there are.
LEMMA CleanupKeeps ==
  ASSUME SessionInv, OneHostInv, Cleanup
  PROVE  OneHostInv'
<1>1. TypeOK
  BY DEF SessionInv
<1>2. UNCHANGED committed
  BY DEF Cleanup, CleanupFails, Consistent, VerifyFromCache, VerifyFromPending,
     VerifyGivesUp, RecoverFromCache, RecoverFromPending, RecoverFrom,
     NothingToRecover, WipeLocal, WipeRemote, GoesTo
<1> SUFFICES ASSUME committed > 0 PROVE OneHostInv'
  BY <1>2 DEF OneHostInv
<1>3. /\ current # 0 /\ loc[node][current] >= committed
      /\ phase = "cleanup" => /\ man[current] > 0
                              /\ man[current] >= committed \/ current \in behind
      /\ phase \notin {"wipe", "list"}
  BY DEF OneHostInv
<1>4. ~Dangling /\ ~NoCurrent
  BY <1>1, <1>3, Numbers DEF Dangling, NoCurrent
<1>5. CleanupFails \/ Consistent
  BY <1>3, <1>4 DEF Cleanup, VerifyFromCache, VerifyFromPending, VerifyGivesUp,
     RecoverFromCache, RecoverFromPending, NothingToRecover, WipeLocal, WipeRemote
<1>6. /\ phase = "cleanup" /\ phase' = "ready"
      /\ UNCHANGED <<man, current, loc, node, behind>>
  BY <1>5 DEF CleanupFails, Consistent, GoesTo, s3Vars, diskVars
<1> QED BY <1>2, <1>3, <1>6 DEF OneHostInv

\* A commit: CURRENT moves on when the new manifest is in the cache.
LEMMA CommitKeeps ==
  ASSUME SessionInv, OneHostInv, Commit, OneHost
  PROVE  OneHostInv'
<1>1. TypeOK
  BY DEF SessionInv
<1>2. /\ loc \in [Node -> [Num -> Version]] /\ node \in Node
      /\ opened \in Nat /\ ver \in Nat /\ committed \in Nat
  BY <1>1, Numbers DEF TypeOK
<1>3. NewNum \in Nat /\ NewNum # 0 /\ NewNum # opened
  BY <1>2 DEF NewNum
<1>4. CASE NewManifest
  <2>1. /\ loc' = OnDisk(loc, NewNum, ver + 1) /\ NewNum \in Num
        /\ phase = "serving" /\ live = 0 /\ ver' = ver + 1 /\ phase' = "meta"
        /\ UNCHANGED <<current, node, opened, live, committed>>
    BY <1>4 DEF NewManifest, EagerWrite, OneHost
  <2> SUFFICES ASSUME committed > 0 PROVE OneHostInv'
    BY <2>1 DEF OneHostInv
  <2>2. current = opened /\ current \in Num /\ ver >= committed
        /\ loc[node][current] >= committed
    BY <1>1, <2>1, Numbers DEF OneHostInv
  <2>3. loc'[node][current] = loc[node][current]
    BY <1>2, <1>3, <2>1, <2>2, OnDiskAt
  <2> QED BY <1>2, <2>1, <2>2, <2>3 DEF OneHostInv
<1>5. CASE SetMeta
  <2>1. /\ UNCHANGED <<loc, node, opened, live, ver, committed>> /\ phase = "meta"
        /\ \/ current' = NewNum /\ phase' = "old"
           \/ current' = current /\ phase' = "undo"
    BY <1>5 DEF SetMeta, FailedPut, OneHost, diskVars, memVars
  <2>2. loc[node][NewNum] = ver
    BY <2>1 DEF SessionInv
  <2> QED BY <1>2, <1>3, <2>1, <2>2 DEF OneHostInv
<1>6. CASE UndoManifest
  <2>1. /\ loc' = OnDisk(loc, NewNum, 0) /\ phase = "undo" /\ ver' = ver - 1
        /\ phase' = IF opened = 0 THEN "down" ELSE "serving"
        /\ UNCHANGED <<current, node, opened, live, committed>>
        /\ NewNum \in Num /\ live = 0
    BY <1>6 DEF UndoManifest, SessionInv
  <2> SUFFICES ASSUME committed > 0 PROVE OneHostInv'
    BY <2>1 DEF OneHostInv
  <2>2. /\ current = opened /\ current \in Num /\ ver > committed
        /\ loc[node][current] >= committed
    BY <1>1, <2>1, Numbers DEF OneHostInv
  <2>3. loc'[node][current] = loc[node][current]
    BY <1>2, <1>3, <2>1, <2>2, OnDiskAt
  <2> QED BY <1>2, <2>1, <2>2, <2>3 DEF OneHostInv
<1>7. CASE RemoveOld
  <2>1. /\ phase = "old" /\ phase' = "serving" /\ live' = NewNum /\ committed' = ver
        /\ current = NewNum /\ NewNum \in Num /\ loc[node][NewNum] = ver
        /\ UNCHANGED <<current, node, opened, ver>>
    BY <1>7 DEF RemoveOld, SessionInv
  <2>2. loc'[node][NewNum] = ver
    <3>1. CASE opened = 0
      BY <1>7, <2>1, <3>1 DEF RemoveOld
    <3>2. CASE opened # 0
      <4>1. opened \in Num
        BY <1>1, <3>2, Numbers
      <4>2. loc' = OnDisk(loc, opened, 0)
        BY <1>7, <3>2 DEF RemoveOld
      <4> QED BY <1>2, <1>3, <2>1, <4>1, <4>2, OnDiskAt
    <3> QED BY <3>1, <3>2
  <2> QED BY <1>2, <1>3, <2>1, <2>2 DEF OneHostInv
<1>8. CASE AppendOk \/ AppendFails
  <2>1. /\ phase = "serving" /\ live # 0 /\ loc' = OnDisk(loc, live, ver + 1)
        /\ ver' = ver + 1 /\ committed' \in {committed, ver + 1}
        /\ UNCHANGED <<current, node, phase, opened, live>>
    BY <1>8 DEF AppendOk, AppendFails
  <2>2. live \in Num /\ current = live /\ ver >= committed
    BY <1>1, <2>1, Numbers DEF SessionInv
  <2>3. loc'[node][current] = ver + 1
    BY <1>2, <2>1, <2>2, OnDiskAt
  <2> QED BY <1>2, <2>1, <2>2, <2>3 DEF OneHostInv
<1> QED BY <1>4, <1>5, <1>6, <1>7, <1>8 DEF Commit

\* The loop never takes a manifest away: it puts an older one at the worst, which
\* is then in behind.
LEMMA LoopKeeps ==
  ASSUME SessionInv, OneHostInv, NEW k \in Num,
         LoopReads(k) \/ LoopPuts(k) \/ LoopGivesUp(k)
  PROVE  OneHostInv'
<1>1. UNCHANGED <<current, loc, node, phase, opened, live, ver, committed>>
  BY LoopLeaves
<1>2. CASE UNCHANGED <<man, behind>>
  BY <1>1, <1>2 DEF OneHostInv
<1>3. CASE LoopPuts(k)
  <2> SUFFICES ASSUME committed > 0 PROVE OneHostInv'
    BY <1>1 DEF OneHostInv
  <2>1. TypeOK /\ man \in [Num -> Version]
    BY DEF SessionInv, TypeOK
  <2>2. current \in Num /\ committed \in Nat /\ man[current] \in Nat
    BY <2>1, Numbers DEF OneHostInv
  <2>3. hand[k] \in Nat /\ hand[k] # 0
    BY <1>3, <2>1, BoundsAssumption DEF LoopPuts, TypeOK, Version
  <2>4. /\ man'[current] = IF k = current THEN hand[k] ELSE man[current]
        /\ behind' = IF hand[k] < man[k] THEN behind \cup {k} ELSE behind
    BY <1>3, <2>1, <2>2 DEF LoopPuts, Put
  <2>5. phase \in {"cleanup", "ready"} =>
            /\ man'[current] > 0
            /\ man'[current] >= committed \/ current \in behind'
    BY <2>2, <2>3, <2>4 DEF OneHostInv
  <2> QED BY <1>1, <2>5 DEF OneHostInv
<1> QED BY <1>2, <1>3 DEF LoopReads, LoopGivesUp, s3Vars

LEMMA OneHostNext ==
  ASSUME SessionInv, OneHostInv, [Next]_vars, OneHost
  PROVE  OneHostInv'
<1>1. TypeOK
  BY DEF SessionInv
<1>2. ASSUME NEW n \in Node, Start(n) PROVE OneHostInv'
  <2>1. n = node
    BY <1>1, OneNode DEF TypeOK
  <2> QED BY <1>2, <2>1 DEF OneHostInv, Start, s3Vars, diskVars, memVars
<1>3. CASE SyncPending
  BY <1>3 DEF OneHostInv, SyncPending, memVars
<1>4. CASE SyncLocal
  <2>1. PICK L \in SUBSET Files(loc[node]) :
            /\ man' = Over(man, loc[node], L)
            /\ behind' = behind \ L
            /\ phase' \in IF L = Files(loc[node]) THEN {"cleanup", "down"}
                                                  ELSE {"down"}
    BY <1>4 DEF SyncLocal, OneHost
  <2>2. UNCHANGED <<current, loc, node, opened, live, ver, committed>>
    BY <1>4 DEF SyncLocal, diskVars, memVars
  <2> SUFFICES ASSUME committed > 0 PROVE OneHostInv'
    BY <2>2 DEF OneHostInv
  <2>3. current \in Num /\ loc[node][current] >= committed
    BY <1>1, Numbers DEF OneHostInv
  <2>4. phase' = "cleanup" => man'[current] = loc[node][current]
    <3> SUFFICES ASSUME phase' = "cleanup" PROVE man'[current] = loc[node][current]
      OBVIOUS
    <3>1. L = Files(loc[node])
      BY <2>1
    <3>2. loc[node][current] # 0
      BY <1>1, <2>3, Numbers
    <3> QED BY <2>1, <2>3, <3>1, <3>2 DEF Over, Files
  <2>5. current # 0
    BY DEF OneHostInv
  <2>6. phase' = "cleanup" => man'[current] > 0 /\ man'[current] >= committed
    BY <1>1, <2>3, <2>4, Numbers
  <2> QED BY <2>1, <2>2, <2>3, <2>5, <2>6 DEF OneHostInv
<1>5. CASE Cleanup
  BY <1>5, CleanupKeeps
<1>6. CASE OpenExisting
  <2>1. /\ current \in Num /\ man[current] \in Nat /\ committed \in Nat
        /\ loc[node][current] \in Nat
    BY <1>1, <1>6, Numbers DEF OpenExisting, MetaFound
  <2>2. committed' <= committed /\ committed' <= man[current] /\ committed' \in Nat
    BY <1>6, <2>1, MinTwo DEF OpenExisting
  <2>3. committed' > 0 => committed > 0
    BY <2>1, <2>2
  <2>4. /\ phase' = "serving" /\ ver' = man[current] /\ opened' = current
        /\ UNCHANGED <<current, loc, node>>
    BY <1>6 DEF OpenExisting, s3Vars, diskVars
  <2> SUFFICES ASSUME committed' > 0 PROVE OneHostInv'
    BY DEF OneHostInv
  <2>5. current # 0 /\ loc[node][current] >= committed'
    BY <2>1, <2>2, <2>3 DEF OneHostInv
  <2> QED BY <2>1, <2>2, <2>4, <2>5 DEF OneHostInv
<1>7. CASE CreateNew
  BY <1>7 DEF OneHostInv, CreateNew
<1>8. CASE Commit
  BY <1>8, CommitKeeps
<1>9. CASE CloseDB \/ End
  BY <1>9 DEF OneHostInv, CloseDB, End, s3Vars, diskVars
<1>10. ASSUME NEW k \in Num, LoopReads(k) \/ LoopPuts(k) \/ LoopGivesUp(k)
       PROVE  OneHostInv'
  BY <1>10, LoopKeeps
<1>11. CASE UNCHANGED vars
  BY <1>11 DEF OneHostInv, vars, s3Vars, diskVars, memVars, loopVars
<1> QED
  BY <1>2, <1>3, <1>4, <1>5, <1>6, <1>7, <1>8, <1>9, <1>10, <1>11 DEF Next

\* CURRENT and the cache of a single host together always have the commits,
\* whatever step the sessions before were interrupted at and whatever the loop
\* uploads; once Lock() has uploaded the cache S3 has them as well, until the
\* loop puts an older manifest over it (storage.go:56-65, 204-222, 253-272,
\* 1036-1053).
THEOREM OneHostKeeps == ASSUME OneHost PROVE Spec => [](SessionInv /\ OneHostInv)
<1>1. Init => SessionInv /\ OneHostInv
  BY SessionInit, OneHostInit
<1>2. SessionInv /\ OneHostInv /\ [Next]_vars => SessionInv' /\ OneHostInv'
  BY SessionNext, OneHostNext DEF OneHost
<1> QED BY <1>1, <1>2, PTL DEF Spec

\* The removal of all files never meets a database with commits
\* (storage.go:1526-1573).
THEOREM NothingWiped == ASSUME OneHost PROVE Spec => []NoWipe
<1>1. Spec => [](SessionInv /\ OneHostInv)
  BY OneHostKeeps
<1>2. SessionInv /\ OneHostInv => NoWipe
  <2> SUFFICES ASSUME SessionInv, OneHostInv, phase \in {"wipe", "list"}
               PROVE  committed = 0
    BY DEF NoWipe
  <2>1. ~(committed > 0) /\ committed \in Nat
    BY Numbers DEF OneHostInv, SessionInv
  <2> QED BY <2>1
<1> QED BY <1>1, <1>2, PTL

\* An open makes a new database only where there are no commits.
LEMMA CreatesOnlyEmpty == ASSUME SessionInv, OneHostInv, CreateNew PROVE committed = 0
<1>1. TypeOK /\ committed \in Nat
  BY Numbers DEF SessionInv
<1>2. ASSUME committed > 0 PROVE FALSE
  <2>1. current \in Num /\ man[current] > 0
    BY <1>1, <1>2, Numbers DEF CreateNew, OneHostInv
  <2>2. man[current] \in Nat
    BY <1>1, <2>1, Numbers
  <2>3. MetaFound
    BY <1>1, <1>2, <2>1, <2>2 DEF MetaFound, OneHostInv
  <2> QED BY <2>3 DEF CreateNew
<1> QED BY <1>1, <1>2

\* An open never makes a new database in the place of one with commits
\* (storage.go:216-222, 1304-1452).
THEOREM NothingRecreated == ASSUME OneHost PROVE Spec => NeverRecreated
<1>1. Spec => [](SessionInv /\ OneHostInv)
  BY OneHostKeeps
<1>2. SessionInv /\ OneHostInv /\ CreateNew => committed = 0
  BY CreatesOnlyEmpty
<1> QED BY <1>1, <1>2, PTL DEF Spec, NeverRecreated

\* The database an open finds has all the commits, unless the loop has put an
\* older manifest over the one that CURRENT names since Lock() has uploaded the
\* cache (storage.go:204-222, 1036-1053, 1163-1291).
THEOREM NothingRolledBack == ASSUME OneHost PROVE Spec => NeverRolledBack
<1>1. Spec => [](SessionInv /\ OneHostInv)
  BY OneHostKeeps
<1>2. SessionInv /\ OneHostInv /\ OpenExisting =>
        man[current] >= committed \/ current \in behind
  <2> SUFFICES ASSUME SessionInv, OneHostInv, OpenExisting
               PROVE  man[current] >= committed \/ current \in behind
    OBVIOUS
  <2>1. TypeOK /\ committed \in Nat /\ current \in Num
    BY Numbers DEF SessionInv, OpenExisting, MetaFound
  <2>2. man[current] \in Nat
    BY <2>1, Numbers
  <2>3. CASE committed > 0
    BY <2>3 DEF OpenExisting, OneHostInv
  <2>4. CASE committed = 0
    BY <2>2, <2>4
  <2> QED BY <2>1, <2>3, <2>4
<1> QED BY <1>1, <1>2, PTL DEF Spec, NeverRolledBack

-----------------------------------------------------------------------------
(* The sessions are a log of commits                                        *)

LogStep == [Log!Next]_(Log!vars)

\* Nothing of the session has changed.
LEMMA LogSame ==
  ASSUME InSession, InSession', ver' = ver, committed' = committed
  PROVE  LogStep
<1>1. InSession' = InSession
  BY DEF InSession
<1> QED BY <1>1 DEF LogStep, Log!vars

\* Between the sessions only uploads are seen.
LEMMA LogUpload ==
  ASSUME ~InSession, ~InSession', committed' = committed
  PROVE  LogStep
<1>1. InSession' = InSession
  BY DEF InSession
<1>2. Log!Upload
  BY <1>1 DEF Log!Upload
<1> QED BY <1>2 DEF LogStep, Log!Next

\* What Lock() does.
LEMMA LockMaps ==
  ASSUME SessionInv, OneHostInv,
         \/ \E n \in Node : Start(n)
         \/ SyncPending \/ SyncLocal \/ Cleanup
  PROVE  LogStep
<1>1. ~InSession /\ ~InSession'
  BY DEF InSession, Start, SyncPending, SyncLocal, Cleanup, CleanupFails, Consistent,
     Dangling, NoCurrent, VerifyFromCache, VerifyFromPending, VerifyGivesUp,
     RecoverFromCache, RecoverFromPending, RecoverFrom, NothingToRecover, WipeLocal,
     WipeRemote, GoesTo
<1>2. UNCHANGED committed
  BY DEF Start, SyncPending, SyncLocal, Cleanup, CleanupFails, Consistent, VerifyFromCache,
     VerifyFromPending, VerifyGivesUp, RecoverFromCache, RecoverFromPending, RecoverFrom,
     NothingToRecover, WipeLocal, WipeRemote, GoesTo
<1> QED BY <1>1, <1>2, LogUpload

\* An open finds what was reported, or an older manifest that the loop has put.
LEMMA OpenMaps ==
  ASSUME SessionInv, OneHostInv, OpenExisting \/ CreateNew PROVE LogStep
<1>1. TypeOK /\ committed \in Nat
  BY Numbers DEF SessionInv
<1>2. ~InSession /\ InSession'
  BY DEF InSession, OpenExisting, CreateNew
<1>3. /\ ver' \in Nat
      /\ \/ ver' >= committed /\ committed' = committed
         \/ current \in behind /\ ver' < committed /\ committed' = ver'
  <2>1. CASE OpenExisting
    <3>1. /\ current \in Num /\ man[current] \in Nat /\ ver' = man[current]
          /\ committed' = Min({committed, man[current]})
      BY <1>1, <2>1, Numbers DEF OpenExisting, MetaFound
    <3>2. committed > 0 => man[current] >= committed \/ current \in behind
      BY <2>1 DEF OneHostInv, OpenExisting
    <3>3. /\ Min({committed, man[current]}) \in {committed, man[current]}
          /\ Min({committed, man[current]}) <= committed
          /\ Min({committed, man[current]}) <= man[current]
      BY <1>1, <3>1, MinTwo
    <3>4. CASE man[current] >= committed
      BY <1>1, <3>1, <3>3, <3>4
    <3>5. CASE man[current] < committed
      BY <1>1, <3>1, <3>2, <3>3, <3>5
    <3> QED BY <1>1, <3>1, <3>4, <3>5
  <2>2. CASE CreateNew
    <3>1. committed = 0
      BY <2>2, CreatesOnlyEmpty
    <3> QED BY <2>2, <3>1 DEF CreateNew
  <2> QED BY <2>1, <2>2
<1>4. Log!Open
  BY <1>2, <1>3 DEF Log!Open
<1> QED BY <1>4 DEF LogStep, Log!Next

\* What a session does.
LEMMA CommitMaps ==
  ASSUME SessionInv, OneHostInv, Commit PROVE LogStep
<1>1. /\ TypeOK /\ committed \in Nat /\ ver \in Nat /\ opened \in Nat
  BY Numbers DEF SessionInv
<1>2. InSession
  BY DEF InSession, Commit, NewManifest, SetMeta, UndoManifest, RemoveOld, AppendOk, AppendFails
<1>3. CASE NewManifest \/ AppendOk \/ AppendFails
  <2>1. InSession' /\ ver' = ver + 1 /\ committed' \in {committed, ver + 1}
    BY <1>3 DEF InSession, NewManifest, AppendOk, AppendFails
  <2>2. Log!Attempt
    BY <1>2, <2>1 DEF Log!Attempt
  <2> QED BY <2>2 DEF LogStep, Log!Next
<1>4. CASE SetMeta
  <2>1. InSession' /\ ver' = ver /\ committed' = committed
    BY <1>4 DEF InSession, SetMeta, memVars
  <2> QED BY <1>2, <2>1, LogSame
<1>5. CASE UndoManifest
  <2>1. /\ phase = "undo" /\ ver' = ver - 1 /\ committed' = committed
        /\ phase' = IF opened = 0 THEN "down" ELSE "serving"
    BY <1>5 DEF UndoManifest
  <2>2. ver > 0 /\ ver > committed
    BY <1>1, <2>1 DEF SessionInv, OneHostInv
  <2>3. CASE opened = 0
    <3>1. Log!End
      BY <1>2, <2>1, <2>3 DEF Log!End, InSession
    <3> QED BY <3>1 DEF LogStep, Log!Next
  <2>4. CASE opened # 0
    <3>1. Log!Undo
      BY <1>1, <1>2, <2>1, <2>2, <2>4 DEF Log!Undo, InSession
    <3> QED BY <3>1 DEF LogStep, Log!Next
  <2> QED BY <2>3, <2>4
<1>6. CASE RemoveOld
  <2>1. InSession' /\ ver' = ver /\ committed' = ver
    BY <1>6 DEF InSession, RemoveOld
  <2>2. Log!Report
    BY <1>2, <2>1 DEF Log!Report
  <2> QED BY <2>2 DEF LogStep, Log!Next
<1> QED BY <1>3, <1>4, <1>5, <1>6 DEF Commit

\* The end of a session, with its process or without.
LEMMA EndMaps == ASSUME CloseDB \/ End PROVE LogStep
<1>1. ~InSession' /\ committed' = committed
  BY DEF CloseDB, End, InSession
<1>2. CASE InSession
  <2>1. Log!End
    BY <1>1, <1>2 DEF Log!End
  <2> QED BY <2>1 DEF LogStep, Log!Next
<1> QED BY <1>1, <1>2, LogUpload

LEMMA LogNext == ASSUME SessionInv, OneHostInv, [Next]_vars PROVE LogStep
<1>1. ASSUME UNCHANGED <<phase, ver, committed>> PROVE LogStep
  <2>1. InSession' <=> InSession
    BY <1>1 DEF InSession
  <2> QED BY <1>1, <2>1, LogSame, LogUpload
<1>2. ASSUME NEW k \in Num, LoopReads(k) \/ LoopPuts(k) \/ LoopGivesUp(k)
      PROVE  LogStep
  BY <1>1, <1>2, LoopLeaves
<1>3. CASE UNCHANGED vars
  BY <1>1, <1>3 DEF vars, memVars
<1> QED BY <1>2, <1>3, LockMaps, OpenMaps, CommitMaps, EndMaps DEF Next

\* For every bound and every interruption the sessions of one host are a log of
\* commits: each open finds every commit that was reported, unless the loop has
\* put an older manifest over that of the open, and what SetMeta's failure
\* undoes was not reported (storage.go:56-65, 204-222, 253-272, 1036-1053,
\* 1163-1452).
THEOREM SessionsAreALog == ASSUME OneHost PROVE Spec => ImplementsCommitLog
<1>1. Init => Log!Init
  BY DEF Init, Log!Init, InSession
<1>2. SessionInv /\ OneHostInv /\ [Next]_vars => [Log!Next]_(Log!vars)
  BY LogNext DEF LogStep
<1> QED BY <1>1, <1>2, OneHostKeeps, PTL DEF Spec, ImplementsCommitLog, Log!Spec
=============================================================================
