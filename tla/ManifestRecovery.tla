-------------------------- MODULE ManifestRecovery --------------------------
(***************************************************************************)
(* CURRENT, the manifests and what Lock() makes of them after a session    *)
(* was interrupted: cleanupOrphaned, verifyCurrentManifest,                *)
(* recoverFromLocalCache and removeAllOrphaned (storage.go:1292-1573),     *)
(* between the uploads of Lock() and the GetMeta of the next open; and what *)
(* the background loop uploads meanwhile (storage.go:959-1110).            *)
(*                                                                         *)
(* The user of the storage is goleveldb.  Its part is modelled from what   *)
(* the storage says of it (storage.go:56-60, 216-219, 1293-1297): a        *)
(* session's first commit makes a new manifest, writes it without Sync,    *)
(* calls SetMeta and removes the old manifest; later commits append to the *)
(* manifest and Sync it; an open that gets ErrNotExist from GetMeta makes  *)
(* a new database.                                                         *)
(*                                                                         *)
(* The content of a manifest is its version: the number of commits it      *)
(* holds, 0 for no file.  One session runs at a time, on one of the nodes, *)
(* and may crash at every step.  A process may also close its database and *)
(* open it again, with the loop still at work.                             *)
(***************************************************************************)
EXTENDS Naturals, FiniteSetsExt

CONSTANTS
    Node,           \* hosts, each with a local cache and a pending directory
    MaxManifest,    \* bound on the manifest numbers
    MaxVersion,     \* bound on the commits
    Faults,         \* what may go wrong beside S3 calls without effect
    PendingInCache  \* pendingDir is in localDir (LocalPersistenceDir unset)

Num == 1..MaxManifest
Version == 0..MaxVersion

ASSUME BoundsAssumption ==
    /\ MaxManifest \in Nat \ {0}
    /\ MaxVersion \in Nat \ {0}
    /\ Faults \subseteq {"lostAnswer",   \* a put has an effect and an error
                          "eagerWrite",   \* memWriter.Write misses the cache
                          "cacheRead",    \* a cached file cannot be read
                          "cleanShadow"}  \* a shadow is not cleaned up
    /\ PendingInCache \in BOOLEAN

VARIABLES
    man,        \* S3: number -> version of MANIFEST-number
    current,    \* S3: number in CURRENT, 0 when there is none
    tables,     \* S3: commits whose tables are there
    shadow,     \* S3: number -> version under the shadow prefix
    loc, pend,  \* node -> number -> version in localDir and in pendingDir
    node,       \* where the session runs
    phase,      \* what the session is doing
    opened,     \* manifest the session was opened with, 0 for a new database
    live,       \* manifest the session writes, 0 before the first commit
    ver,        \* version in memory
    lockHeld,   \* the flag of the process that lets its loop read pendingDir
    hand,       \* number -> version that an upload goroutine has read, 0: none
    behind,     \* history: manifests that the loop has put over a newer one
    committed   \* history: last commit of the database that returned nil

s3Vars   == <<man, current, tables, shadow>>
diskVars == <<loc, pend>>
memVars  == <<opened, live, ver>>
loopVars == <<lockHeld, hand, behind>>
vars == <<s3Vars, diskVars, node, phase, memVars, loopVars, committed>>

NoFiles == [k \in Num |-> 0]

TypeOK ==
    /\ man \in [Num -> Version] /\ shadow \in [Num -> Version]
    /\ current \in Num \cup {0} /\ tables \in Version
    /\ loc \in [Node -> [Num -> Version]]
    /\ pend \in [Node -> [Num -> Version]]
    /\ node \in Node
    /\ phase \in {"down", "sync", "local", "cleanup", "wipe", "list", "ready",
                  "serving", "meta", "undo", "old"}
    /\ opened \in Num \cup {0} /\ live \in Num \cup {0}
    /\ lockHeld \in BOOLEAN /\ hand \in [Num -> Version] /\ behind \subseteq Num
    /\ ver \in Version /\ committed \in Version

Init ==
    /\ man = NoFiles /\ shadow = NoFiles /\ current = 0 /\ tables = 0
    /\ loc = [n \in Node |-> NoFiles] /\ pend = [n \in Node |-> NoFiles]
    /\ node \in Node /\ phase = "down"
    /\ opened = 0 /\ live = 0 /\ ver = 0 /\ committed = 0
    /\ lockHeld = FALSE /\ hand = NoFiles /\ behind = {}

-----------------------------------------------------------------------------
(* Helpers                                                                 *)

Files(store) == {k \in Num : store[k] # 0}

\* A put that returns an error has no effect, or its answer is lost.
FailedPut(x, x1, done) == x1 = x \/ ("lostAnswer" \in Faults /\ x1 = done)

Put(store, k, v) == [store EXCEPT ![k] = v]
OnDisk(disk, k, v) == [disk EXCEPT ![node][k] = v]

\* findLatestLocalManifest, findLatestPendingManifest
IsLatest(k, store) == k \in Files(store) /\ \A j \in Files(store) : j <= k

Over(store, files, K) == [k \in Num |-> IF k \in K THEN files[k] ELSE store[k]]
Without(store, K) == [k \in Num |-> IF k \in K THEN 0 ELSE store[k]]

\* cleanShadow of the files K
CleanShadows(K) ==
    \E C \in SUBSET K :
        /\ C = K \/ "cleanShadow" \in Faults
        /\ shadow' = Without(shadow, C)

-----------------------------------------------------------------------------
(* Lock(): the uploads of what is pending and of the local cache           *)

\* A process is alive while its loop has something in hand or may read.
Alive == lockHeld \/ hand # NoFiles

\* Of a new process, or again of the one that is alive.
Start(n) ==
    /\ phase = "down"
    /\ n = node \/ ~Alive
    /\ node' = n
    /\ phase' = "sync"
    /\ UNCHANGED <<s3Vars, diskVars, memVars, loopVars, committed>>

\* syncPendingToS3, best effort: it fetches the shadow files F it can, uploads
\* the pending files P it can, and drops D: what it has uploaded, with some of
\* the shadows, unless the answer or the os.Remove fails, and what has a checksum
\* that does not fit.
SyncPending ==
    /\ phase = "sync"
    /\ \E F \in SUBSET {k \in Files(shadow) : pend[node][k] = 0} :
           LET found == Over(pend[node], shadow, F)
           IN  \E P \in SUBSET Files(found) : \E D \in SUBSET Files(found) :
               /\ man' = Over(man, found, P)
               /\ pend' = [pend EXCEPT ![node] = Without(found, D)]
               /\ CleanShadows(P \cap D)
    /\ phase' = "local"
    /\ UNCHANGED <<current, tables, loc, node, memVars, loopVars, committed>>

\* Mutant: the local cache is not uploaded.
SyncLocalSkipped ==
    /\ phase = "local"
    /\ phase' = "cleanup"
    /\ UNCHANGED <<s3Vars, diskVars, node, memVars, loopVars, committed>>

\* Mutant: only what S3 does not have is uploaded.
SyncLocalMissing ==
    /\ phase = "local"
    /\ man' = Over(man, loc[node], {k \in Files(loc[node]) : man[k] = 0})
    /\ phase' = "cleanup"
    /\ UNCHANGED <<current, tables, shadow, diskVars, node, memVars, loopVars,
                   committed>>

\* syncLocalToS3: every manifest of the local cache that can be read, or Lock()
\* fails midway.
SyncLocal ==
    /\ phase = "local"
    /\ \E L \in SUBSET Files(loc[node]) :
           /\ man' = Over(man, loc[node], L)
           /\ behind' = behind \ L
           /\ phase' \in IF L = Files(loc[node]) \/ "cacheRead" \in Faults
                         THEN {"cleanup", "down"} ELSE {"down"}
    /\ UNCHANGED <<current, tables, shadow, diskVars, node, memVars, lockHeld,
                   hand, committed>>

-----------------------------------------------------------------------------
(* cleanupOrphaned.  Its errors are only logged.  Lock() returns after it   *)
(* and sets lockHeld.                                                      *)

\* Where cleanupOrphaned goes: to its end, "ready", or to removeAllOrphaned.
GoesTo(p) ==
    /\ phase' = p
    /\ lockHeld' = (lockHeld \/ p = "ready")
    /\ UNCHANGED <<node, memVars, hand, behind, committed>>

\* Exists, GetBytes or List fails.
CleanupFails ==
    /\ phase = "cleanup"
    /\ GoesTo("ready")
    /\ UNCHANGED <<s3Vars, diskVars>>

Consistent ==
    /\ phase = "cleanup"
    /\ current # 0
    /\ man[current] # 0
    /\ GoesTo("ready")
    /\ UNCHANGED <<s3Vars, diskVars>>

Dangling == phase = "cleanup" /\ current # 0 /\ man[current] = 0

\* verifyCurrentManifest takes the manifest from the local cache ...
VerifyFromCache ==
    /\ Dangling
    /\ loc[node][current] # 0
    /\ man' = Put(man, current, loc[node][current])
    /\ GoesTo("ready")
    /\ UNCHANGED <<current, tables, shadow, diskVars>>

\* ... when it has none, or the upload fails, from the pending directory ...
VerifyFromPending ==
    /\ Dangling
    /\ pend[node][current] # 0
    /\ man' = Put(man, current, pend[node][current])
    /\ pend' = OnDisk(pend, current, 0)
    /\ GoesTo("ready")
    /\ UNCHANGED <<current, tables, shadow, loc>>

\* ... and when neither works removes everything.
VerifyGivesUp ==
    /\ Dangling
    /\ \/ UNCHANGED man
       \/ /\ "lostAnswer" \in Faults
          /\ \E v \in {loc[node][current], pend[node][current]} :
                 man' = Put(man, current, v)
    /\ GoesTo("wipe")
    /\ UNCHANGED <<current, tables, shadow, diskVars>>

NoCurrent == phase = "cleanup" /\ current = 0

\* recoverFromLocalCache: the manifest with the highest number, local first, is
\* put and CURRENT after it; both puts work, or all is removed.
RecoverFrom(k, v) ==
    /\ \/ /\ man' = Put(man, k, v)
          /\ current' = k
          /\ GoesTo("ready")
       \/ /\ FailedPut(man, man', Put(man, k, v))
          /\ UNCHANGED current
          /\ GoesTo("wipe")
       \/ /\ man' = Put(man, k, v)
          /\ FailedPut(current, current', k)
          /\ GoesTo("wipe")
    /\ UNCHANGED <<tables, shadow, loc>>

RecoverFromCache ==
    /\ NoCurrent
    /\ \E k \in Num :
           /\ IsLatest(k, loc[node])
           /\ RecoverFrom(k, loc[node][k])
    /\ UNCHANGED pend

RecoverFromPending ==
    /\ NoCurrent
    /\ Files(loc[node]) = {} \/ "cacheRead" \in Faults
    /\ \E k \in Num :
           /\ IsLatest(k, pend[node])
           /\ RecoverFrom(k, pend[node][k])
           /\ pend' = IF phase' = "ready" THEN OnDisk(pend, k, 0) ELSE pend

\* Nothing to put: all that List finds is removed, and List takes the shadow
\* files for files of the database.
NothingToRecover ==
    /\ NoCurrent
    /\ Files(loc[node]) = {} \/ "cacheRead" \in Faults
    /\ Files(pend[node]) = {}
    /\ GoesTo(IF Files(man) \cup Files(shadow) # {} \/ tables > 0
                THEN "wipe" ELSE "ready")
    /\ UNCHANGED <<s3Vars, diskVars>>

\* removeAllOrphaned: first the local directory, as far as os.RemoveAll gets ...
WipeLocal ==
    /\ phase = "wipe"
    /\ \E L, P \in SUBSET Num :
           /\ loc' = [loc EXCEPT ![node] = Without(loc[node], L)]
           /\ pend' = [pend EXCEPT ![node] = Without(pend[node], P)]
           /\ PendingInCache \/ P = {}
    /\ GoesTo("list")
    /\ UNCHANGED s3Vars

\* ... then the files in S3, unless they cannot be listed, and CURRENT; a
\* remove that fails is only logged.
WipeRemote ==
    /\ phase = "list"
    /\ \/ UNCHANGED <<man, tables, current>>
       \/ /\ \E K \in SUBSET Num : man' = Without(man, K)
          /\ tables' \in {0, tables}
          /\ current' \in {0, current}
    /\ GoesTo("ready")
    /\ UNCHANGED <<shadow, diskVars>>

-----------------------------------------------------------------------------
(* Opening: GetMeta                                                        *)

MetaFound == current # 0 /\ man[current] # 0

\* With fewer commits than were reported the others are gone.
OpenExisting ==
    /\ phase = "ready"
    /\ MetaFound
    /\ tables >= man[current]
    /\ opened' = current
    /\ ver' = man[current]
    /\ live' = 0
    /\ phase' = "serving"
    /\ committed' = Min({committed, man[current]})
    /\ UNCHANGED <<s3Vars, diskVars, node, loopVars>>

\* ErrNotExist: goleveldb makes a new database.
CreateNew ==
    /\ phase = "ready"
    /\ ~MetaFound
    /\ opened' = 0
    /\ ver' = 0
    /\ live' = 0
    /\ committed' = 0
    /\ phase' = "serving"
    /\ UNCHANGED <<s3Vars, diskVars, node, loopVars>>

-----------------------------------------------------------------------------
(* The first commit of a session: newManifest                              *)

NewNum == opened + 1

\* Mutant: Write only fills the buffer.
NoEagerWrite(k, v) == UNCHANGED loc

\* memWriter.Write: the content goes to the buffer and, eagerly, to the cache.
EagerWrite(k, v) ==
    loc' = OnDisk(loc, k, v) \/ ("eagerWrite" \in Faults /\ UNCHANGED loc)

\* The tables of the commit are in S3 before its manifest is written.
NewManifest ==
    /\ phase = "serving"
    /\ live = 0
    /\ NewNum \in Num
    /\ ver < MaxVersion
    /\ ver' = ver + 1
    /\ tables' = Max({tables, ver + 1})
    /\ EagerWrite(NewNum, ver + 1)
    /\ phase' = "meta"
    /\ UNCHANGED <<man, current, shadow, pend, node, opened, live, loopVars,
                   committed>>

\* Mutant: CURRENT gets the number that comes next.
SetMetaNext ==
    /\ phase = "meta"
    /\ current' = NewNum + 1
    /\ phase' = "old"
    /\ UNCHANGED <<man, tables, shadow, diskVars, node, memVars, loopVars,
                   committed>>

\* Mutant: the error of the put is ignored.
SetMetaErrorIgnored ==
    /\ phase = "meta"
    /\ FailedPut(current, current', NewNum)
    /\ phase' = "old"
    /\ UNCHANGED <<man, tables, shadow, diskVars, node, memVars, loopVars,
                   committed>>

SetMeta ==
    /\ phase = "meta"
    /\ \/ current' = NewNum /\ phase' = "old"
       \/ FailedPut(current, current', NewNum) /\ phase' = "undo"
    /\ UNCHANGED <<man, tables, shadow, diskVars, node, memVars, loopVars,
                   committed>>

\* SetMeta failed: goleveldb removes the new manifest again and reports the
\* commit as failed; a database that could not be made is not opened.
UndoManifest ==
    /\ phase = "undo"
    /\ loc' = OnDisk(loc, NewNum, 0)
    /\ pend' = OnDisk(pend, NewNum, 0)
    /\ man' \in {man, Put(man, NewNum, 0)}
    /\ CleanShadows({NewNum})
    /\ ver' = ver - 1
    /\ phase' = IF opened = 0 THEN "down" ELSE "serving"
    /\ UNCHANGED <<current, tables, node, opened, live, loopVars, committed>>

\* The old manifest is removed, and the commit has succeeded.
RemoveOld ==
    /\ phase = "old"
    /\ IF opened = 0
         THEN UNCHANGED <<loc, pend, man, shadow>>
         ELSE /\ loc' = OnDisk(loc, opened, 0)
              /\ pend' = OnDisk(pend, opened, 0)
              /\ man' \in {man, Put(man, opened, 0)}
              /\ CleanShadows({opened})
    /\ live' = NewNum
    /\ committed' = ver
    /\ phase' = "serving"
    /\ UNCHANGED <<current, tables, node, opened, ver, loopVars>>

-----------------------------------------------------------------------------
(* A later commit: the record is appended and the manifest synced          *)

AppendOk ==
    /\ phase = "serving"
    /\ live # 0
    /\ ver < MaxVersion
    /\ ver' = ver + 1
    /\ tables' = Max({tables, ver + 1})
    /\ loc' = OnDisk(loc, live, ver + 1)
    /\ man' = Put(man, live, ver + 1)
    /\ pend' = OnDisk(pend, live, 0)
    /\ CleanShadows({live})
    /\ committed' = ver + 1
    /\ behind' = behind \ {live}
    /\ UNCHANGED <<current, node, phase, opened, live, lockHeld, hand>>

\* The upload fails: the content is kept in pendingDir and as a shadow, when
\* that works, and the commit fails.
AppendFails ==
    /\ phase = "serving"
    /\ live # 0
    /\ ver < MaxVersion
    /\ ver' = ver + 1
    /\ tables' = Max({tables, ver + 1})
    /\ loc' = OnDisk(loc, live, ver + 1)
    /\ FailedPut(man, man', Put(man, live, ver + 1))
    /\ \/ UNCHANGED <<pend, shadow>>
       \/ /\ pend' = OnDisk(pend, live, ver + 1)
          /\ shadow' \in {shadow, Put(shadow, live, ver + 1)}
    /\ UNCHANGED <<current, node, phase, opened, live, loopVars, committed>>

-----------------------------------------------------------------------------
(* The background loop, from the return of Lock() on: before the open, in  *)
(* the session, and after an Unlock that leaves lockHeld set.              *)

\* readPendingFiles takes a manifest in hand, or deletes it as corrupt.
LoopReads(k) ==
    /\ lockHeld
    /\ hand[k] = 0
    /\ pend[node][k] # 0
    /\ \/ hand' = Put(hand, k, pend[node][k]) /\ UNCHANGED pend
       \/ pend' = OnDisk(pend, k, 0) /\ UNCHANGED hand
    /\ UNCHANGED <<s3Vars, loc, node, phase, memVars, lockHeld, behind,
                   committed>>

\* An upload goroutine puts what it has in hand, however old, and drops what is
\* pending now, with its shadow; or it puts it and the answer or the os.Remove
\* fails.
LoopPuts(k) ==
    /\ hand[k] # 0
    /\ man' = Put(man, k, hand[k])
    /\ behind' = IF hand[k] < man[k] THEN behind \cup {k} ELSE behind
    /\ \/ /\ pend' = OnDisk(pend, k, 0)
          /\ CleanShadows({k})
          /\ hand' = Put(hand, k, 0)
       \/ /\ UNCHANGED <<pend, shadow>>
          /\ hand' \in {hand, Put(hand, k, 0)}
    /\ UNCHANGED <<current, tables, loc, node, phase, memVars, lockHeld,
                   committed>>

\* It gives up: lock lost, RetryMaxDuration.
LoopGivesUp(k) ==
    /\ hand[k] # 0
    /\ hand' = Put(hand, k, 0)
    /\ UNCHANGED <<s3Vars, diskVars, node, phase, memVars, lockHeld, behind,
                   committed>>

-----------------------------------------------------------------------------
\* The database is closed and its process goes on, with its loop: the Unlock of
\* the locker leaves lockHeld alone, the one of S3Storage does not.
CloseDB ==
    /\ phase \in {"ready", "serving"}
    /\ phase' = "down"
    /\ opened' = 0 /\ live' = 0 /\ ver' = 0
    /\ lockHeld' \in {lockHeld, FALSE}
    /\ UNCHANGED <<s3Vars, diskVars, node, hand, behind, committed>>

\* The process ends, at any step.
End ==
    /\ phase # "down" \/ Alive
    /\ phase' = "down"
    /\ opened' = 0 /\ live' = 0 /\ ver' = 0
    /\ lockHeld' = FALSE /\ hand' = NoFiles
    /\ UNCHANGED <<s3Vars, diskVars, node, behind, committed>>

Cleanup ==
    \/ CleanupFails \/ Consistent
    \/ VerifyFromCache \/ VerifyFromPending \/ VerifyGivesUp
    \/ RecoverFromCache \/ RecoverFromPending \/ NothingToRecover
    \/ WipeLocal \/ WipeRemote

Commit ==
    \/ NewManifest \/ SetMeta \/ UndoManifest \/ RemoveOld
    \/ AppendOk \/ AppendFails

Next ==
    \/ \E n \in Node : Start(n)
    \/ SyncPending \/ SyncLocal \/ Cleanup
    \/ OpenExisting \/ CreateNew
    \/ Commit
    \/ \E k \in Num : LoopReads(k) \/ LoopPuts(k) \/ LoopGivesUp(k)
    \/ CloseDB \/ End

Spec == Init /\ [][Next]_vars

-----------------------------------------------------------------------------
(* Properties                                                              *)

\* A database with commits is found at every open, wherever the session before
\* was interrupted, when its node is the only one, its cache works and S3 calls
\* fail only without effect: a manifest that never reached S3 comes from the
\* local cache (storage.go:56-65, 216-222, 1304-1452).
NeverRecreated == [][CreateNew => committed = 0]_vars

\* Under the same conditions the removal of all files never meets a database
\* with commits (storage.go:1526-1573).
NoWipe == phase \in {"wipe", "list"} => committed = 0

\* Under the same conditions an open finds all the commits, unless an upload
\* goroutine has put an older manifest over the one that CURRENT names since
\* Lock() has uploaded the cache: the pending, shadow and cached manifests that
\* Lock() itself puts over those in S3, in this order, do not end with an older
\* one (storage.go:204-222, 1036-1053, 1163-1291).
NeverRolledBack ==
    [][OpenExisting => man[current] >= committed \/ current \in behind]_vars

\* With several nodes, lost answers and an unreadable cache as well: a session
\* that goes on committing writes the manifest that CURRENT names, and what it
\* has committed is in that manifest or in the node's cache, never in a
\* manifest that the next open does not look at (storage.go:56-65, 253-272,
\* 1304-1452).
CommittedReachable ==
    phase = "serving" /\ live # 0 =>
        /\ current = live
        /\ Max({man[live], loc[node][live]}) >= committed

\* The inductive invariant behind CommittedReachable, for every host and every
\* fault but a missed write of the cache: from its first Write on, the session's
\* manifest is in the cache of its node with all the commits, and CURRENT names
\* it before the session goes on (storage.go:56-65, 253-272).
SessionInv ==
    /\ TypeOK
    /\ phase # "serving" => live = 0
    /\ phase \in {"meta", "undo", "old"} => NewNum \in Num /\ ver > 0
    /\ phase \in {"meta", "old"} => loc[node][NewNum] = ver
    /\ phase = "old" => current = NewNum
    /\ live # 0 => current = live /\ loc[node][live] = ver /\ ver >= committed

\* The inductive invariant behind the first three, for one host, S3 calls that
\* fail without effect and a cache that works: CURRENT and the cache together
\* always have the commits, and once the cache is uploaded S3 has them, until
\* the loop puts an older manifest over it (storage.go:56-65, 204-222, 253-272,
\* 1036-1053).
OneHostInv ==
    committed > 0 =>
        /\ current # 0 /\ loc[node][current] >= committed
        /\ phase \in {"cleanup", "ready"} =>
               /\ man[current] > 0
               /\ man[current] >= committed \/ current \in behind
        /\ phase \notin {"wipe", "list"}
        /\ phase = "serving" => ver >= committed
        /\ phase \in {"meta", "undo", "old"} => ver > committed
        /\ phase \in {"serving", "meta", "undo"} /\ live = 0 => current = opened

-----------------------------------------------------------------------------
(* Refinement                                                              *)

InSession == phase \in {"serving", "meta", "undo", "old"}

Log == INSTANCE CommitLog WITH
    session <- InSession,
    version <- IF InSession THEN ver ELSE 0,
    stale <- ~InSession /\ current \in behind

\* Under the conditions of OneHostInv the uploads of Lock(), its clean-up,
\* SetMeta, the eager cache and the removal of old manifests together are a log
\* of commits: every open finds what was reported, whatever step the sessions
\* before were interrupted at, unless the loop has put an older manifest over
\* that of the open, and an attempt is undone only before it counts
\* (storage.go:56-65, 204-222, 253-272, 1036-1053, 1163-1452).
ImplementsCommitLog == Log!Spec
=============================================================================
