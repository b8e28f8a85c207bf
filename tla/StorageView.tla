---------------------------- MODULE StorageView ----------------------------
(***************************************************************************)
(* What a reader of S3Storage sees: Open with its three sources (LRU       *)
(* cache, S3, pendingDir) and List, against what Sync, Remove and Rename   *)
(* answered, with the upload goroutine, RetryPendingUploads and Lock()     *)
(* working on the same places, the latter with its recovery and its        *)
(* removal of everything.                                                  *)
(*                                                                         *)
(* Files are tables and temporary files (goleveldb writes a rebuilt table  *)
(* to a temporary file and renames it); these are never in localDir.  A    *)
(* content is the number of the write that made it.  Sync is one step      *)
(* here: its interleavings with the goroutine are those of PendingUpload.  *)
(*                                                                         *)
(* There are situations in which the sources contradict each other.  The   *)
(* history variable  cause  names the first one; the properties say that   *)
(* there are no others:                                                    *)
(*   staleUpload    a put of what was read before pendingDir changed       *)
(*   renameSkipped  Rename could not read back what it had copied          *)
(*   renamePending  Rename left a pending copy of either name              *)
(*   shadowLeft     a failed cleanShadow left a shadow                     *)
(*   corrupt        a bad checksum cost the pending copy, not the shadow   *)
(*   retryAPI       RetryPendingUploads left the shadow                    *)
(*   wipe           removeAllOrphaned left the shadow                      *)
(*   otherHost      another host wrote, while copies were here or kept one *)
(***************************************************************************)
EXTENDS Naturals

CONSTANTS
    File,       \* names of tables and temporary files
    MaxWrites,  \* bound on the writes
    None,       \* no object, no pending file, no cache entry
    Empty       \* the entry with nil data that Create puts into the cache

Content == 1..MaxWrites
Entry == Content \cup {None, Empty}

ASSUME ViewAssumption ==
    /\ MaxWrites \in Nat
    /\ None # Empty /\ None \notin Content /\ Empty \notin Content
    /\ None \notin File

VARIABLES
    s3,         \* file -> content of the object
    pend,       \* file -> content of the copy in pendingDir
    shadow,     \* file -> content of the object under the shadow prefix
    cache,      \* file -> entry of the LRU cache
    job,        \* file -> content the upload goroutine has read
    done,       \* files whose goroutine has put them and not yet cleaned up
    writers,    \* files with an open memWriter
    api,        \* the file that RetryPendingUploads is at
    lock,       \* "free", in Lock() ("recover", "cleanup"), "locked"
    held,       \* lockHeld
    ren,        \* the Rename in progress
    wrote,      \* number of writes so far
    want,       \* history: file -> contents a reader may expect
    cause       \* history: first situation in which the sources contradict

stores == <<s3, pend, shadow>>
jobVars == <<job, done>>
lockVars == <<lock, held>>
vars == <<stores, cache, jobVars, api, writers, lockVars, ren, wrote, want, cause>>

NoCall == [file |-> None, content |-> None, put |-> FALSE]
NoRename == [at |-> "none", from |-> None, to |-> None, content |-> {}]

Init ==
    /\ s3 = [f \in File |-> None] /\ pend = [f \in File |-> None]
    /\ shadow = [f \in File |-> None] /\ cache = [f \in File |-> None]
    /\ job = [f \in File |-> None] /\ done = {} /\ writers = {}
    /\ api = NoCall /\ lock = "free" /\ held = FALSE
    /\ ren = NoRename
    /\ wrote = 0
    /\ want = [f \in File |-> {None}]
    /\ cause = "none"

Is(var, f, v) == [var EXCEPT ![f] = v]

Note(kind, contradicts) ==
    cause' = IF contradicts /\ cause = "none" THEN kind ELSE cause

\* cleanShadow of the files F; a failure is only logged.
CleanShadows(F) ==
    \E C \in SUBSET F :
        /\ shadow' = [f \in File |-> IF f \in C THEN None ELSE shadow[f]]
        /\ Note("shadowLeft", \E f \in F \ C : shadow[f] # None)

\* The API is used between Lock and Unlock; Rename keeps s.mu to its end.
Ready == lock = "locked" /\ ren = NoRename

-----------------------------------------------------------------------------
(* Writing                                                                 *)

\* The file is truncated; nothing is promised until it is synced.
Create(f) ==
    /\ Ready /\ f \notin writers
    /\ writers' = writers \cup {f}
    /\ cache' = Is(cache, f, Empty)
    /\ want' = Is(want, f, Entry)
    /\ UNCHANGED <<stores, jobVars, api, lockVars, ren, wrote, cause>>

\* Sync, or Close: the file is complete and the writer gone.
Syncing(f) ==
    /\ Ready /\ f \in writers
    /\ wrote < MaxWrites
    /\ wrote' = wrote + 1
    /\ writers' \in {writers, writers \ {f}}
    /\ UNCHANGED <<jobVars, api, lockVars, ren>>

\* Mutant: uploadFile leaves the cache alone.
SyncOkUncached(f) ==
    /\ Syncing(f)
    /\ s3' = Is(s3, f, wrote + 1)
    /\ pend' = Is(pend, f, None)
    /\ CleanShadows({f})
    /\ want' = Is(want, f, {wrote + 1})
    /\ UNCHANGED cache

SyncOk(f) ==
    /\ Syncing(f)
    /\ s3' = Is(s3, f, wrote + 1)
    /\ pend' = Is(pend, f, None)
    /\ CleanShadows({f})
    /\ cache' = Is(cache, f, wrote + 1)
    /\ want' = Is(want, f, {wrote + 1})

\* The put fails, perhaps after its effect; persistToLocal keeps the content,
\* or fails as well, and the shadow is best effort.
SyncFails(f) ==
    /\ Syncing(f)
    /\ s3' \in {s3, Is(s3, f, wrote + 1)}
    /\ \/ UNCHANGED <<pend, shadow>>
       \/ /\ pend' = Is(pend, f, wrote + 1)
          /\ shadow' \in {shadow, Is(shadow, f, wrote + 1)}
    /\ want' = [want EXCEPT ![f] = @ \cup {wrote + 1}]
    /\ UNCHANGED <<cache, cause>>

\* Remove: the copies on the way first, the object last.
Remove(f) ==
    /\ Ready /\ f \notin writers
    /\ cache' = Is(cache, f, None)
    /\ pend' = Is(pend, f, None)
    /\ CleanShadows({f})
    /\ \/ s3' = Is(s3, f, None) /\ want' = Is(want, f, {None})
       \/ /\ s3' \in {s3, Is(s3, f, None)}
          /\ want' = [want EXCEPT ![f] = @ \cup {None}]
    /\ UNCHANGED <<jobVars, api, writers, lockVars, ren, wrote>>

-----------------------------------------------------------------------------
(* Reading                                                                 *)

\* Open's three sources.  When GetBytes fails for another reason than a missing
\* object, the pending copy is read, too.
Answers(f) ==
    IF cache[f] # None THEN {cache[f]}
    ELSE {IF s3[f] # None THEN s3[f] ELSE pend[f]} \cup ({pend[f]} \ {None})

\* A hit and a miss that finds nothing in S3 change nothing.
OpenFromS3(f) ==
    /\ Ready
    /\ cache[f] = None /\ s3[f] # None
    /\ cache' = Is(cache, f, s3[f])
    /\ UNCHANGED <<stores, jobVars, api, writers, lockVars, ren, wrote, want,
                   cause>>

\* The LRU drops an entry, for some Add of another file.
Evict(f) ==
    /\ cache[f] # None
    /\ cache' = Is(cache, f, None)
    /\ UNCHANGED <<stores, jobVars, api, writers, lockVars, ren, wrote, want,
                   cause>>

\* How often List names a file: once for pendingDir, else once for the object
\* and once for the shadow, whose directory parseS3Key drops.
Listed(f) ==
    IF pend[f] # None THEN 1
    ELSE (IF s3[f] # None THEN 1 ELSE 0) + (IF shadow[f] # None THEN 1 ELSE 0)

-----------------------------------------------------------------------------
(* Rename                                                                  *)

\* From here on a crash may leave the file under both names.
RenameBegin(f, g) ==
    /\ Ready
    /\ f # g /\ f \notin writers /\ g \notin writers
    /\ ren' = [at |-> "copy", from |-> f, to |-> g, content |-> want[f]]
    /\ want' = [want EXCEPT ![f] = @ \cup {None}, ![g] = @ \cup want[f]]
    /\ UNCHANGED <<stores, cache, jobVars, api, writers, lockVars, wrote, cause>>

Step(from, to) ==
    /\ ren.at = from
    /\ ren' = IF to = "none" THEN NoRename ELSE [ren EXCEPT !.at = to]

\* Mutant: the error of the copy is only logged.
RenameCopyErrorIgnored ==
    /\ Step("copy", "get")
    /\ s3' \in {s3, Is(s3, ren.to, s3[ren.from])}
    /\ UNCHANGED <<pend, shadow, cache, jobVars, api, writers, lockVars, wrote, want,
                   cause>>

\* A pending copy of the new name may still be uploaded over the object.
RenameCopy ==
    /\ Step("copy", "get")
    /\ s3[ren.from] # None
    /\ s3' = Is(s3, ren.to, s3[ren.from])
    /\ Note("renamePending", pend[ren.to] # None)
    /\ UNCHANGED <<pend, shadow, cache, jobVars, api, writers, lockVars, wrote, want>>

\* The source is not in S3, or the call fails, perhaps after its effect.
RenameCopyFails ==
    /\ Step("copy", "none")
    /\ \/ UNCHANGED s3
       \/ s3[ren.from] # None /\ s3' = Is(s3, ren.to, s3[ren.from])
    /\ UNCHANGED <<pend, shadow, cache, jobVars, api, writers, lockVars, wrote, want,
                   cause>>

\* The source is read back for the cache; otherwise both entries stay.
RenameGet ==
    /\ Step("get", "pending")
    /\ \/ /\ s3[ren.from] # None
          /\ cache' = [cache EXCEPT ![ren.from] = None, ![ren.to] = s3[ren.from]]
          /\ UNCHANGED cause
       \/ /\ Note("renameSkipped",
                  cache[ren.from] # None \/ cache[ren.to] # None)
          /\ UNCHANGED cache
    /\ UNCHANGED <<stores, jobVars, api, writers, lockVars, wrote, want>>

\* Mutant: the shadow of the old name stays.
RenamePendingOnly ==
    /\ Step("pending", "remove")
    /\ pend[ren.from] # None
    /\ pend' = [pend EXCEPT ![ren.to] = pend[ren.from], ![ren.from] = None]
    /\ shadow' \in {shadow, Is(shadow, ren.to, pend[ren.from])}
    /\ UNCHANGED <<s3, cache, jobVars, api, writers, lockVars, wrote, want, cause>>

\* The pending copy moves with its checksum and its shadow; each of the shadow
\* calls may fail.
RenamePending ==
    /\ Step("pending", "remove")
    /\ pend[ren.from] # None
    /\ pend' = [pend EXCEPT ![ren.to] = pend[ren.from], ![ren.from] = None]
    /\ \E clean, put \in BOOLEAN :
           /\ shadow' = [shadow EXCEPT
                  ![ren.from] = IF clean THEN None ELSE @,
                  ![ren.to] = IF put THEN pend[ren.from] ELSE @]
           /\ Note("shadowLeft", \/ ~clean /\ shadow[ren.from] # None
                                 \/ ~put /\ shadow[ren.to] # None)
    /\ UNCHANGED <<s3, cache, jobVars, api, writers, lockVars, wrote, want>>

\* There is no pending copy of the old name, or it cannot be moved.
RenameNoPending ==
    /\ Step("pending", "remove")
    /\ Note("renamePending", pend[ren.from] # None)
    /\ UNCHANGED <<stores, cache, jobVars, api, writers, lockVars, wrote, want>>

RenameRemove ==
    /\ Step("remove", "none")
    /\ s3' = Is(s3, ren.from, None)
    /\ want' = [want EXCEPT ![ren.from] = {None}, ![ren.to] = ren.content]
    /\ UNCHANGED <<pend, shadow, cache, jobVars, api, writers, lockVars, wrote, cause>>

\* Both removes fail: the file may be there twice.
RenameRemoveFails ==
    /\ Step("remove", "none")
    /\ s3' \in {s3, Is(s3, ren.from, None)}
    /\ UNCHANGED <<pend, shadow, cache, jobVars, api, writers, lockVars, wrote, want,
                   cause>>

Rename ==
    \/ RenameCopy \/ RenameCopyFails \/ RenameGet
    \/ RenamePending \/ RenameNoPending \/ RenameRemove \/ RenameRemoveFails

-----------------------------------------------------------------------------
(* The upload goroutine                                                    *)

BgRead(f) ==
    /\ held
    /\ job[f] = None /\ pend[f] # None
    /\ job' = Is(job, f, pend[f])
    /\ UNCHANGED <<stores, cache, done, api, writers, lockVars, ren, wrote, want,
                   cause>>

\* It does not look whether the pending copy is still the one it has read.
BgPut(f) ==
    /\ job[f] # None /\ f \notin done
    /\ s3' = Is(s3, f, job[f])
    /\ Note("staleUpload", pend[f] # job[f])
    /\ done' = done \cup {f}
    /\ UNCHANGED <<pend, shadow, cache, job, api, writers, lockVars, ren, wrote,
                   want>>

\* The put is given up, perhaps after its effect.
BgFails(f) ==
    /\ job[f] # None /\ f \notin done
    /\ \/ UNCHANGED <<s3, cause>>
       \/ s3' = Is(s3, f, job[f]) /\ Note("staleUpload", pend[f] # job[f])
    /\ job' = Is(job, f, None)
    /\ UNCHANGED <<pend, shadow, cache, done, api, writers, lockVars, ren, wrote,
                   want>>

BgCleans(f) ==
    /\ f \in done
    /\ job' = Is(job, f, None) /\ done' = done \ {f}
    /\ pend' = Is(pend, f, None)
    /\ CleanShadows({f})
    /\ UNCHANGED <<s3, cache, api, writers, lockVars, ren, wrote, want>>

\* readPendingFiles, in the loop or in Lock(): a checksum that does not fit
\* costs the pending copy.
Corrupt(f) ==
    /\ held \/ lock = "recover"
    /\ pend[f] # None
    /\ pend' = Is(pend, f, None)
    /\ Note("corrupt", shadow[f] # None)
    /\ UNCHANGED <<s3, shadow, cache, jobVars, api, writers, lockVars, ren, wrote,
                   want>>

-----------------------------------------------------------------------------
(* RetryPendingUploads: called at any time, with or without the lock        *)

ApiRead(f) ==
    /\ api = NoCall
    /\ pend[f] # None
    /\ api' = [file |-> f, content |-> pend[f], put |-> FALSE]
    /\ UNCHANGED <<stores, cache, jobVars, writers, lockVars, ren, wrote, want,
                   cause>>

\* It puts what it has read, or fails, perhaps after the effect.
ApiPut ==
    /\ api # NoCall /\ ~api.put
    /\ \/ /\ s3' = Is(s3, api.file, api.content)
          /\ Note("staleUpload", pend[api.file] # api.content)
          /\ api' \in {[api EXCEPT !.put = TRUE], NoCall}
       \/ UNCHANGED <<s3, cause>> /\ api' = NoCall
    /\ UNCHANGED <<pend, shadow, cache, jobVars, writers, lockVars, ren, wrote,
                   want>>

\* The pending copy is removed; the shadow is left where it is.
ApiDrops ==
    /\ api.put
    /\ pend' = Is(pend, api.file, None)
    /\ Note("retryAPI", shadow[api.file] # None)
    /\ api' = NoCall
    /\ UNCHANGED <<s3, shadow, cache, jobVars, writers, lockVars, ren, wrote, want>>

-----------------------------------------------------------------------------
(* Sessions                                                                 *)

\* Lock() fetches the shadows F that it can, where there is no pending file.
LockFetches ==
    /\ lock = "free"
    /\ lock' = "recover"
    /\ \E F \in SUBSET {f \in File : shadow[f] # None /\ pend[f] = None} :
           pend' = [f \in File |-> IF f \in F THEN shadow[f] ELSE pend[f]]
    /\ UNCHANGED <<s3, shadow, cache, jobVars, api, writers, held, ren, wrote, want,
                   cause>>

\* It uploads and caches the pending files P; others have an error (L: and an
\* effect).  Then the local cache is uploaded, or Lock() fails.
LockUploads ==
    /\ lock = "recover"
    /\ lock' \in {"cleanup", "free"}
    /\ \E P \in SUBSET {f \in File : pend[f] # None} :
       \E L \in SUBSET ({f \in File : pend[f] # None} \ P) :
           /\ s3' = [f \in File |-> IF f \in P \cup L THEN pend[f] ELSE s3[f]]
           /\ pend' = [f \in File |-> IF f \in P THEN None ELSE pend[f]]
           /\ cache' = [f \in File |-> IF f \in P THEN pend[f] ELSE cache[f]]
           /\ CleanShadows(P)
    /\ UNCHANGED <<jobVars, api, writers, held, ren, wrote, want>>

LockReturns ==
    /\ lock = "cleanup"
    /\ lock' = "locked" /\ held' = TRUE
    /\ UNCHANGED <<stores, cache, jobVars, api, writers, ren, wrote, want, cause>>

\* removeAllOrphaned gives the database up: the cache is purged, the files in K
\* are removed from pendingDir and those in R from S3.
LockWipes ==
    /\ lock = "cleanup"
    /\ lock' = "locked" /\ held' = TRUE
    /\ cache' = [f \in File |-> None]
    /\ \E K, R \in SUBSET File :
           /\ pend' = [f \in File |-> IF f \in K THEN None ELSE pend[f]]
           /\ s3' = [f \in File |-> IF f \in R THEN None ELSE s3[f]]
           /\ want' = [f \in File |->
                           IF f \in R THEN want[f] \cup {None} ELSE want[f]]
           /\ Note("wipe", \E f \in K : shadow[f] # None)
    /\ UNCHANGED <<shadow, jobVars, api, writers, ren, wrote>>

\* goleveldb has closed its writers.  storageLocker.Unlock leaves lockHeld set.
Unlock ==
    /\ Ready /\ writers = {}
    /\ lock' = "free"
    /\ held' \in {held, FALSE}
    /\ UNCHANGED <<stores, cache, jobVars, api, writers, ren, wrote, want, cause>>

-----------------------------------------------------------------------------
(* A session of another host.  This process keeps its cache and its pending *)
(* files.                                                                  *)

HasCopies(f) ==
    cache[f] # None \/ pend[f] # None \/ job[f] # None \/ shadow[f] # None

OtherSession ==
    /\ lock = "free"
    /\ UNCHANGED <<pend, cache, jobVars, api, writers, lockVars, ren>>

\* It writes or removes a file ...
OtherWrites(f) ==
    /\ OtherSession
    /\ wrote < MaxWrites
    /\ wrote' = wrote + 1
    /\ \E v \in {wrote + 1, None} :
           /\ s3' = Is(s3, f, v)
           /\ want' = Is(want, f, {v})
    /\ shadow' = Is(shadow, f, None)
    /\ Note("otherHost", HasCopies(f))

\* ... or fails to, perhaps after the effect, and may keep a pending copy, which
\* it uploads some day, and a shadow.
OtherFails(f) ==
    /\ OtherSession
    /\ wrote < MaxWrites
    /\ wrote' = wrote + 1
    /\ \E v \in {wrote + 1, None}, kept \in BOOLEAN :
           /\ s3' \in {s3, Is(s3, f, v)}
           /\ want' = [want EXCEPT ![f] = @ \cup {v}]
           /\ shadow' \in {shadow} \cup
                  (IF kept /\ v # None THEN {Is(shadow, f, v)} ELSE {})
           /\ Note("otherHost", kept \/ HasCopies(f))

\* Its Lock() uploads a shadow of this host's, or keeps what it has fetched.
OtherRecovers(f) ==
    /\ OtherSession
    /\ shadow[f] # None
    /\ \/ s3' = Is(s3, f, shadow[f]) /\ CleanShadows({f})
       \/ /\ s3' \in {s3, Is(s3, f, shadow[f])}
          /\ Note("otherHost", TRUE)
          /\ UNCHANGED shadow
    /\ UNCHANGED <<wrote, want>>

\* Mutant: an open memWriter outlives its session.
EndKeepsWriters ==
    /\ cache' = [f \in File |-> None] /\ job' = [f \in File |-> None]
    /\ done' = {}
    /\ api' = NoCall /\ lock' = "free" /\ held' = FALSE
    /\ ren' = NoRename
    /\ UNCHANGED <<stores, writers, wrote, want, cause>>

\* Close, or the end of the process at any point.
End ==
    /\ cache' = [f \in File |-> None] /\ job' = [f \in File |-> None]
    /\ done' = {} /\ writers' = {}
    /\ api' = NoCall /\ lock' = "free" /\ held' = FALSE
    /\ ren' = NoRename
    /\ UNCHANGED <<stores, wrote, want, cause>>

-----------------------------------------------------------------------------
FileStep(f) ==
    \/ Create(f) \/ SyncOk(f) \/ SyncFails(f) \/ Remove(f)
    \/ OpenFromS3(f) \/ Evict(f)
    \/ \E g \in File : RenameBegin(f, g)
    \/ BgRead(f) \/ BgPut(f) \/ BgFails(f) \/ BgCleans(f)
    \/ Corrupt(f) \/ ApiRead(f)
    \/ OtherWrites(f) \/ OtherFails(f) \/ OtherRecovers(f)

Next ==
    \/ \E f \in File : FileStep(f)
    \/ Rename
    \/ ApiPut \/ ApiDrops
    \/ LockFetches \/ LockUploads \/ LockReturns \/ LockWipes
    \/ Unlock \/ End

Spec == Init /\ [][Next]_vars

-----------------------------------------------------------------------------
(* Properties                                                              *)

TypeOK ==
    /\ s3 \in [File -> Content \cup {None}]
    /\ pend \in [File -> Content \cup {None}]
    /\ shadow \in [File -> Content \cup {None}]
    /\ cache \in [File -> Entry]
    /\ job \in [File -> Content \cup {None}]
    /\ done \subseteq File /\ writers \subseteq File
    /\ api \in [file : File \cup {None}, content : Content \cup {None},
               put : BOOLEAN]
    /\ lock \in {"free", "recover", "cleanup", "locked"} /\ held \in BOOLEAN
    /\ ren \in [at : {"none", "copy", "get", "pending", "remove"},
               from : File \cup {None}, to : File \cup {None},
               content : SUBSET Entry]
    /\ wrote \in 0..MaxWrites
    /\ want \in [File -> SUBSET Entry]
    /\ cause \in {"none", "staleUpload", "renameSkipped", "renamePending",
                  "shadowLeft", "corrupt", "retryAPI", "wipe", "otherHost"}

\* What is open or being renamed belongs to a session.
SessionsClean ==
    /\ lock = "locked" => held
    /\ lock # "locked" => writers = {} /\ ren = NoRename
    /\ api # NoCall => api.file # None /\ api.content # None
    /\ ren # NoRename =>
           ren.at # "none" /\ {ren.from, ren.to} \subseteq File \ writers
    /\ \A f \in done : job[f] # None

\* Each source by itself has what a reader may expect, and a shadow object only
\* doubles a pending file.
SourcesAgree ==
    \A f \in File :
        /\ s3[f] \in want[f]
        /\ {pend[f], cache[f], shadow[f]} \subseteq want[f] \cup {None}
        /\ shadow[f] # None => pend[f] # None

\* The old name keeps the file until the new one has it in every source.
RenameHalfway ==
    ren # NoRename =>
        LET f == ren.from
            g == ren.to
            C == ren.content
        IN  /\ f # g
            /\ want[f] = C \cup {None} /\ C \subseteq want[g]
            /\ s3[f] \in C /\ {pend[f], cache[f], shadow[f]} \subseteq C \cup {None}
            /\ ren.at # "copy" =>
                   s3[g] \in C /\ {pend[g], shadow[g]} \subseteq C \cup {None}
            /\ ren.at \in {"pending", "remove"} =>
                   cache[f] = None /\ cache[g] \in C \cup {None}
            /\ ren.at = "remove" => pend[f] = None

\* The inductive invariant behind the three properties below: until one of the
\* named situations occurs the sources agree, also in the middle of a Rename
\* (storage.go:79-110, 391-522, 836-957, 1047-1111).
ViewInv ==
    /\ TypeOK
    /\ SessionsClean
    /\ cause = "none" => SourcesAgree /\ RenameHalfway

\* An Open answers what the last Sync, Remove or Rename of the file left, also
\* after evictions, uploads, recoveries and crashes, unless one of the named
\* situations has occurred (storage.go:391-434, 489-522, 836-957).
ReadsExpected ==
    cause = "none" /\ ren = NoRename =>
        \A f \in File : Answers(f) \subseteq want[f]

\* List names a file that must exist once, and one that must not exist never:
\* the shadow objects it takes for files have a pending copy at this host
\* (storage.go:339-389, client.go:302-308).
ListExact ==
    cause = "none" /\ ren = NoRename =>
        \A f \in File :
            /\ Listed(f) <= 1
            /\ None \notin want[f] => Listed(f) = 1
            /\ want[f] = {None} => Listed(f) = 0

\* A process that ends anywhere in a Rename leaves the file under one of the
\* two names (storage.go:868-957, README.md:106).
RenameKeeps ==
    cause = "none" /\ ren # NoRename /\ None \notin ren.content =>
        \E f \in {ren.from, ren.to} :
            s3[f] \in ren.content \/ pend[f] \in ren.content
=============================================================================
