------------------------ MODULE PendingUploadProofs ------------------------
(* The tables of PendingUpload are never lost, for every set of hosts and    *)
(* files and every choice of the options.                                    *)
EXTENDS PendingUpload, TLAPS

-----------------------------------------------------------------------------
(* Updates of a store and of a disk                                        *)

\* A content of a file is one of its versions, or none.
LEMMA ContentsAt ==
  ASSUME NEW g \in Contents, NEW f \in File
  PROVE  g \in [File -> Nat] /\ g[f] \in 0..MaxVersion[f]
  BY FilesAssumption DEF Contents, Versions

\* Disks of contents are disks of versions.
LEMMA DiskIsVersions ==
  ASSUME NEW g \in [Node -> Contents]
  PROVE  g \in [Node -> Versions]
  BY DEF Contents

\* A put of a version of the file keeps a store in its type.
LEMMA ContentsPut ==
  ASSUME NEW g \in Contents, NEW f \in File, NEW v \in 0..MaxVersion[f]
  PROVE  [g EXCEPT ![f] = v] \in Contents
  BY FilesAssumption DEF Contents, Versions

\* The empty store.
LEMMA NothingFits == Nothing \in Contents /\ \A f \in File : Nothing[f] = 0
  BY FilesAssumption DEF Contents, Versions, Nothing

\* A table is written once and never cached.
LEMMA TableOnce ==
  ASSUME ControlTypeOK, NEW f \in File, kind[f] = "table"
  PROVE  MaxVersion[f] = 1 /\ ~Cached(f)
  BY FilesAssumption DEF ControlTypeOK, KindChoices, Cached

\* A write to the disk of the present node.
LEMMA DiskPut ==
  ASSUME NEW g \in [Node -> Contents], NEW f \in File, NEW v \in 0..MaxVersion[f],
         node \in Node
  PROVE  /\ OnDisk(g, f, v) \in [Node -> Contents]
         /\ \A n \in Node, h \in File :
               OnDisk(g, f, v)[n][h] = IF n = node /\ h = f THEN v ELSE g[n][h]
<1>1. [g[node] EXCEPT ![f] = v] \in Contents
  BY ContentsPut
<1>2. OnDisk(g, f, v) = [g EXCEPT ![node] = [g[node] EXCEPT ![f] = v]]
  BY DEF OnDisk
<1>3. \A n \in Node : g[n] \in [File -> Nat]
  BY DEF Contents, Versions
<1> QED BY <1>1, <1>2, <1>3

\* The same for checksums, which may be torn.
LEMMA CksumPut ==
  ASSUME NEW g \in [Node -> Versions], NEW f \in File, NEW v \in Nat, node \in Node
  PROVE  /\ OnDisk(g, f, v) \in [Node -> Versions]
         /\ \A n \in Node, h \in File :
               OnDisk(g, f, v)[n][h] = IF n = node /\ h = f THEN v ELSE g[n][h]
  BY DEF OnDisk, Versions

\* What dropping a pending file leaves.
LEMMA DropLeaves ==
  ASSUME TypeOK, NEW f \in File, DropPending(f)
  PROVE  /\ pend' \in [Node -> Contents]
         /\ \A n \in Node, h \in File :
               pend'[n][h] = IF n = node /\ h = f THEN 0 ELSE pend[n][h]
         /\ cksum' \in [Node -> Versions]
         /\ \A n \in Node, h \in File :
               cksum'[n][h] = IF n = node /\ h = f THEN 0 ELSE cksum[n][h]
<1>1. 0 \in 0..MaxVersion[f]
  BY FilesAssumption
<1> QED BY <1>1, DiskPut, CksumPut DEF DropPending, TypeOK, StoreTypeOK, ControlTypeOK

\* A checksum is the version's own, an old one, none, or torn.
LEMMA ChecksumWritten ==
  ASSUME TypeOK, NEW f \in File, NEW v \in 0..MaxVersion[f], WriteChecksum(f, v)
  PROVE  /\ cksum' \in [Node -> Versions]
         /\ TornChecksum \/ \A n \in Node, h \in File : cksum'[n][h] <= MaxVersion[h]
<1>1. v \in Nat /\ v <= MaxVersion[f] /\ Garbled(f) \in Nat
  BY FilesAssumption DEF Garbled
<1>2. CASE cksum' = cksum
  BY <1>2 DEF TypeOK, StoreTypeOK
<1>3. CASE cksum' = OnDisk(cksum, f, v)
  <2>1. /\ cksum' \in [Node -> Versions]
        /\ \A n \in Node, h \in File :
              cksum'[n][h] = IF n = node /\ h = f THEN v ELSE cksum[n][h]
    BY <1>1, <1>3, CksumPut DEF TypeOK, StoreTypeOK, ControlTypeOK
  <2>2. ASSUME NEW n \in Node, NEW h \in File, ~TornChecksum
        PROVE  cksum'[n][h] <= MaxVersion[h]
    BY <1>1, <2>1, <2>2 DEF TypeOK, StoreTypeOK
  <2> QED BY <2>1, <2>2
<1>4. CASE TornChecksum /\ cksum' = OnDisk(cksum, f, Garbled(f))
  BY <1>1, <1>4, CksumPut DEF TypeOK, StoreTypeOK, ControlTypeOK
<1> QED BY <1>2, <1>3, <1>4 DEF WriteChecksum

\* A put of a version that fits, whether it is done or not.
LEMMA MainWritten ==
  ASSUME TypeOK, NEW f \in File, NEW v \in Nat,
         v <= MaxVersion[f] \/ kind[f] = "manifest",
         MaybePut(main, main', f, v)
  PROVE  /\ main' \in Versions
         /\ \A h \in File : main'[h] = main[h] \/ (h = f /\ main'[h] = v)
         /\ \A h \in File : main'[h] <= MaxVersion[h] \/ kind[h] = "manifest"
<1>1. CASE main' = main
  BY <1>1 DEF TypeOK, StoreTypeOK
<1>2. CASE main' = [main EXCEPT ![f] = v]
  BY <1>2 DEF TypeOK, StoreTypeOK, Versions
<1> QED BY <1>1, <1>2 DEF MaybePut

\* A write of the data of a pending file.
LEMMA PendingWritten ==
  ASSUME TypeOK, NEW f \in File, NEW v \in 0..MaxVersion[f], pend' = OnDisk(pend, f, v)
  PROVE  /\ pend' \in [Node -> Contents]
         /\ \A n \in Node, h \in File :
               pend'[n][h] = IF n = node /\ h = f THEN v ELSE pend[n][h]
  BY DiskPut DEF TypeOK, StoreTypeOK, ControlTypeOK

\* A write of the local cache, whether it is done or not.
LEMMA CacheWritten ==
  ASSUME TypeOK, NEW f \in File, NEW v \in 0..MaxVersion[f],
         cache' \in {cache, OnDisk(cache, f, v)}
  PROVE  /\ cache' \in [Node -> Contents]
         /\ \A n \in Node, h \in File : cache'[n][h] = cache[n][h] \/ (h = f /\ cache'[n][h] = v)
<1>1. CASE cache' = cache
  BY <1>1 DEF TypeOK, StoreTypeOK
<1>2. CASE cache' = OnDisk(cache, f, v)
  BY <1>2, DiskPut DEF TypeOK, StoreTypeOK, ControlTypeOK
<1> QED BY <1>1, <1>2

\* RetryPendingUploads deletes a checksum, or not.
LEMMA ChecksumDropped ==
  ASSUME TypeOK, NEW f \in File, cksum' \in {cksum, OnDisk(cksum, f, 0)}
  PROVE  /\ cksum' \in [Node -> Versions]
         /\ \A n \in Node, h \in File : cksum'[n][h] \in {0, cksum[n][h]}
<1>1. CASE cksum' = cksum
  BY <1>1 DEF TypeOK, StoreTypeOK
<1>2. CASE cksum' = OnDisk(cksum, f, 0)
  BY <1>2, CksumPut DEF TypeOK, StoreTypeOK, ControlTypeOK
<1> QED BY <1>1, <1>2

\* The checksum of a table always fits, unless it is torn.
LEMMA TableChecksumFits ==
  ASSUME TypeOK, ~TornChecksum, NEW f \in File, kind[f] = "table",
         NEW v \in Nat, 0 < v, v <= MaxVersion[f]
  PROVE  ChecksumFits(f, v)
<1>1. MaxVersion[f] = 1
  BY TableOnce DEF TypeOK
<1>2. cksum[node] \in [File -> Nat] /\ cksum[node][f] <= 1
  BY <1>1 DEF TypeOK, StoreTypeOK, ControlTypeOK, Versions
<1>3. cksum[node][f] \in {0, 1} /\ v = 1
  BY <1>1, <1>2
<1> QED BY <1>3 DEF ChecksumFits

\* What the scan of Lock() leaves of a disk.
LEMMA DropAll ==
  ASSUME NEW bad, node \in Node, NEW g \in [Node -> Versions], NEW g1,
         g1 = [g EXCEPT ![node] = [f \in File |-> IF f \in bad THEN 0 ELSE g[node][f]]]
  PROVE  /\ g1 \in [Node -> Versions]
         /\ \A n \in Node, h \in File :
               g1[n][h] = IF n = node /\ h \in bad THEN 0 ELSE g[n][h]
  BY DEF Versions

\* cleanShadow deletes the shadow, or not.
LEMMA ShadowCleaned ==
  ASSUME TypeOK, NEW f \in File, CleanShadow(f)
  PROVE  /\ shadow' \in Contents
         /\ \A h \in File : shadow'[h] = shadow[h] \/ (h = f /\ shadow'[h] = 0)
<1>1. 0 \in 0..MaxVersion[f]
  BY FilesAssumption
<1>2. [shadow EXCEPT ![f] = 0] \in Contents
  BY <1>1, ContentsPut DEF TypeOK, StoreTypeOK
<1> QED BY <1>2, ContentsAt DEF CleanShadow, MaybePut, TypeOK, StoreTypeOK

\* No copy is anywhere at the start.
LEMMA InvInit == ASSUME Init PROVE TableInv
<1>1. TypeOK
  BY NothingFits, FilesAssumption
  DEF Init, TypeOK, StoreTypeOK, CopyTypeOK, ControlTypeOK, Contents, Versions, Nothing,
      WriterAt, JobAt, NoRemove, NoRead, Idle
<1>2. ReadKnown /\ LoopRests /\ RemoverKnown
  BY FilesAssumption DEF Init, ReadKnown, LoopRests, RemoverKnown, NoRead, Idle, NoRemove, Up
<1>3. TablesInHand
  BY NothingFits, FilesAssumption DEF Init, TablesInHand, InHand, Uploading
<1>4. TablesSafe
  BY NothingFits, FilesAssumption DEF Init, TablesSafe, Safe, Uploaded, Idle
<1> QED BY <1>1, <1>2, <1>3, <1>4 DEF TableInv

-----------------------------------------------------------------------------
(* Every step keeps TableInv                                               *)

\* Create, Write, Sync and what uploadFile does.
LEMMA WriterKeeps ==
  ASSUME TableInv, NEW f \in File, WriterStep(f)
  PROVE  TableInv'
<1> USE FilesAssumption
    DEF s3Vars, diskVars, sessionVars, flagVars, writerVars, scanVars, loopVars, histVars,
        outsideWriter, outsideRemove, outsideLoop, outsideApi, outsideLock, Recovering, GivenUp
<1>1. CASE Create(f)
  <2>1. TypeOK'
    <3>1. 1 \in 0..MaxVersion[f]
      BY FilesAssumption
    <3>2. buf' \in Contents
      BY <1>1, <3>1, ContentsPut DEF Create, TableInv, TypeOK, CopyTypeOK
    <3> QED BY <1>1, <3>2
            DEF Create, TableInv, TypeOK, StoreTypeOK, CopyTypeOK, ControlTypeOK, WriterAt
  <2>2. ReadKnown' /\ LoopRests' /\ RemoverKnown'
    BY <1>1 DEF Create, TableInv, ReadKnown, LoopRests, RemoverKnown, Up
  <2>3. TablesInHand' /\ TablesSafe'
    BY <1>1
    DEF Create, TableInv, TypeOK, CopyTypeOK, Contents, Versions, ControlTypeOK, TablesInHand,
        InHand, TablesSafe, Safe, Uploaded
  <2> QED BY <2>1, <2>2, <2>3 DEF TableInv
<1>2. CASE Write(f)
  <2>1. /\ buf[f] + 1 \in 0..MaxVersion[f]
        /\ buf' = [buf EXCEPT ![f] = buf[f] + 1] /\ buf'[f] = buf[f] + 1
    BY <1>2, ContentsAt DEF Write, TableInv, TypeOK, CopyTypeOK
  <2>2. /\ cache' \in [Node -> Contents]
        /\ \A n \in Node, h \in File : cache'[n][h] = cache[n][h] \/ (h = f /\ Cached(f))
    BY <1>2, <2>1, CacheWritten DEF Write, TableInv
  <2>3. buf' \in Contents
    BY <2>1, ContentsPut DEF TableInv, TypeOK, CopyTypeOK
  <2>4. StoreTypeOK'
    BY <1>2, <2>2 DEF Write, TableInv, TypeOK, StoreTypeOK
  <2>5. CopyTypeOK'
    BY <1>2, <2>3 DEF Write, TableInv, TypeOK, CopyTypeOK
  <2>6. ControlTypeOK'
    BY <1>2 DEF Write, TableInv, TypeOK, ControlTypeOK
  <2>7. ReadKnown' /\ LoopRests' /\ RemoverKnown'
    BY <1>2 DEF Write, TableInv, ReadKnown, LoopRests, RemoverKnown, Up
  <2>8. ASSUME NEW h \in File, kind'[h] = "table" PROVE InHand(h)'
    <3>1. kind[h] = "table" /\ InHand(h) /\ ~Cached(h)
      BY <1>2, <2>8, TableOnce DEF Write, TableInv, TypeOK, TablesInHand
    <3>2. buf[h] > 0 => buf'[h] > 0
      BY <2>1, ContentsAt DEF TableInv, TypeOK, CopyTypeOK
    <3>3. \A n \in Node : cache'[n][h] = cache[n][h]
      BY <2>2, <3>1
    <3> QED BY <1>2, <3>1, <3>2, <3>3 DEF Write, InHand
  <2>9. ASSUME NEW h \in File, kind'[h] = "table", h \notin GivenUp' PROVE Safe(h)'
    BY <1>2, <2>9 DEF Write, TableInv, TablesSafe, Safe, Uploaded
  <2> QED BY <2>4, <2>5, <2>6, <2>7, <2>8, <2>9 DEF TableInv, TypeOK, TablesInHand, TablesSafe
<1>3. CASE Sync(f)
  <2>1. buf[f] \in 0..MaxVersion[f]
    BY ContentsAt DEF TableInv, TypeOK, CopyTypeOK
  <2>2. /\ cache' \in [Node -> Contents]
        /\ \A n \in Node, h \in File : cache'[n][h] = cache[n][h] \/ (h = f /\ Cached(f))
    BY <1>3, <2>1, CacheWritten DEF Sync, TableInv
  <2>3. writer[f] = "idle" /\ writer' \in {writer, [writer EXCEPT ![f] = "put"]}
    BY <1>3 DEF Sync, TableInv, TypeOK, ControlTypeOK
  <2>4. StoreTypeOK'
    BY <1>3, <2>2 DEF Sync, TableInv, TypeOK, StoreTypeOK
  <2>5. CopyTypeOK'
    BY <1>3 DEF Sync, TableInv, TypeOK, CopyTypeOK
  <2>6. ControlTypeOK'
    BY <1>3 DEF Sync, TableInv, TypeOK, ControlTypeOK, WriterAt
  <2>7. ReadKnown' /\ LoopRests' /\ RemoverKnown'
    BY <1>3 DEF Sync, TableInv, ReadKnown, LoopRests, RemoverKnown, Up
  <2>8. ASSUME NEW h \in File, kind'[h] = "table" PROVE InHand(h)'
    BY <1>3, <2>8, <2>2, TableOnce
    DEF Sync, TableInv, TypeOK, ControlTypeOK, TablesInHand, InHand
  <2>9. ASSUME NEW h \in File, kind'[h] = "table", h \notin GivenUp' PROVE Safe(h)'
    BY <1>3, <2>9 DEF Sync, TableInv, TypeOK, ControlTypeOK, TablesSafe, Safe, Uploaded
  <2> QED BY <2>4, <2>5, <2>6, <2>7, <2>8, <2>9 DEF TableInv, TypeOK, TablesInHand, TablesSafe
<1>4. CASE UploadOk(f)
  <2>1. TypeOK'
    BY <1>4, ContentsAt
    DEF UploadOk, TableInv, TypeOK, StoreTypeOK, CopyTypeOK, ControlTypeOK, Versions, WriterAt
  <2>2. ReadKnown' /\ LoopRests' /\ RemoverKnown'
    BY <1>4 DEF UploadOk, TableInv, ReadKnown, LoopRests, RemoverKnown, Up
  <2>3. TablesInHand' /\ TablesSafe'
    BY <1>4
    DEF UploadOk, TableInv, TypeOK, StoreTypeOK, TablesInHand, InHand, Uploading, TablesSafe,
        Safe, Uploaded, Versions
  <2> QED BY <2>1, <2>2, <2>3 DEF TableInv
<1>5. CASE UploadFails(f)
  <2>1. buf[f] \in Nat /\ buf[f] <= MaxVersion[f]
    BY ContentsAt DEF TableInv, TypeOK, CopyTypeOK
  <2>2. /\ main' \in Versions
        /\ \A h \in File :
              /\ main'[h] = main[h] \/ (h = f /\ main'[h] = buf[f])
              /\ main'[h] <= MaxVersion[h] \/ kind[h] = "manifest"
    BY <1>5, <2>1, MainWritten DEF UploadFails, TableInv
  <2>3. StoreTypeOK'
    BY <1>5, <2>2 DEF UploadFails, TableInv, TypeOK, StoreTypeOK
  <2>4. CopyTypeOK'
    BY <1>5 DEF UploadFails, TableInv, TypeOK, CopyTypeOK
  <2>5. ControlTypeOK'
    BY <1>5 DEF UploadFails, TableInv, TypeOK, ControlTypeOK, WriterAt
  <2>6. ReadKnown' /\ LoopRests' /\ RemoverKnown'
    BY <1>5 DEF UploadFails, TableInv, ReadKnown, LoopRests, RemoverKnown, Up
  <2>7. ASSUME NEW h \in File, kind'[h] = "table" PROVE InHand(h)'
    BY <1>5, <2>7 DEF UploadFails, TableInv, TablesInHand, InHand, Uploading
  <2>8. ASSUME NEW h \in File, kind'[h] = "table", h \notin GivenUp' PROVE Safe(h)'
    BY <1>5, <2>8, <2>2
    DEF UploadFails, TableInv, TablesInHand, InHand, Uploading, TablesSafe, Safe, Uploaded
  <2> QED BY <2>3, <2>4, <2>5, <2>6, <2>7, <2>8 DEF TableInv, TypeOK, TablesInHand, TablesSafe
<1>6. CASE PersistData(f)
  <2>1. buf[f] \in 0..MaxVersion[f]
    BY ContentsAt DEF TableInv, TypeOK, CopyTypeOK
  <2>2. /\ pend' \in [Node -> Contents]
        /\ \A n \in Node, h \in File : pend'[n][h] = pend[n][h] \/ (h = f /\ pend'[n][h] = buf[f])
        /\ pend' # pend => pend'[node][f] = buf[f]
    BY <1>6, <2>1, PendingWritten DEF PersistData, TableInv, TypeOK, StoreTypeOK, ControlTypeOK
  <2>3. \/ writer' = [writer EXCEPT ![f] = "cksum"] /\ pend'[node][f] = buf[f]
        \/ writer' \in {[writer EXCEPT ![f] = "idle"], [writer EXCEPT ![f] = "closed"]}
    BY <1>6, <2>1, PendingWritten DEF PersistData, Return, TableInv, TypeOK, ControlTypeOK
  <2>4. StoreTypeOK'
    BY <1>6, <2>2 DEF PersistData, Return, TableInv, TypeOK, StoreTypeOK
  <2>5. CopyTypeOK'
    BY <1>6 DEF PersistData, Return, TableInv, TypeOK, CopyTypeOK
  <2>6. ControlTypeOK'
    BY <1>6, <2>3 DEF PersistData, TableInv, TypeOK, ControlTypeOK, WriterAt
  <2>7. ReadKnown' /\ LoopRests' /\ RemoverKnown'
    BY <1>6 DEF PersistData, Return, TableInv, ReadKnown, LoopRests, RemoverKnown, Up
  <2>8. ASSUME NEW h \in File, kind'[h] = "table" PROVE InHand(h)'
    BY <1>6, <2>8
    DEF PersistData, Return, TableInv, TypeOK, ControlTypeOK, TablesInHand, InHand, Uploading
  <2>9. ASSUME NEW h \in File, kind'[h] = "table", h \notin GivenUp' PROVE Safe(h)'
    BY <1>6, <2>9, <2>2, <2>3
    DEF PersistData, Return, TableInv, TypeOK, ControlTypeOK, TablesInHand, InHand, Uploading,
        TablesSafe, Safe, Uploaded
  <2> QED BY <2>4, <2>5, <2>6, <2>7, <2>8, <2>9 DEF TableInv, TypeOK, TablesInHand, TablesSafe
<1>7. CASE PersistChecksum(f)
  <2>1. TypeOK'
    BY <1>7, ChecksumWritten, ContentsAt
    DEF PersistChecksum, TableInv, TypeOK, StoreTypeOK, CopyTypeOK, ControlTypeOK, WriterAt
  <2>2. ReadKnown' /\ LoopRests' /\ RemoverKnown'
    BY <1>7 DEF PersistChecksum, TableInv, ReadKnown, LoopRests, RemoverKnown, Up
  <2>3. TablesInHand' /\ TablesSafe'
    BY <1>7, ChecksumWritten
    DEF PersistChecksum, TableInv, TablesInHand, InHand, Uploading, TablesSafe, Safe, Uploaded
  <2> QED BY <2>1, <2>2, <2>3 DEF TableInv
<1>8. CASE PersistShadow(f)
  <2>1. buf[f] \in 0..MaxVersion[f]
    BY ContentsAt DEF TableInv, TypeOK, CopyTypeOK
  <2>2. /\ shadow' \in {shadow, [shadow EXCEPT ![f] = buf[f]]}
        /\ backed' \in {backed, [backed EXCEPT ![f] = buf[f]]}
        /\ persisted' \in {persisted, [persisted EXCEPT ![f] = buf[f]]}
    BY <1>8 DEF PersistShadow, TableHas, MaybePut
  <2>3. /\ [shadow EXCEPT ![f] = buf[f]] \in Contents
        /\ [backed EXCEPT ![f] = buf[f]] \in Contents /\ persisted' \in Contents
    BY <2>1, <2>2, ContentsPut DEF TableInv, TypeOK, StoreTypeOK, CopyTypeOK
  <2>4. StoreTypeOK'
    BY <1>8, <2>2, <2>3 DEF PersistShadow, TableInv, TypeOK, StoreTypeOK
  <2>5. CopyTypeOK'
    BY <1>8, <2>2, <2>3 DEF PersistShadow, TableInv, TypeOK, CopyTypeOK
  <2>6. ControlTypeOK'
    BY <1>8 DEF PersistShadow, Return, MaybePut, TableInv, TypeOK, ControlTypeOK, WriterAt
  <2>7. ReadKnown' /\ LoopRests' /\ RemoverKnown'
    BY <1>8
    DEF PersistShadow, Return, MaybePut, TableInv, ReadKnown, LoopRests, RemoverKnown, Up
  <2>8. ASSUME NEW h \in File, kind'[h] = "table" PROVE InHand(h)'
    BY <1>8, <2>8 DEF PersistShadow, Return, MaybePut, TableInv, TablesInHand, InHand, Uploading
  <2>9. ASSUME NEW h \in File, kind'[h] = "table", h \notin GivenUp' PROVE Safe(h)'
    BY <1>8, <2>9, <2>3, ContentsAt
    DEF PersistShadow, TableHas, Return, MaybePut, TableInv, TablesInHand, InHand, Uploading,
        TablesSafe, Safe, Uploaded
  <2> QED BY <2>4, <2>5, <2>6, <2>7, <2>8, <2>9 DEF TableInv, TypeOK, TablesInHand, TablesSafe
<1>9. CASE UploadDropsPending(f)
  <2>1. /\ pend' \in [Node -> Contents] /\ cksum' \in [Node -> Versions]
        /\ \A n \in Node, h \in File :
              /\ pend'[n][h] = IF n = node /\ h = f THEN 0 ELSE pend[n][h]
              /\ cksum'[n][h] = IF n = node /\ h = f THEN 0 ELSE cksum[n][h]
    BY <1>9, DropLeaves DEF UploadDropsPending, TableInv
  <2>2. StoreTypeOK'
    BY <1>9, <2>1 DEF UploadDropsPending, TableInv, TypeOK, StoreTypeOK, CopyTypeOK, Versions
  <2>3. CopyTypeOK'
    BY <1>9 DEF UploadDropsPending, TableInv, TypeOK, CopyTypeOK
  <2>4. ControlTypeOK'
    BY <1>9 DEF UploadDropsPending, TableInv, TypeOK, ControlTypeOK, WriterAt
  <2>5. ReadKnown' /\ LoopRests' /\ RemoverKnown'
    BY <1>9 DEF UploadDropsPending, TableInv, ReadKnown, LoopRests, RemoverKnown, Up
  <2>6. ASSUME NEW h \in File, kind'[h] = "table" PROVE InHand(h)'
    BY <1>9, <2>6 DEF UploadDropsPending, TableInv, TablesInHand, InHand, Uploading
  <2>7. ASSUME NEW h \in File, kind'[h] = "table", h \notin GivenUp' PROVE Safe(h)'
    BY <1>9, <2>7, <2>1
    DEF UploadDropsPending, TableInv, StoreTypeOK, TablesSafe, Safe, Uploaded
  <2> QED BY <2>2, <2>3, <2>4, <2>5, <2>6, <2>7 DEF TableInv, TypeOK, TablesInHand, TablesSafe
<1>10. CASE UploadReturns(f)
  <2>1. StoreTypeOK'
    BY <1>10, ShadowCleaned DEF UploadReturns, Return, TableInv, TypeOK, StoreTypeOK
  <2>2. CopyTypeOK'
    BY <1>10, ShadowCleaned, ContentsAt, ContentsPut
    DEF UploadReturns, Return, TableInv, TypeOK, CopyTypeOK
  <2>3. ControlTypeOK'
    BY <1>10 DEF UploadReturns, Return, TableInv, TypeOK, ControlTypeOK, WriterAt
  <2>4. ReadKnown' /\ LoopRests' /\ RemoverKnown'
    BY <1>10 DEF UploadReturns, Return, TableInv, ReadKnown, LoopRests, RemoverKnown, Up
  <2>5. ASSUME NEW h \in File, kind'[h] = "table" PROVE InHand(h)'
    BY <1>10, <2>5, ShadowCleaned
    DEF UploadReturns, Return, TableInv, TablesInHand, InHand, Uploading
  <2>6. ASSUME NEW h \in File, kind'[h] = "table", h \notin GivenUp' PROVE Safe(h)'
    BY <1>10, <2>6, ShadowCleaned
    DEF UploadReturns, Return, TableInv, StoreTypeOK, TablesSafe, Safe, Uploaded
  <2> QED BY <2>1, <2>2, <2>3, <2>4, <2>5, <2>6 DEF TableInv, TypeOK, TablesInHand, TablesSafe
<1> QED BY <1>1, <1>2, <1>3, <1>4, <1>5, <1>6, <1>7, <1>8, <1>9, <1>10 DEF WriterStep

\* Remove.
LEMMA RemoveKeeps ==
  ASSUME TableInv, NEW f \in File, RemoveStep(f)
  PROVE  TableInv'
<1> USE FilesAssumption
    DEF s3Vars, diskVars, sessionVars, flagVars, writerVars, scanVars, loopVars, histVars,
        outsideWriter, outsideRemove, outsideLoop, outsideApi, outsideLock, Recovering, GivenUp
<1>1. CASE RemoveBegin(f)
  <2>1. /\ pend' \in [Node -> Contents] /\ cksum' \in [Node -> Versions]
        /\ \A n \in Node, h \in File :
              /\ pend'[n][h] = IF n = node /\ h = f THEN 0 ELSE pend[n][h]
              /\ cksum'[n][h] = IF n = node /\ h = f THEN 0 ELSE cksum[n][h]
    BY <1>1, DropLeaves DEF RemoveBegin, TableInv
  <2>2. 0 \in 0..MaxVersion[f]
    BY FilesAssumption
  <2>3. /\ cache' \in [Node -> Contents]
        /\ \A n \in Node, h \in File : cache'[n][h] \in {0, cache[n][h]}
    BY <1>1, CacheWritten DEF RemoveBegin, TableInv
  <2>4. StoreTypeOK'
    BY <1>1, <2>1, <2>3 DEF RemoveBegin, TableInv, TypeOK, StoreTypeOK
  <2>5. CopyTypeOK'
    BY <1>1 DEF RemoveBegin, NoRemove, TableInv, TypeOK, CopyTypeOK
  <2>6. ControlTypeOK'
    BY <1>1 DEF RemoveBegin, NoRemove, TableInv, TypeOK, ControlTypeOK
  <2>7. ReadKnown' /\ LoopRests' /\ RemoverKnown'
    BY <1>1 DEF RemoveBegin, NoRemove, TableInv, ReadKnown, LoopRests, RemoverKnown, Up
  <2>8. ASSUME NEW h \in File, kind'[h] = "table" PROVE InHand(h)'
    BY <1>1, <2>8, <2>3, ContentsAt
    DEF RemoveBegin, NoRemove, TableInv, TypeOK, StoreTypeOK, TablesInHand, InHand
  <2>9. ASSUME NEW h \in File, kind'[h] = "table", h \notin GivenUp' PROVE Safe(h)'
    BY <1>1, <2>9, <2>1
    DEF RemoveBegin, NoRemove, TableInv, StoreTypeOK, TablesInHand, InHand, Uploading,
        TablesSafe, Safe, Uploaded
  <2> QED BY <2>4, <2>5, <2>6, <2>7, <2>8, <2>9 DEF TableInv, TypeOK, TablesInHand, TablesSafe
<1>2. CASE RemoveShadow(f)
  <2>1. /\ shadow' \in Contents
        /\ \A h \in File : shadow'[h] = shadow[h] \/ (h = f /\ shadow'[h] = 0)
    BY <1>2, ShadowCleaned DEF RemoveShadow, TableInv
  <2>2. f \in gone /\ gone' = gone
    BY <1>2 DEF RemoveShadow, TableInv, RemoverKnown
  <2>3. StoreTypeOK'
    BY <1>2, <2>1 DEF RemoveShadow, TableInv, TypeOK, StoreTypeOK
  <2>4. CopyTypeOK'
    BY <1>2 DEF RemoveShadow, TableInv, TypeOK, CopyTypeOK
  <2>5. ControlTypeOK'
    BY <1>2 DEF RemoveShadow, TableInv, TypeOK, ControlTypeOK
  <2>6. ReadKnown' /\ LoopRests' /\ RemoverKnown'
    BY <1>2 DEF RemoveShadow, TableInv, ReadKnown, LoopRests, RemoverKnown, Up
  <2>7. ASSUME NEW h \in File, kind'[h] = "table" PROVE InHand(h)'
    BY <1>2, <2>7 DEF RemoveShadow, TableInv, TablesInHand, InHand
  <2>8. ASSUME NEW h \in File, kind'[h] = "table", h \notin GivenUp' PROVE Safe(h)'
    BY <1>2, <2>8, <2>1, <2>2 DEF RemoveShadow, TableInv, TablesSafe, Safe, Uploaded
  <2> QED BY <2>3, <2>4, <2>5, <2>6, <2>7, <2>8 DEF TableInv, TypeOK, TablesInHand, TablesSafe
<1>3. CASE RemoveMain(f)
  <2>1. MaybePut(main, main', f, 0) /\ 0 <= MaxVersion[f]
    BY <1>3 DEF RemoveMain, MaybePut
  <2>2. /\ main' \in Versions
        /\ \A h \in File :
              /\ main'[h] = main[h] \/ (h = f /\ main'[h] = 0)
              /\ main'[h] <= MaxVersion[h] \/ kind[h] = "manifest"
    BY <1>3, <2>1, MainWritten DEF TableInv
  <2>3. f \in gone /\ gone' = gone
    BY <1>3 DEF RemoveMain, TableInv, RemoverKnown
  <2>4. StoreTypeOK'
    BY <1>3, <2>2 DEF RemoveMain, TableInv, TypeOK, StoreTypeOK
  <2>5. CopyTypeOK'
    BY <1>3 DEF RemoveMain, NoRemove, TableInv, TypeOK, CopyTypeOK
  <2>6. ControlTypeOK'
    BY <1>3 DEF RemoveMain, NoRemove, TableInv, TypeOK, ControlTypeOK
  <2>7. ReadKnown' /\ LoopRests' /\ RemoverKnown'
    BY <1>3 DEF RemoveMain, NoRemove, TableInv, ReadKnown, LoopRests, RemoverKnown, Up
  <2>8. ASSUME NEW h \in File, kind'[h] = "table" PROVE InHand(h)'
    BY <1>3, <2>8 DEF RemoveMain, NoRemove, TableInv, TablesInHand, InHand
  <2>9. ASSUME NEW h \in File, kind'[h] = "table", h \notin GivenUp' PROVE Safe(h)'
    BY <1>3, <2>9, <2>2, <2>3 DEF RemoveMain, NoRemove, TableInv, TablesSafe, Safe, Uploaded
  <2> QED BY <2>4, <2>5, <2>6, <2>7, <2>8, <2>9 DEF TableInv, TypeOK, TablesInHand, TablesSafe
<1> QED BY <1>1, <1>2, <1>3 DEF RemoveStep

\* The background loop reads pendingDir.
LEMMA ScanKeeps ==
  ASSUME TableInv,
         \/ BgTick \/ BgLastPass \/ BgQueue \/ BgEnds \/ BgStops
         \/ \E f \in File : BgRead(f) \/ BgCheck(f)
  PROVE  TableInv'
<1> USE FilesAssumption
    DEF s3Vars, diskVars, sessionVars, flagVars, writerVars, scanVars, loopVars, histVars,
        outsideWriter, outsideRemove, outsideLoop, outsideApi, outsideLock, Recovering, GivenUp
<1>1. CASE BgTick
  <2>1. TypeOK'
    BY <1>1
    DEF BgTick, MayRetry, PendingFiles, TableInv, TypeOK, StoreTypeOK, CopyTypeOK, ControlTypeOK
  <2>2. ReadKnown' /\ LoopRests' /\ RemoverKnown'
    BY <1>1 DEF BgTick, MayRetry, PendingFiles, TableInv, ReadKnown, LoopRests, RemoverKnown, Up
  <2>3. TablesInHand' /\ TablesSafe'
    BY <1>1
    DEF BgTick, MayRetry, PendingFiles, TableInv, TablesInHand, InHand, TablesSafe, Safe,
        Uploaded
  <2> QED BY <2>1, <2>2, <2>3 DEF TableInv
<1>2. CASE BgLastPass
  <2>1. TypeOK'
    BY <1>2
    DEF BgLastPass, MayRetry, PendingFiles, TableInv, TypeOK, StoreTypeOK, CopyTypeOK,
        ControlTypeOK
  <2>2. ReadKnown' /\ LoopRests' /\ RemoverKnown'
    BY <1>2
    DEF BgLastPass, MayRetry, PendingFiles, TableInv, ReadKnown, LoopRests, RemoverKnown, Up
  <2>3. TablesInHand' /\ TablesSafe'
    BY <1>2
    DEF BgLastPass, MayRetry, PendingFiles, TableInv, TablesInHand, InHand, TablesSafe, Safe,
        Uploaded
  <2> QED BY <2>1, <2>2, <2>3 DEF TableInv
<1>3. ASSUME NEW f \in File, BgRead(f) PROVE TableInv'
  <2>1. TypeOK'
    BY <1>3, ContentsAt DEF BgRead, TableInv, TypeOK, StoreTypeOK, CopyTypeOK, ControlTypeOK
  <2>2. ReadKnown' /\ LoopRests' /\ RemoverKnown'
    BY <1>3, ContentsAt
    DEF BgRead, TableInv, TypeOK, StoreTypeOK, ControlTypeOK, ReadKnown, LoopRests,
        RemoverKnown, Up
  <2>3. TablesInHand' /\ TablesSafe'
    BY <1>3 DEF BgRead, TableInv, TablesInHand, InHand, TablesSafe, Safe, Uploaded
  <2> QED BY <2>1, <2>2, <2>3 DEF TableInv
<1>4. ASSUME NEW f \in File, BgCheck(f) PROVE TableInv'
  <2>1. cur.version \in 0..MaxVersion[f] /\ cur.version > 0 /\ node \in Node /\ batch \in Contents
    BY <1>4 DEF BgCheck, TableInv, TypeOK, CopyTypeOK, ControlTypeOK, ReadKnown
  <2>2. [batch EXCEPT ![f] = cur.version] \in Contents
    BY <2>1, ContentsPut
  <2>3. batch' \in Contents /\ \A h \in File : batch'[h] = batch[h] \/ batch'[h] > 0
    BY <1>4, <2>1, <2>2, ContentsAt DEF BgCheck
  <2>4. \/ UNCHANGED <<pend, cksum>>
        \/ DropPending(f) /\ ~ChecksumFits(f, cur.version)
    BY <1>4 DEF BgCheck
  <2>5. /\ pend' \in [Node -> Contents] /\ cksum' \in [Node -> Versions]
        /\ \A n \in Node, h \in File :
              /\ cksum'[n][h] \in {0, cksum[n][h]}
              /\ pend'[n][h] = pend[n][h] \/ (h = f /\ ~ChecksumFits(f, cur.version))
    <3>1. CASE UNCHANGED <<pend, cksum>>
      BY <3>1 DEF TableInv, TypeOK, StoreTypeOK
    <3>2. CASE DropPending(f) /\ ~ChecksumFits(f, cur.version)
      BY <3>2, DropLeaves DEF TableInv
    <3> QED BY <2>4, <3>1, <3>2
  <2>6. kind[f] = "table" /\ ~TornChecksum => ChecksumFits(f, cur.version)
    BY <2>1, TableChecksumFits DEF TableInv
  <2>7. StoreTypeOK'
    BY <1>4, <2>5 DEF BgCheck, TableInv, TypeOK, StoreTypeOK
  <2>8. CopyTypeOK'
    BY <1>4, <2>3 DEF BgCheck, ChecksumFits, NoRead, TableInv, TypeOK, CopyTypeOK
  <2>9. ControlTypeOK'
    BY <1>4 DEF BgCheck, ChecksumFits, NoRead, TableInv, TypeOK, ControlTypeOK
  <2>10. ReadKnown' /\ LoopRests' /\ RemoverKnown'
    BY <1>4 DEF BgCheck, ChecksumFits, NoRead, TableInv, ReadKnown, LoopRests, RemoverKnown, Up
  <2>11. ASSUME NEW h \in File, kind'[h] = "table" PROVE InHand(h)'
    BY <1>4, <2>11, <2>3 DEF BgCheck, ChecksumFits, NoRead, TableInv, TablesInHand, InHand
  <2>12. ASSUME NEW h \in File, kind'[h] = "table", h \notin GivenUp' PROVE Safe(h)'
    BY <1>4, <2>12, <2>5, <2>6 DEF BgCheck, TableInv, TablesSafe, Safe, Uploaded
  <2> QED BY <2>7, <2>8, <2>9, <2>10, <2>11, <2>12
          DEF TableInv, TypeOK, TablesInHand, TablesSafe
<1>5. CASE BgQueue
  <2>1. TypeOK'
    BY <1>5 DEF BgQueue, TableInv, TypeOK, StoreTypeOK, CopyTypeOK, ControlTypeOK, JobAt
  <2>2. ReadKnown' /\ LoopRests' /\ RemoverKnown'
    BY <1>5 DEF BgQueue, TableInv, ReadKnown, LoopRests, RemoverKnown, Up
  <2>3. TablesInHand' /\ TablesSafe'
    BY <1>5, ContentsAt
    DEF BgQueue, TableInv, TypeOK, CopyTypeOK, TablesInHand, InHand, TablesSafe, Safe, Uploaded
  <2> QED BY <2>1, <2>2, <2>3 DEF TableInv
<1>6. CASE BgEnds
  <2>1. TypeOK'
    BY <1>6, NothingFits DEF BgEnds, TableInv, TypeOK, StoreTypeOK, CopyTypeOK, ControlTypeOK
  <2>2. ReadKnown' /\ LoopRests' /\ RemoverKnown'
    BY <1>6 DEF BgEnds, TableInv, ReadKnown, LoopRests, RemoverKnown, Up
  <2>3. TablesInHand' /\ TablesSafe'
    BY <1>6, NothingFits
    DEF BgEnds, TableInv, TablesInHand, InHand, TablesSafe, Safe, Uploaded, LoopRests, Up
  <2> QED BY <2>1, <2>2, <2>3 DEF TableInv
<1>7. CASE BgStops
  <2>1. TypeOK'
    BY <1>7 DEF BgStops, TableInv, TypeOK, StoreTypeOK, CopyTypeOK, ControlTypeOK
  <2>2. ReadKnown' /\ LoopRests' /\ RemoverKnown'
    BY <1>7 DEF BgStops, TableInv, ReadKnown, LoopRests, RemoverKnown, Up
  <2>3. TablesInHand' /\ TablesSafe'
    BY <1>7 DEF BgStops, TableInv, TablesInHand, InHand, TablesSafe, Safe, Uploaded
  <2> QED BY <2>1, <2>2, <2>3 DEF TableInv
<1> QED BY <1>1, <1>2, <1>3, <1>4, <1>5, <1>6, <1>7

\* The upload goroutines.
LEMMA JobKeeps ==
  ASSUME TableInv, NEW f \in File, JobStep(f)
  PROVE  TableInv'
<1> USE FilesAssumption
    DEF s3Vars, diskVars, sessionVars, flagVars, writerVars, scanVars, loopVars, histVars,
        outsideWriter, outsideRemove, outsideLoop, outsideApi, outsideLock, Recovering, GivenUp
<1>1. CASE JobStart(f)
  <2>1. TypeOK'
    BY <1>1 DEF JobStart, TableInv, TypeOK, StoreTypeOK, CopyTypeOK, ControlTypeOK, JobAt
  <2>2. ReadKnown' /\ LoopRests' /\ RemoverKnown'
    BY <1>1 DEF JobStart, TableInv, ReadKnown, LoopRests, RemoverKnown, Up
  <2>3. TablesInHand' /\ TablesSafe'
    BY <1>1 DEF JobStart, TableInv, TablesInHand, InHand, TablesSafe, Safe, Uploaded
  <2> QED BY <2>1, <2>2, <2>3 DEF TableInv
<1>2. CASE JobTry(f)
  <2>1. StoreTypeOK'
    BY <1>2 DEF JobTry, TableInv, TypeOK, StoreTypeOK
  <2>2. CopyTypeOK'
    BY <1>2 DEF JobTry, TableInv, TypeOK, CopyTypeOK
  <2>3. ControlTypeOK'
    BY <1>2 DEF JobTry, TableInv, TypeOK, ControlTypeOK, JobAt
  <2>4. ReadKnown' /\ LoopRests' /\ RemoverKnown'
    BY <1>2 DEF JobTry, TableInv, ReadKnown, LoopRests, RemoverKnown, Up
  <2>5. ASSUME NEW h \in File, kind'[h] = "table" PROVE InHand(h)'
    BY <1>2, <2>5 DEF JobTry, TableInv, TypeOK, ControlTypeOK, TablesInHand, InHand
  <2>6. ASSUME NEW h \in File, kind'[h] = "table", h \notin GivenUp' PROVE Safe(h)'
    BY <1>2, <2>6 DEF JobTry, TableInv, TypeOK, ControlTypeOK, TablesSafe, Safe, Uploaded
  <2> QED BY <2>1, <2>2, <2>3, <2>4, <2>5, <2>6 DEF TableInv, TypeOK, TablesInHand, TablesSafe
<1>3. CASE JobPutOk(f)
  <2>1. TypeOK'
    BY <1>3, ContentsAt
    DEF JobPutOk, TableInv, TypeOK, StoreTypeOK, CopyTypeOK, ControlTypeOK, Versions, JobAt
  <2>2. ReadKnown' /\ LoopRests' /\ RemoverKnown'
    BY <1>3 DEF JobPutOk, TableInv, ReadKnown, LoopRests, RemoverKnown, Up
  <2>3. TablesInHand' /\ TablesSafe'
    BY <1>3
    DEF JobPutOk, TableInv, TypeOK, StoreTypeOK, TablesInHand, InHand, TablesSafe, Safe,
        Uploaded, Versions
  <2> QED BY <2>1, <2>2, <2>3 DEF TableInv
<1>4. CASE JobPutFails(f)
  <2>1. batch[f] \in Nat /\ batch[f] <= MaxVersion[f] /\ (kind[f] = "table" => batch[f] > 0)
    BY <1>4, ContentsAt DEF JobPutFails, TableInv, TypeOK, CopyTypeOK, TablesInHand, InHand
  <2>2. /\ main' \in Versions
        /\ \A h \in File :
              /\ main'[h] = main[h] \/ (h = f /\ main'[h] = batch[f])
              /\ main'[h] <= MaxVersion[h] \/ kind[h] = "manifest"
    BY <1>4, <2>1, MainWritten DEF JobPutFails, TableInv
  <2>3. StoreTypeOK'
    BY <1>4, <2>2 DEF JobPutFails, TableInv, TypeOK, StoreTypeOK
  <2>4. CopyTypeOK'
    BY <1>4 DEF JobPutFails, TableInv, TypeOK, CopyTypeOK
  <2>5. ControlTypeOK'
    BY <1>4 DEF JobPutFails, TableInv, TypeOK, ControlTypeOK, JobAt
  <2>6. ReadKnown' /\ LoopRests' /\ RemoverKnown'
    BY <1>4 DEF JobPutFails, TableInv, ReadKnown, LoopRests, RemoverKnown, Up
  <2>7. ASSUME NEW h \in File, kind'[h] = "table" PROVE InHand(h)'
    BY <1>4, <2>7 DEF JobPutFails, TableInv, TablesInHand, InHand
  <2>8. ASSUME NEW h \in File, kind'[h] = "table", h \notin GivenUp' PROVE Safe(h)'
    BY <1>4, <2>8, <2>1, <2>2 DEF JobPutFails, TableInv, TablesSafe, Safe, Uploaded
  <2> QED BY <2>3, <2>4, <2>5, <2>6, <2>7, <2>8 DEF TableInv, TypeOK, TablesInHand, TablesSafe
<1>5. CASE JobDropsPending(f)
  <2>1. /\ pend' \in [Node -> Contents] /\ cksum' \in [Node -> Versions]
        /\ \A n \in Node, h \in File : cksum'[n][h] \in {0, cksum[n][h]}
    BY <1>5, DropLeaves DEF JobDropsPending, TableInv
  <2>2. StoreTypeOK'
    BY <1>5, <2>1 DEF JobDropsPending, TableInv, TypeOK, StoreTypeOK
  <2>3. CopyTypeOK'
    BY <1>5, DropLeaves DEF JobDropsPending, TableInv, TypeOK, CopyTypeOK
  <2>4. ControlTypeOK'
    BY <1>5 DEF JobDropsPending, TableInv, TypeOK, ControlTypeOK, JobAt
  <2>5. ReadKnown' /\ LoopRests' /\ RemoverKnown'
    BY <1>5 DEF JobDropsPending, TableInv, ReadKnown, LoopRests, RemoverKnown, Up
  <2>6. ASSUME NEW h \in File, kind'[h] = "table" PROVE InHand(h)'
    BY <1>5, <2>6, DropLeaves DEF JobDropsPending, TableInv, TablesInHand, InHand
  <2>7. ASSUME NEW h \in File, kind'[h] = "table", h \notin GivenUp' PROVE Safe(h)'
    BY <1>5, <2>7, DropLeaves
    DEF JobDropsPending, TableInv, StoreTypeOK, TablesSafe, Safe, Uploaded
  <2> QED BY <2>2, <2>3, <2>4, <2>5, <2>6, <2>7 DEF TableInv, TypeOK, TablesInHand, TablesSafe
<1>6. CASE JobEnds(f)
  <2>1. TypeOK'
    BY <1>6, ShadowCleaned
    DEF JobEnds, TableInv, TypeOK, StoreTypeOK, CopyTypeOK, ControlTypeOK, JobAt
  <2>2. ReadKnown' /\ LoopRests' /\ RemoverKnown'
    BY <1>6 DEF JobEnds, TableInv, ReadKnown, LoopRests, RemoverKnown, Up
  <2>3. TablesInHand' /\ TablesSafe'
    BY <1>6, ShadowCleaned
    DEF JobEnds, TableInv, TablesInHand, InHand, TablesSafe, Safe, Uploaded
  <2> QED BY <2>1, <2>2, <2>3 DEF TableInv
<1> QED BY <1>1, <1>2, <1>3, <1>4, <1>5, <1>6 DEF JobStep

\* RetryPendingUploads.
LEMMA ApiKeeps ==
  ASSUME TableInv, ApiStep
  PROVE  TableInv'
<1> USE FilesAssumption
    DEF s3Vars, diskVars, sessionVars, flagVars, writerVars, scanVars, loopVars, histVars,
        outsideWriter, outsideRemove, outsideLoop, outsideApi, outsideLock, Recovering, GivenUp
<1>1. ASSUME NEW f \in File, ApiRead(f) PROVE TableInv'
  <2>1. TypeOK'
    BY <1>1, ContentsAt
    DEF ApiRead, Idle, TableInv, TypeOK, StoreTypeOK, CopyTypeOK, ControlTypeOK
  <2>2. ReadKnown' /\ LoopRests' /\ RemoverKnown'
    BY <1>1, ContentsAt
    DEF ApiRead, Idle, TableInv, TypeOK, StoreTypeOK, ControlTypeOK, ReadKnown, LoopRests,
        RemoverKnown, Up
  <2>3. TablesInHand' /\ TablesSafe'
    BY <1>1 DEF ApiRead, Idle, TableInv, TablesInHand, InHand, TablesSafe, Safe, Uploaded
  <2> QED BY <2>1, <2>2, <2>3 DEF TableInv
<1>2. ASSUME NEW f \in File, ApiReadChecksum(f) PROVE TableInv'
  <2>1. TypeOK'
    BY <1>2
    DEF ApiReadChecksum, Idle, Garbled, TableInv, TypeOK, StoreTypeOK, CopyTypeOK, ControlTypeOK
  <2>2. ReadKnown' /\ LoopRests' /\ RemoverKnown'
    BY <1>2 DEF ApiReadChecksum, Idle, Garbled, TableInv, ReadKnown, LoopRests, RemoverKnown, Up
  <2>3. TablesInHand' /\ TablesSafe'
    BY <1>2
    DEF ApiReadChecksum, Idle, Garbled, TableInv, TablesInHand, InHand, TablesSafe, Safe,
        Uploaded
  <2> QED BY <2>1, <2>2, <2>3 DEF TableInv
<1>3. CASE ApiPut
  <2>1. /\ api.file \in File /\ api.version \in Nat /\ MaybePut(main, main', api.file, api.version)
        /\ kind[api.file] # "manifest" => api.version <= MaxVersion[api.file] /\ api.version > 0
    BY <1>3 DEF ApiPut, MaybePut, TableInv, TypeOK, ControlTypeOK, ReadKnown
  <2>2. /\ main' \in Versions
        /\ \A h \in File :
              /\ main'[h] = main[h] \/ (h = api.file /\ main'[h] = api.version)
              /\ main'[h] <= MaxVersion[h] \/ kind[h] = "manifest"
    BY <2>1, MainWritten DEF TableInv
  <2>3. StoreTypeOK'
    BY <1>3, <2>2 DEF ApiPut, TableInv, TypeOK, StoreTypeOK
  <2>4. CopyTypeOK'
    BY <1>3 DEF ApiPut, Idle, TableInv, TypeOK, CopyTypeOK
  <2>5. ControlTypeOK'
    BY <1>3 DEF ApiPut, Idle, TableInv, TypeOK, ControlTypeOK
  <2>6. ReadKnown' /\ LoopRests' /\ RemoverKnown'
    BY <1>3
    DEF ApiPut, Idle, TableInv, TypeOK, ControlTypeOK, ReadKnown, LoopRests, RemoverKnown, Up
  <2>7. ASSUME NEW h \in File, kind'[h] = "table" PROVE InHand(h)'
    BY <1>3, <2>7 DEF ApiPut, Idle, TableInv, TablesInHand, InHand
  <2>8. ASSUME NEW h \in File, kind'[h] = "table", h \notin GivenUp' PROVE Safe(h)'
    BY <1>3, <2>8, <2>1, <2>2
    DEF ApiPut, Idle, TableInv, TypeOK, ControlTypeOK, TablesSafe, Safe, Uploaded, Versions
  <2> QED BY <2>3, <2>4, <2>5, <2>6, <2>7, <2>8 DEF TableInv, TypeOK, TablesInHand, TablesSafe
<1>4. CASE ApiDropsPending
  <2>1. /\ api.file \in File /\ api.step = "rm"
        /\ kind[api.file] # "manifest" => api.version <= MaxVersion[api.file] /\ api.version > 0
    BY <1>4 DEF ApiDropsPending, TableInv, TypeOK, ControlTypeOK, ReadKnown
  <2>2. 0 \in Nat /\ 0 \in 0..MaxVersion[api.file]
    BY <2>1
  <2>3. /\ cksum' \in [Node -> Versions]
        /\ \A n \in Node, h \in File : cksum'[n][h] \in {0, cksum[n][h]}
    BY <1>4, <2>1, ChecksumDropped DEF ApiDropsPending, TableInv
  <2>4. /\ pend' \in [Node -> Contents]
        /\ \A n \in Node, h \in File : pend'[n][h] = pend[n][h] \/ h = api.file
    BY <1>4, <2>1, PendingWritten DEF ApiDropsPending, TableInv, TypeOK, StoreTypeOK
  <2>5. StoreTypeOK'
    BY <1>4, <2>3, <2>4 DEF ApiDropsPending, TableInv, TypeOK, StoreTypeOK
  <2>6. CopyTypeOK'
    BY <1>4 DEF ApiDropsPending, Idle, Garbled, TableInv, TypeOK, CopyTypeOK
  <2>7. ControlTypeOK'
    BY <1>4 DEF ApiDropsPending, Idle, Garbled, TableInv, TypeOK, ControlTypeOK
  <2>8. ReadKnown' /\ LoopRests' /\ RemoverKnown'
    BY <1>4 DEF ApiDropsPending, Idle, Garbled, TableInv, ReadKnown, LoopRests, RemoverKnown, Up
  <2>9. ASSUME NEW h \in File, kind'[h] = "table" PROVE InHand(h)'
    BY <1>4, <2>9 DEF ApiDropsPending, Idle, Garbled, TableInv, TablesInHand, InHand
  <2>10. ASSUME NEW h \in File, kind'[h] = "table", h \notin GivenUp' PROVE Safe(h)'
    BY <1>4, <2>10, <2>4
    DEF ApiDropsPending, Idle, Garbled, TableInv, TablesSafe, Safe, Uploaded
  <2> QED BY <2>5, <2>6, <2>7, <2>8, <2>9, <2>10 DEF TableInv, TypeOK, TablesInHand, TablesSafe
<1> QED BY <1>1, <1>2, <1>3, <1>4 DEF ApiStep

\* Lock() and its recovery, when it succeeds.
LEMMA RecoveryKeeps ==
  ASSUME TableInv,
         \/ \E n \in Node : LockAcquired(n)
         \/ \E f \in File : FetchShadow(f) \/ PushPending(f) \/ PushCache(f)
         \/ RecoverScan \/ PushDone \/ LockReturns
  PROVE  TableInv'
<1> USE FilesAssumption
    DEF s3Vars, diskVars, sessionVars, flagVars, writerVars, scanVars, loopVars, histVars,
        outsideWriter, outsideRemove, outsideLoop, outsideApi, outsideLock, Recovering, GivenUp
<1>1. ASSUME NEW n \in Node, LockAcquired(n) PROVE TableInv'
  <2>1. TypeOK'
    BY <1>1 DEF LockAcquired, TableInv, TypeOK, StoreTypeOK, CopyTypeOK, ControlTypeOK
  <2>2. ReadKnown' /\ LoopRests' /\ RemoverKnown'
    BY <1>1 DEF LockAcquired, TableInv, ReadKnown, LoopRests, RemoverKnown, Up
  <2>3. TablesInHand' /\ TablesSafe'
    BY <1>1 DEF LockAcquired, TableInv, TablesInHand, InHand, TablesSafe, Safe, Uploaded
  <2> QED BY <2>1, <2>2, <2>3 DEF TableInv
<1>2. ASSUME NEW f \in File, FetchShadow(f) PROVE TableInv'
  <2>1. shadow[f] \in 0..MaxVersion[f]
    BY ContentsAt DEF TableInv, TypeOK, StoreTypeOK
  <2>2. \/ UNCHANGED <<pend, cksum>>
        \/ shadow[f] # 0 /\ pend' = OnDisk(pend, f, shadow[f]) /\ WriteChecksum(f, shadow[f])
    BY <1>2 DEF FetchShadow
  <2>3. /\ pend' \in [Node -> Contents] /\ cksum' \in [Node -> Versions]
        /\ TornChecksum \/ \A n \in Node, h \in File : cksum'[n][h] <= MaxVersion[h]
        /\ \A n \in Node, h \in File : pend'[n][h] = pend[n][h] \/ pend'[n][h] > 0
    <3>1. CASE UNCHANGED <<pend, cksum>>
      BY <3>1 DEF TableInv, TypeOK, StoreTypeOK
    <3>2. CASE shadow[f] # 0 /\ pend' = OnDisk(pend, f, shadow[f]) /\ WriteChecksum(f, shadow[f])
      BY <2>1, <3>2, PendingWritten, ChecksumWritten DEF TableInv
    <3> QED BY <2>2, <3>1, <3>2
  <2>4. StoreTypeOK'
    BY <1>2, <2>3 DEF FetchShadow, TableInv, TypeOK, StoreTypeOK
  <2>5. CopyTypeOK'
    BY <1>2 DEF FetchShadow, TableInv, TypeOK, CopyTypeOK
  <2>6. ControlTypeOK'
    BY <1>2 DEF FetchShadow, TableInv, TypeOK, ControlTypeOK
  <2>7. ReadKnown' /\ LoopRests' /\ RemoverKnown'
    BY <1>2 DEF FetchShadow, TableInv, ReadKnown, LoopRests, RemoverKnown, Up
  <2>8. ASSUME NEW h \in File, kind'[h] = "table" PROVE InHand(h)'
    BY <1>2, <2>8 DEF FetchShadow, TableInv, TablesInHand, InHand
  <2>9. ASSUME NEW h \in File, kind'[h] = "table", h \notin GivenUp' PROVE Safe(h)'
    BY <1>2, <2>9, <2>3 DEF FetchShadow, TableInv, TablesSafe, Safe, Uploaded
  <2> QED BY <2>4, <2>5, <2>6, <2>7, <2>8, <2>9 DEF TableInv, TypeOK, TablesInHand, TablesSafe
<1>3. CASE RecoverScan
  <2>1. \A h \in File : pend[node][h] \in 0..MaxVersion[h]
    BY ContentsAt DEF TableInv, TypeOK, StoreTypeOK, ControlTypeOK
  <2>2. PICK bad \in SUBSET PendingFiles :
        /\ \A h \in bad : ~ChecksumFits(h, pend[node][h])
        /\ pend' = [pend EXCEPT ![node] = [h \in File |-> IF h \in bad THEN 0 ELSE pend[node][h]]]
        /\ cksum' = [cksum EXCEPT ![node] =
                        [h \in File |-> IF h \in bad THEN 0 ELSE cksum[node][h]]]
        /\ found' = [h \in File |-> IF h \in PendingFiles \ bad THEN pend[node][h] ELSE 0]
        /\ todo' = PendingFiles \ bad
        /\ phase = "shadow" /\ phase' = "push"
        /\ UNCHANGED <<s3Vars, cache, node, beside, loopVars, outsideLock>>
    <3> DEFINE sound == {h \in PendingFiles : ChecksumFits(h, pend[node][h])}
    <3>1. PendingFiles \ (PendingFiles \ sound) = sound
      OBVIOUS
    <3> WITNESS PendingFiles \ sound \in SUBSET PendingFiles
    <3> QED BY <1>3, <3>1 DEF RecoverScan
  <2>3. /\ pend' \in [Node -> Versions]
        /\ \A n \in Node, h \in File :
              pend'[n][h] = IF n = node /\ h \in bad THEN 0 ELSE pend[n][h]
    <3>1. pend \in [Node -> Versions] /\ node \in Node
      BY DiskIsVersions DEF TableInv, TypeOK, StoreTypeOK, ControlTypeOK
    <3>2. pend' = [pend EXCEPT ![node] = [h \in File |-> IF h \in bad THEN 0 ELSE pend[node][h]]]
      BY <2>2
    <3> QED BY <3>1, <3>2, DropAll
  <2>4. /\ cksum' \in [Node -> Versions]
        /\ \A n \in Node, h \in File :
              cksum'[n][h] = IF n = node /\ h \in bad THEN 0 ELSE cksum[n][h]
    <3>1. cksum \in [Node -> Versions] /\ node \in Node
      BY DEF TableInv, TypeOK, StoreTypeOK, ControlTypeOK
    <3>2. cksum' = [cksum EXCEPT ![node] =
                      [h \in File |-> IF h \in bad THEN 0 ELSE cksum[node][h]]]
      BY <2>2
    <3> QED BY <3>1, <3>2, DropAll
  <2>5. pend' \in [Node -> Contents]
    BY <2>3 DEF TableInv, TypeOK, StoreTypeOK, Contents
  <2>6. \A h \in PendingFiles : h \in File /\ pend[node][h] > 0
    BY <2>1 DEF PendingFiles
  <2>7. StoreTypeOK'
    BY <2>2, <2>4, <2>5 DEF TableInv, TypeOK, StoreTypeOK
  <2>8. CopyTypeOK'
    BY <2>1, <2>2 DEF TableInv, TypeOK, CopyTypeOK, Contents, Versions
  <2>9. ControlTypeOK'
    BY <2>2, <2>6 DEF TableInv, TypeOK, ControlTypeOK
  <2>10. ReadKnown' /\ LoopRests' /\ RemoverKnown'
    BY <2>2 DEF TableInv, ReadKnown, LoopRests, RemoverKnown, Up
  <2>11. ASSUME NEW h \in File, kind'[h] = "table" PROVE InHand(h)'
    BY <2>11, <2>2, <2>6 DEF TableInv, TablesInHand, InHand, LoopRests, Up
  <2>12. ASSUME NEW h \in File, kind'[h] = "table", h \notin GivenUp' PROVE Safe(h)'
    <3>1. ~TornChecksum => h \notin bad
      BY <2>12, <2>1, <2>2, <2>6, TableChecksumFits DEF TableInv
    <3> QED BY <2>12, <2>2, <2>3, <3>1 DEF TableInv, TablesSafe, Safe, Uploaded
  <2> QED BY <2>7, <2>8, <2>9, <2>10, <2>11, <2>12
          DEF TableInv, TypeOK, TablesInHand, TablesSafe
<1>4. ASSUME NEW f \in File, PushPending(f) PROVE TableInv'
  <2>1. /\ found[f] \in Nat /\ found[f] <= MaxVersion[f]
        /\ kind[f] = "table" => found[f] > 0
    BY <1>4, ContentsAt DEF PushPending, TableInv, TypeOK, CopyTypeOK, TablesInHand, InHand
  <2>2. /\ main' \in Versions
        /\ \A h \in File :
              /\ main'[h] = main[h] \/ (h = f /\ main'[h] = found[f])
              /\ main'[h] <= MaxVersion[h] \/ kind[h] = "manifest"
    BY <1>4, <2>1, MainWritten DEF PushPending, MaybePut, TableInv
  <2>3. \/ UNCHANGED <<shadow, pend, cksum>>
        \/ DropPending(f) /\ CleanShadow(f) /\ main'[f] = found[f]
    BY <1>4 DEF PushPending, TableInv, TypeOK, StoreTypeOK, Versions
  <2>4. /\ pend' \in [Node -> Contents] /\ cksum' \in [Node -> Versions] /\ shadow' \in Contents
        /\ \A n \in Node, h \in File :
              /\ cksum'[n][h] \in {0, cksum[n][h]}
              /\ pend'[n][h] = pend[n][h] \/ (h = f /\ main'[f] = found[f])
              /\ shadow'[h] = shadow[h] \/ (h = f /\ main'[f] = found[f])
    <3>1. CASE UNCHANGED <<shadow, pend, cksum>>
      BY <3>1 DEF TableInv, TypeOK, StoreTypeOK
    <3>2. CASE DropPending(f) /\ CleanShadow(f) /\ main'[f] = found[f]
      BY <3>2, DropLeaves, ShadowCleaned DEF TableInv
    <3> QED BY <2>3, <3>1, <3>2
  <2>5. StoreTypeOK'
    BY <1>4, <2>2, <2>4 DEF PushPending, TableInv, TypeOK, StoreTypeOK
  <2>6. CopyTypeOK'
    BY <1>4 DEF PushPending, TableInv, TypeOK, CopyTypeOK
  <2>7. ControlTypeOK'
    BY <1>4 DEF PushPending, TableInv, TypeOK, ControlTypeOK
  <2>8. ReadKnown' /\ LoopRests' /\ RemoverKnown'
    BY <1>4 DEF PushPending, TableInv, ReadKnown, LoopRests, RemoverKnown, Up
  <2>9. ASSUME NEW h \in File, kind'[h] = "table" PROVE InHand(h)'
    BY <1>4, <2>9 DEF PushPending, TableInv, TablesInHand, InHand
  <2>10. ASSUME NEW h \in File, kind'[h] = "table", h \notin GivenUp' PROVE Safe(h)'
    BY <1>4, <2>10, <2>1, <2>2, <2>4
    DEF PushPending, TableInv, TypeOK, ControlTypeOK, TablesSafe, Safe, Uploaded
  <2> QED BY <2>5, <2>6, <2>7, <2>8, <2>9, <2>10 DEF TableInv, TypeOK, TablesInHand, TablesSafe
<1>5. CASE PushDone
  <2>1. TypeOK'
    BY <1>5, NothingFits DEF PushDone, TableInv, TypeOK, StoreTypeOK, CopyTypeOK, ControlTypeOK
  <2>2. ReadKnown' /\ LoopRests' /\ RemoverKnown'
    BY <1>5 DEF PushDone, TableInv, ReadKnown, LoopRests, RemoverKnown, Up
  <2>3. TablesInHand' /\ TablesSafe'
    BY <1>5, NothingFits
    DEF PushDone, TableInv, TypeOK, ControlTypeOK, TablesInHand, InHand, TablesSafe, Safe,
        Uploaded, LoopRests, Up
  <2> QED BY <2>1, <2>2, <2>3 DEF TableInv
<1>6. ASSUME NEW f \in File, PushCache(f) PROVE TableInv'
  <2>1. TypeOK'
    BY <1>6, ContentsAt
    DEF PushCache, TableInv, TypeOK, StoreTypeOK, CopyTypeOK, ControlTypeOK, Versions
  <2>2. ReadKnown' /\ LoopRests' /\ RemoverKnown'
    BY <1>6 DEF PushCache, TableInv, ReadKnown, LoopRests, RemoverKnown, Up
  <2>3. TablesInHand' /\ TablesSafe'
    BY <1>6 DEF PushCache, TableInv, TablesInHand, InHand, TablesSafe, Safe, Uploaded
  <2> QED BY <2>1, <2>2, <2>3 DEF TableInv
<1>7. CASE LockReturns
  <2>1. TypeOK'
    BY <1>7 DEF LockReturns, TableInv, TypeOK, StoreTypeOK, CopyTypeOK, ControlTypeOK
  <2>2. ReadKnown' /\ LoopRests' /\ RemoverKnown'
    BY <1>7 DEF LockReturns, TableInv, ReadKnown, LoopRests, RemoverKnown, Up
  <2>3. TablesInHand' /\ TablesSafe'
    BY <1>7 DEF LockReturns, TableInv, TablesInHand, InHand, TablesSafe, Safe, Uploaded
  <2> QED BY <2>1, <2>2, <2>3 DEF TableInv
<1> QED BY <1>1, <1>2, <1>3, <1>4, <1>5, <1>6, <1>7

\* What a disk is after os.RemoveAll has emptied it of some files.
LEMMA Emptied ==
  ASSUME NEW S \in SUBSET File, node \in Node, NEW g \in [Node -> Versions], NEW g1,
         g1 = [g EXCEPT ![node] = [f \in File |-> IF f \in S THEN 0 ELSE g[node][f]]]
  PROVE  /\ g1 \in [Node -> Versions]
         /\ \A n \in Node, h \in File : g1[n][h] \in {0, g[n][h]}
         /\ \A n \in Node, h \in File : n # node => g1[n][h] = g[n][h]
         /\ g \in [Node -> Contents] => g1 \in [Node -> Contents]
<1>1. /\ g1 \in [Node -> Versions]
      /\ \A n \in Node, h \in File : g1[n][h] = IF n = node /\ h \in S THEN 0 ELSE g[n][h]
  BY DropAll
<1>2. ASSUME g \in [Node -> Contents], NEW n \in Node PROVE g1[n] \in Contents
  BY <1>1, <1>2, FilesAssumption DEF Contents, Versions
<1>3. ASSUME g \in [Node -> Contents] PROVE g1 \in [Node -> Contents]
  <2>1. \A n \in Node : g1[n] \in Contents
    BY <1>2, <1>3
  <2>2. g1 = [n \in Node |-> g1[n]]
    BY <1>1
  <2> QED BY <2>1, <2>2
<1> QED BY <1>1, <1>3

\* What the clean-up does to the disk, and what it counts as given up.
LEMMA Wiping ==
  ASSUME TypeOK, Wipe
  PROVE  /\ pend' \in [Node -> Contents] /\ cache' \in [Node -> Contents]
         /\ cksum' \in [Node -> Versions]
         /\ \A n \in Node, h \in File :
               /\ cksum'[n][h] \in {0, cksum[n][h]} /\ cache'[n][h] \in {0, cache[n][h]}
               /\ pend'[n][h] \in {0, pend[n][h]}
               /\ h \notin wiped' => pend'[n][h] = pend[n][h] /\ cache'[n][h] = cache[n][h]
         /\ todo' \subseteq File /\ wiped' \subseteq File /\ wiped \cup todo' \subseteq wiped'
         /\ \A h \in todo' : main[h] # 0
<1>1. /\ pend \in [Node -> Contents] /\ cache \in [Node -> Contents]
      /\ cksum \in [Node -> Versions] /\ node \in Node
      /\ pend \in [Node -> Versions] /\ cache \in [Node -> Versions] /\ wiped \subseteq File
  BY DiskIsVersions DEF TypeOK, StoreTypeOK, ControlTypeOK
<1>2. PICK C \in SUBSET File, P \in SUBSET File :
        /\ cache' = [cache EXCEPT ![node] = [f \in File |-> IF f \in C THEN 0 ELSE cache[node][f]]]
        /\ pend' = [pend EXCEPT ![node] = [f \in File |-> IF f \in P THEN 0 ELSE pend[node][f]]]
        /\ cksum' = [cksum EXCEPT ![node] = [f \in File |-> IF f \in P THEN 0 ELSE cksum[node][f]]]
  BY DEF Wipe
<1>3. /\ cache' \in [Node -> Contents] /\ \A n \in Node, h \in File : cache'[n][h] \in {0, cache[n][h]}
      /\ \A n \in Node, h \in File : n # node => cache'[n][h] = cache[n][h]
  <2>1. cache' = [cache EXCEPT ![node] = [f \in File |-> IF f \in C THEN 0 ELSE cache[node][f]]]
    BY <1>2
  <2> QED BY <1>1, <2>1, Emptied
<1>4. /\ pend' \in [Node -> Contents] /\ \A n \in Node, h \in File : pend'[n][h] \in {0, pend[n][h]}
      /\ \A n \in Node, h \in File : n # node => pend'[n][h] = pend[n][h]
  <2>1. pend' = [pend EXCEPT ![node] = [f \in File |-> IF f \in P THEN 0 ELSE pend[node][f]]]
    BY <1>2
  <2> QED BY <1>1, <2>1, Emptied
<1>5. cksum' \in [Node -> Versions] /\ \A n \in Node, h \in File : cksum'[n][h] \in {0, cksum[n][h]}
  <2>1. cksum' = [cksum EXCEPT ![node] = [f \in File |-> IF f \in P THEN 0 ELSE cksum[node][f]]]
    BY <1>2
  <2> QED BY <1>1, <2>1, Emptied
<1>6. /\ todo' \in {{f \in File : main[f] # 0}, {}}
      /\ wiped' = wiped \cup todo' \cup
                  {f \in File : cache'[node][f] # cache[node][f] \/ pend'[node][f] # pend[node][f]}
  BY DEF Wipe
<1>7. ASSUME NEW h \in File, h \notin wiped'
      PROVE  pend'[node][h] = pend[node][h] /\ cache'[node][h] = cache[node][h]
  BY <1>6, <1>7
<1>8. /\ todo' \subseteq File /\ wiped' \subseteq File /\ wiped \cup todo' \subseteq wiped'
      /\ \A h \in todo' : main[h] # 0
  BY <1>1, <1>6
<1> QED BY <1>3, <1>4, <1>5, <1>7, <1>8

\* The clean-up of Lock(): a put of a manifest, or the removal of everything.
LEMMA CleanupKeeps ==
  ASSUME TableInv, Wipe \/ \E f \in File : CleanupRestores(f) \/ WipeMain(f)
  PROVE  TableInv'
<1> USE FilesAssumption
    DEF s3Vars, diskVars, sessionVars, flagVars, writerVars, scanVars, loopVars, histVars,
        outsideWriter, outsideRemove, outsideLoop, outsideApi, outsideLock, Recovering, GivenUp
<1>1. ASSUME NEW f \in File, CleanupRestores(f) PROVE TableInv'
  <2>1. cache[node][f] \in 0..MaxVersion[f] /\ pend[node][f] \in 0..MaxVersion[f]
    BY ContentsAt DEF TableInv, TypeOK, StoreTypeOK, ControlTypeOK
  <2>2. PICK v \in 0..MaxVersion[f] : MaybePut(main, main', f, v)
    BY <1>1, <2>1 DEF CleanupRestores, MaybePut
  <2>3. /\ main' \in Versions
        /\ \A h \in File :
              /\ main'[h] = main[h] \/ h = f
              /\ main'[h] <= MaxVersion[h] \/ kind[h] = "manifest"
    BY <2>2, MainWritten DEF TableInv
  <2>4. /\ kind[f] = "manifest" /\ phase = "cache" /\ todo = {}
        /\ UNCHANGED <<pend, cksum>> \/ DropPending(f)
    BY <1>1 DEF CleanupRestores
  <2>5. /\ pend' \in [Node -> Contents] /\ cksum' \in [Node -> Versions]
        /\ \A n \in Node, h \in File :
              /\ cksum'[n][h] \in {0, cksum[n][h]}
              /\ pend'[n][h] = pend[n][h] \/ h = f
    <3>1. CASE UNCHANGED <<pend, cksum>>
      BY <3>1 DEF TableInv, TypeOK, StoreTypeOK
    <3>2. CASE DropPending(f)
      BY <3>2, DropLeaves DEF TableInv
    <3> QED BY <2>4, <3>1, <3>2
  <2>6. StoreTypeOK'
    BY <1>1, <2>3, <2>5 DEF CleanupRestores, TableInv, TypeOK, StoreTypeOK
  <2>7. CopyTypeOK' /\ ControlTypeOK'
    BY <1>1 DEF CleanupRestores, TableInv, TypeOK, CopyTypeOK, ControlTypeOK
  <2>8. ReadKnown' /\ LoopRests' /\ RemoverKnown'
    BY <1>1 DEF CleanupRestores, TableInv, ReadKnown, LoopRests, RemoverKnown, Up
  <2>9. ASSUME NEW h \in File, kind'[h] = "table" PROVE InHand(h)'
    BY <1>1, <2>9 DEF CleanupRestores, TableInv, TablesInHand, InHand
  <2>10. ASSUME NEW h \in File, kind'[h] = "table", h \notin GivenUp' PROVE Safe(h)'
    <3>1. h # f /\ main'[h] = main[h] /\ \A n \in Node : pend'[n][h] = pend[n][h]
      BY <1>1, <2>3, <2>4, <2>5, <2>10 DEF CleanupRestores
    <3> QED BY <1>1, <2>10, <3>1 DEF CleanupRestores, TableInv, TablesSafe, Safe, Uploaded
  <2> QED BY <2>6, <2>7, <2>8, <2>9, <2>10 DEF TableInv, TypeOK, TablesInHand, TablesSafe
<1>2. CASE Wipe
  <2>1. TypeOK
    BY DEF TableInv
  <2>2. StoreTypeOK'
    <3>1. UNCHANGED <<kind, main, shadow>>
      BY <1>2 DEF Wipe
    <3>2. /\ pend' \in [Node -> Contents] /\ cache' \in [Node -> Contents]
          /\ cksum' \in [Node -> Versions]
          /\ \A n \in Node, h \in File : cksum'[n][h] \in {0, cksum[n][h]}
      BY <1>2, <2>1, Wiping
    <3>3. ASSUME NEW n \in Node, NEW h \in File, ~TornChecksum PROVE cksum'[n][h] <= MaxVersion[h]
      BY <2>1, <3>2, <3>3 DEF TypeOK, StoreTypeOK
    <3> QED BY <2>1, <3>1, <3>2, <3>3 DEF TypeOK, StoreTypeOK
  <2>3. CopyTypeOK'
    BY <1>2 DEF Wipe, TableInv, TypeOK, CopyTypeOK
  <2>4. ControlTypeOK'
    BY <1>2, <2>1, Wiping DEF Wipe, TypeOK, ControlTypeOK
  <2>5. ReadKnown' /\ LoopRests' /\ RemoverKnown'
    BY <1>2, <2>1, Wiping DEF Wipe, TableInv, ReadKnown, LoopRests, RemoverKnown, Up
  <2>6. ASSUME NEW h \in File, kind'[h] = "table" PROVE InHand(h)'
    BY <1>2, <2>1, <2>6, Wiping DEF Wipe, TableInv, TablesInHand, InHand
  <2>7. ASSUME NEW h \in File, kind'[h] = "table", h \notin GivenUp' PROVE Safe(h)'
    <3>1. h \notin wiped' /\ h \notin GivenUp /\ \A n \in Node : pend'[n][h] = pend[n][h]
      BY <1>2, <2>1, <2>7, Wiping DEF Wipe
    <3> QED BY <1>2, <2>7, <3>1 DEF Wipe, TableInv, TablesSafe, Safe, Uploaded
  <2> QED BY <2>2, <2>3, <2>4, <2>5, <2>6, <2>7 DEF TableInv, TypeOK, TablesInHand, TablesSafe
<1>3. ASSUME NEW f \in File, WipeMain(f) PROVE TableInv'
  <2>1. f \in wiped
    BY <1>3 DEF WipeMain, TableInv, RemoverKnown
  <2>2. 0 \in Nat /\ 0 <= MaxVersion[f]
    BY FilesAssumption
  <2>3. /\ main' \in Versions
        /\ \A h \in File :
              /\ main'[h] = main[h] \/ h = f
              /\ main'[h] <= MaxVersion[h] \/ kind[h] = "manifest"
    BY <1>3, <2>2, MainWritten DEF WipeMain, TableInv
  <2>4. TypeOK'
    BY <1>3, <2>3 DEF WipeMain, TableInv, TypeOK, StoreTypeOK, CopyTypeOK, ControlTypeOK
  <2>5. ReadKnown' /\ LoopRests' /\ RemoverKnown'
    BY <1>3 DEF WipeMain, TableInv, ReadKnown, LoopRests, RemoverKnown, Up
  <2>6. ASSUME NEW h \in File, kind'[h] = "table" PROVE InHand(h)'
    BY <1>3, <2>6 DEF WipeMain, TableInv, TablesInHand, InHand
  <2>7. ASSUME NEW h \in File, kind'[h] = "table", h \notin GivenUp' PROVE Safe(h)'
    BY <1>3, <2>1, <2>3, <2>7 DEF WipeMain, TableInv, TablesSafe, Safe, Uploaded
  <2> QED BY <2>4, <2>5, <2>6, <2>7 DEF TableInv, TypeOK, TablesInHand, TablesSafe
<1> QED BY <1>1, <1>2, <1>3

\* The loss of the lease, Unlock, Close, the end of the process, a Lock() that
\* fails.
LEMMA SessionKeeps ==
  ASSUME TableInv, Unlock \/ LoseLease \/ Close \/ Crash \/ LockFails
  PROVE  TableInv'
<1> USE FilesAssumption
    DEF s3Vars, diskVars, sessionVars, flagVars, writerVars, scanVars, loopVars, histVars,
        outsideWriter, outsideRemove, outsideLoop, outsideApi, outsideLock, Recovering, GivenUp
<1>1. CASE LoseLease
  <2>1. TypeOK'
    BY <1>1 DEF LoseLease, TableInv, TypeOK, StoreTypeOK, CopyTypeOK, ControlTypeOK
  <2>2. ReadKnown' /\ LoopRests' /\ RemoverKnown'
    BY <1>1 DEF LoseLease, TableInv, ReadKnown, LoopRests, RemoverKnown, Up
  <2>3. TablesInHand' /\ TablesSafe'
    BY <1>1 DEF LoseLease, TableInv, TablesInHand, InHand, TablesSafe, Safe, Uploaded
  <2> QED BY <2>1, <2>2, <2>3 DEF TableInv
<1>2. CASE Close
  <2>1. TypeOK'
    BY <1>2 DEF Close, TableInv, TypeOK, StoreTypeOK, CopyTypeOK, ControlTypeOK
  <2>2. ReadKnown' /\ LoopRests' /\ RemoverKnown'
    BY <1>2 DEF Close, TableInv, ReadKnown, LoopRests, RemoverKnown, Up
  <2>3. TablesInHand' /\ TablesSafe'
    BY <1>2 DEF Close, TableInv, TablesInHand, InHand, TablesSafe, Safe, Uploaded
  <2> QED BY <2>1, <2>2, <2>3 DEF TableInv
<1>3. CASE Crash
  <2>1. TypeOK'
    BY <1>3, NothingFits
    DEF Crash, NoRemove, NoRead, Idle, TableInv, TypeOK, StoreTypeOK, CopyTypeOK,
        ControlTypeOK, WriterAt, JobAt
  <2>2. ReadKnown' /\ LoopRests' /\ RemoverKnown'
    BY <1>3 DEF Crash, NoRemove, NoRead, Idle, TableInv, ReadKnown, LoopRests, RemoverKnown
  <2>3. TablesInHand' /\ TablesSafe'
    BY <1>3, NothingFits
    DEF Crash, NoRemove, NoRead, Idle, TableInv, TypeOK, ControlTypeOK, TablesInHand, InHand,
        TablesSafe, Safe, Uploaded
  <2> QED BY <2>1, <2>2, <2>3 DEF TableInv
<1>4. CASE LockFails
  <2>1. /\ main' \in Versions
        /\ \A h \in File : main'[h] <= MaxVersion[h] \/ kind[h] = "manifest"
        /\ \A h \in File : kind[h] = "table" => main'[h] = main[h]
    <3>1. PICK g \in todo : phase = "cache" /\ MaybePut(main, main', g, cache[node][g])
      BY <1>4 DEF LockFails
    <3>2. /\ g \in File /\ cache[node][g] \in Nat
          /\ cache[node][g] <= MaxVersion[g] /\ kind[g] # "table"
      BY <3>1, ContentsAt DEF TableInv, TypeOK, StoreTypeOK, ControlTypeOK, TablesInHand, InHand
    <3> QED BY <3>1, <3>2, MainWritten DEF TableInv
  <2>2. TypeOK'
    BY <1>4, <2>1 DEF LockFails, TableInv, TypeOK, StoreTypeOK, CopyTypeOK, ControlTypeOK
  <2>3. ReadKnown' /\ LoopRests' /\ RemoverKnown'
    BY <1>4 DEF LockFails, TableInv, ReadKnown, LoopRests, RemoverKnown, Up
  <2>4. ASSUME NEW h \in File, kind'[h] = "table" PROVE InHand(h)'
    BY <1>4, <2>4 DEF LockFails, TableInv, TablesInHand, InHand
  <2>5. ASSUME NEW h \in File, kind'[h] = "table", h \notin GivenUp' PROVE Safe(h)'
    BY <1>4, <2>5, <2>1 DEF LockFails, TableInv, TablesSafe, Safe, Uploaded
  <2> QED BY <2>2, <2>3, <2>4, <2>5 DEF TableInv, TypeOK, TablesInHand, TablesSafe
<1>5. CASE Unlock
  <2>1. TypeOK'
    <3>1. StoreTypeOK' /\ CopyTypeOK'
      BY <1>5 DEF Unlock, TableInv, TypeOK, StoreTypeOK, CopyTypeOK
    <3>2. lockHeld' \in BOOLEAN
      BY <1>5, Zenon DEF Unlock, TableInv, TypeOK, ControlTypeOK
    <3>3. ControlTypeOK'
      BY <1>5, <3>2 DEF Unlock, TableInv, TypeOK, ControlTypeOK
    <3> QED BY <3>1, <3>3 DEF TypeOK
  <2>2. ReadKnown' /\ LoopRests' /\ RemoverKnown'
    BY <1>5 DEF Unlock, TableInv, ReadKnown, LoopRests, RemoverKnown, Up
  <2>3. TablesInHand' /\ TablesSafe'
    BY <1>5 DEF Unlock, TableInv, TablesInHand, InHand, TablesSafe, Safe, Uploaded
  <2> QED BY <2>1, <2>2, <2>3 DEF TableInv
<1> QED BY <1>1, <1>2, <1>3, <1>4, <1>5

\* Every step, and stuttering.
LEMMA InvNext == ASSUME TableInv, [Next]_vars PROVE TableInv'
<1>1. ASSUME NEW f \in File, WriterStep(f) PROVE TableInv'
  BY <1>1, WriterKeeps
<1>2. ASSUME NEW f \in File, RemoveStep(f) PROVE TableInv'
  BY <1>2, RemoveKeeps
<1>3. CASE LoopStep
  BY <1>3, ScanKeeps, JobKeeps DEF LoopStep
<1>4. CASE ApiStep
  BY <1>4, ApiKeeps DEF ApiStep
<1>5. CASE LockStep
  BY <1>5, RecoveryKeeps, CleanupKeeps, SessionKeeps DEF LockStep
<1>6. CASE Unlock \/ LoseLease \/ Close \/ Crash
  BY <1>6, SessionKeeps
<1>7. CASE UNCHANGED vars
  <2> USE <1>7
    DEF vars, s3Vars, diskVars, sessionVars, flagVars, writerVars, scanVars, loopVars, histVars,
        Recovering, GivenUp
  <2>1. TypeOK'
    BY DEF TableInv, TypeOK, StoreTypeOK, CopyTypeOK, ControlTypeOK
  <2>2. ReadKnown' /\ LoopRests' /\ RemoverKnown'
    BY DEF TableInv, ReadKnown, LoopRests, RemoverKnown, Up
  <2>3. TablesInHand' /\ TablesSafe'
    BY DEF TableInv, TablesInHand, InHand, TablesSafe, Safe, Uploaded
  <2> QED BY <2>1, <2>2, <2>3 DEF TableInv
<1> QED BY <1>1, <1>2, <1>3, <1>4, <1>5, <1>6, <1>7 DEF Next

\* Whatever the writers, the loop, RetryPendingUploads, the recovery, crashes
\* and lost answers do, in every number of sessions on every number of hosts:
\* the copies of a table are the table, and the last one goes only after it is
\* in S3, or by the clean-up in Lock(), which counts what it takes
\* (storage.go:479-556, 656-717, 752-807, 991-1055, 1212-1291, 1532-1573).
THEOREM TableInvHolds == Spec => []TableInv
<1>1. Init => TableInv
  BY InvInit
<1>2. TableInv /\ [Next]_vars => TableInv'
  BY InvNext
<1> QED BY <1>1, <1>2, PTL DEF Spec

\* A table whose Sync returned nil stays in S3 until Remove or the clean-up in
\* Lock() gives it up (storage.go:479-522, 1532-1573).
THEOREM SyncedTablesStay == Spec => []TableNeverLost
<1>1. TableInv => TableNeverLost
  <2> SUFFICES ASSUME TableInv, NEW f \in File, kind[f] = "table", f \notin GivenUp
               PROVE  main[f] >= acked[f]
    BY DEF TableNeverLost
  <2>1. acked[f] \in 0..1
    BY ContentsAt, TableOnce DEF TableInv, TypeOK, CopyTypeOK
  <2>2. main[f] \in Nat /\ (acked[f] > 0 => main[f] > 0)
    BY DEF TableInv, TypeOK, StoreTypeOK, TablesSafe, Safe, Versions
  <2> QED BY <2>1, <2>2
<1> QED BY <1>1, TableInvHolds, PTL

\* A table kept by persistToLocal stays in S3 or on a disk until it is given up,
\* if no checksum is torn (storage.go:524-556, 691-701).
THEOREM PersistedTablesStay == ASSUME ~TornChecksum PROVE Spec => []PersistedTableKept
<1>1. TableInv => PersistedTableKept
  BY DEF TableInv, TablesSafe, Safe, PersistedTableKept
<1> QED BY <1>1, TableInvHolds, PTL

\* A table with a shadow stays in S3 under one of its two names until it is given
\* up (storage.go:581-583, 1048-1049, 1268-1269).
THEOREM BackedTablesStay == Spec => []BackedTableKept
<1>1. TableInv => BackedTableKept
  BY DEF TableInv, TablesSafe, Safe, BackedTableKept
<1> QED BY <1>1, TableInvHolds, PTL

-----------------------------------------------------------------------------
(* The write path implements a store of tables                             *)

DurableStep == [Durable!Next]_(Durable!vars)

Same == UNCHANGED <<kind, main, acked, gone, wiped>>

\* A put of the table itself, done or not.
TablePut ==
    /\ UNCHANGED <<kind, acked, gone, wiped>>
    /\ \E f \in File, v \in Nat :
           MaybePut(main, main', f, v) /\ (kind[f] = "table" => v > 0)

LEMMA SameMaps == ASSUME Same PROVE DurableStep
  BY DEF Same, DurableStep, Durable!vars, TablesWith, GivenUp

LEMMA PutMaps == ASSUME TypeOK, TablePut PROVE DurableStep
<1>1. PICK f \in File, v \in Nat : MaybePut(main, main', f, v) /\ (kind[f] = "table" => v > 0)
  BY DEF TablePut
<1>2. main \in [File -> Nat]
  BY DEF TypeOK, StoreTypeOK, Versions
<1>3. CASE main' = main
  BY <1>3, SameMaps DEF TablePut, Same
<1>4. CASE main' = [main EXCEPT ![f] = v]
  <2>1. CASE kind[f] = "table"
    <3>1. TablesWith(main)' = TablesWith(main) \cup {f}
      BY <1>1, <1>2, <1>4, <2>1 DEF TablesWith, TablePut
    <3>2. TablesWith(acked)' = TablesWith(acked)
      BY DEF TablesWith, TablePut
    <3>3. Durable!Store(f)
      BY <3>1, <3>2 DEF Durable!Store, TablePut, GivenUp
    <3> QED BY <3>3 DEF DurableStep, Durable!Next
  <2>2. CASE kind[f] # "table"
    <3>1. TablesWith(main)' = TablesWith(main)
      BY <1>1, <1>2, <1>4, <2>2 DEF TablesWith, TablePut
    <3> QED BY <3>1 DEF DurableStep, Durable!vars, TablesWith, TablePut, GivenUp
  <2> QED BY <2>1, <2>2
<1> QED BY <1>1, <1>3, <1>4 DEF MaybePut

\* Sync returns nil: its table is in S3, or has been removed.
LEMMA SyncMaps ==
  ASSUME TableInv, NEW f \in File, UploadReturns(f) PROVE DurableStep
<1>1. /\ writer[f] = "clean" /\ acked' = [acked EXCEPT ![f] = buf[f]]
      /\ UNCHANGED <<kind, main, gone, wiped>>
  BY DEF UploadReturns, outsideWriter
<1>2. acked \in [File -> Nat] /\ buf \in [File -> Nat]
  BY DEF TableInv, TypeOK, CopyTypeOK, Contents, Versions
<1>3. CASE kind[f] = "table"
  <2>1. acked[f] \in 0..1 /\ buf[f] \in 0..1
    BY <1>3, ContentsAt, TableOnce DEF TableInv, TypeOK, CopyTypeOK
  <2>2. CASE buf[f] = 0
    <3>1. acked[f] = 0 \/ acked[f] = 1
      BY <2>1
    <3>2. CASE acked[f] = 0
      <4>1. acked' = acked
        BY <1>1, <1>2, <2>2, <3>2
      <4> QED BY <1>1, <4>1, SameMaps DEF Same
    <3>3. CASE acked[f] = 1
      <4>1. buf[f] > 0
        BY <1>1, <1>3 DEF TableInv, TablesInHand, InHand, Uploading
      <4> QED BY <2>2, <4>1
    <3> QED BY <3>1, <3>2, <3>3
  <2>3. CASE buf[f] > 0
    <3>1. TablesWith(acked)' = TablesWith(acked) \cup {f}
      BY <1>1, <1>2, <1>3, <2>3 DEF TablesWith
    <3>2. TablesWith(main)' = TablesWith(main)
      BY <1>1 DEF TablesWith
    <3>3. f \in TablesWith(main) \cup {h \in GivenUp : kind[h] = "table"}
      BY <1>1, <1>3 DEF TableInv, TablesSafe, Safe, Uploaded, TablesWith
    <3>4. Durable!Sync(f)
      BY <1>1, <3>1, <3>2, <3>3 DEF Durable!Sync, GivenUp
    <3> QED BY <3>4 DEF DurableStep, Durable!Next
  <2> QED BY <2>1, <2>2, <2>3
<1>4. CASE kind[f] # "table"
  <2>1. TablesWith(acked)' = TablesWith(acked)
    BY <1>1, <1>2, <1>4 DEF TablesWith
  <2> QED BY <1>1, <2>1 DEF DurableStep, Durable!vars, TablesWith, GivenUp
<1> QED BY <1>3, <1>4

\* A deletion of what was given up, done or not.
LEMMA EraseMaps ==
  ASSUME TypeOK, NEW f \in File, f \in GivenUp, MaybePut(main, main', f, 0),
         UNCHANGED <<kind, acked, gone, wiped>>
  PROVE  DurableStep
<1>1. main \in [File -> Nat] /\ TablesWith(acked)' = TablesWith(acked)
  BY DEF TypeOK, StoreTypeOK, Versions, TablesWith
<1>2. CASE main' = main
  BY <1>2, SameMaps DEF Same
<1>3. CASE main' = [main EXCEPT ![f] = 0]
  <2>1. TablesWith(main)' = TablesWith(main) \ {f}
    BY <1>1, <1>3 DEF TablesWith
  <2>2. CASE kind[f] = "table"
    <3>1. Durable!Erase(f)
      BY <1>1, <2>1, <2>2 DEF Durable!Erase, GivenUp
    <3> QED BY <3>1 DEF DurableStep, Durable!Next
  <2>3. CASE kind[f] # "table"
    <3>1. TablesWith(main)' = TablesWith(main)
      BY <2>1, <2>3 DEF TablesWith
    <3> QED BY <1>1, <3>1 DEF DurableStep, Durable!vars, GivenUp
  <2> QED BY <2>2, <2>3
<1> QED BY <1>2, <1>3 DEF MaybePut

LEMMA RemoveMaps ==
  ASSUME TableInv, NEW f \in File, RemoveBegin(f) \/ RemoveMain(f) PROVE DurableStep
<1>1. CASE RemoveBegin(f)
  <2>1. gone' = gone \cup {f} /\ UNCHANGED <<kind, main, acked, wiped>>
    BY <1>1 DEF RemoveBegin, s3Vars, outsideRemove
  <2>2. TablesWith(main)' = TablesWith(main) /\ TablesWith(acked)' = TablesWith(acked)
    BY <2>1 DEF TablesWith
  <2>3. CASE kind[f] = "table"
    <3>1. Durable!GiveUp({f})
      BY <2>1, <2>2, <2>3 DEF Durable!GiveUp, GivenUp
    <3> QED BY <3>1 DEF DurableStep, Durable!Next
  <2>4. CASE kind[f] # "table"
    BY <2>1, <2>2, <2>4 DEF DurableStep, Durable!vars, GivenUp
  <2> QED BY <2>3, <2>4
<1>2. CASE RemoveMain(f)
  <2>1. remover.file = f /\ f # None
    BY <1>2, FilesAssumption DEF RemoveMain
  <2>2. f \in gone
    BY <2>1 DEF TableInv, RemoverKnown
  <2>3. MaybePut(main, main', f, 0) /\ UNCHANGED <<kind, acked, gone, wiped>>
    BY <1>2 DEF RemoveMain, MaybePut, outsideRemove
  <2> QED BY <2>2, <2>3, EraseMaps DEF GivenUp, TableInv
<1> QED BY <1>1, <1>2

\* The clean-up gives up what it takes, and then deletes it.
LEMMA WipeMaps ==
  ASSUME TableInv, Wipe \/ \E f \in File : WipeMain(f) PROVE DurableStep
<1>1. CASE Wipe
  <2>1. wiped \subseteq wiped' /\ wiped' \subseteq File /\ UNCHANGED <<kind, main, acked, gone>>
    BY <1>1, Wiping DEF Wipe, s3Vars, TableInv
  <2>2. PICK S \in SUBSET File : S = {f \in wiped' : kind[f] = "table"}
    BY <2>1
  <2>3. TablesWith(main)' = TablesWith(main) /\ TablesWith(acked)' = TablesWith(acked)
    BY <2>1 DEF TablesWith
  <2>4. {f \in GivenUp : kind[f] = "table"}' = {f \in GivenUp : kind[f] = "table"} \cup S
    BY <2>1, <2>2 DEF GivenUp
  <2>5. Durable!GiveUp(S)
    BY <2>3, <2>4 DEF Durable!GiveUp
  <2> QED BY <2>2, <2>5 DEF DurableStep, Durable!Next
<1>2. ASSUME NEW f \in File, WipeMain(f) PROVE DurableStep
  <2>1. f \in wiped
    BY <1>2 DEF WipeMain, TableInv, RemoverKnown
  <2>2. MaybePut(main, main', f, 0) /\ UNCHANGED <<kind, acked, gone, wiped>>
    BY <1>2 DEF WipeMain, outsideLock, histVars
  <2> QED BY <2>1, <2>2, EraseMaps DEF GivenUp, TableInv
<1> QED BY <1>1, <1>2

\* What the background uploads, RetryPendingUploads and the recovery put for a
\* table is the table.
LEMMA UploadsMap ==
  ASSUME TableInv, NEW f \in File,
         \/ UploadOk(f) \/ UploadFails(f) \/ JobPutOk(f) \/ JobPutFails(f)
         \/ PushPending(f) \/ PushCache(f) \/ CleanupRestores(f)
  PROVE  DurableStep
<1>1. /\ buf[f] \in Nat /\ batch[f] \in Nat /\ found[f] \in Nat
      /\ cache[node][f] \in Nat /\ pend[node][f] \in Nat
  BY ContentsAt DEF TableInv, TypeOK, StoreTypeOK, CopyTypeOK, ControlTypeOK
<1>2. CASE UploadOk(f) \/ UploadFails(f)
  <2>1. MaybePut(main, main', f, buf[f]) /\ UNCHANGED <<kind, acked, gone, wiped>>
    BY <1>2 DEF UploadOk, UploadFails, MaybePut, histVars, outsideWriter
  <2>2. kind[f] = "table" => buf[f] > 0
    BY <1>2 DEF UploadOk, UploadFails, TableInv, TablesInHand, InHand, Uploading
  <2> QED BY <1>1, <2>1, <2>2, PutMaps DEF TablePut, TableInv
<1>3. CASE JobPutOk(f) \/ JobPutFails(f)
  <2>1. MaybePut(main, main', f, batch[f]) /\ UNCHANGED <<kind, acked, gone, wiped>>
    BY <1>3 DEF JobPutOk, JobPutFails, MaybePut, histVars, outsideLoop
  <2>2. kind[f] = "table" => batch[f] > 0
    BY <1>3 DEF JobPutOk, JobPutFails, TableInv, TablesInHand, InHand
  <2> QED BY <1>1, <2>1, <2>2, PutMaps DEF TablePut, TableInv
<1>4. CASE PushPending(f)
  <2>1. MaybePut(main, main', f, found[f]) /\ UNCHANGED <<kind, acked, gone, wiped>>
    BY <1>4 DEF PushPending, MaybePut, histVars, outsideLock
  <2>2. kind[f] = "table" => found[f] > 0
    BY <1>4 DEF PushPending, TableInv, TablesInHand, InHand
  <2> QED BY <1>1, <2>1, <2>2, PutMaps DEF TablePut, TableInv
<1>5. CASE PushCache(f)
  <2>1. MaybePut(main, main', f, cache[node][f]) /\ UNCHANGED <<kind, acked, gone, wiped>>
    BY <1>5 DEF PushCache, MaybePut, histVars, outsideLock
  <2>2. kind[f] # "table"
    BY <1>5 DEF PushCache, TableInv, TablesInHand, InHand
  <2> QED BY <1>1, <2>1, <2>2, PutMaps DEF TablePut, TableInv
<1>6. CASE CleanupRestores(f)
  <2>1. PICK v \in Nat : MaybePut(main, main', f, v)
    BY <1>1, <1>6 DEF CleanupRestores, MaybePut
  <2>2. UNCHANGED <<kind, acked, gone, wiped>> /\ kind[f] # "table"
    BY <1>6 DEF CleanupRestores, histVars, outsideLock
  <2> QED BY <2>1, <2>2, PutMaps DEF TablePut, TableInv
<1> QED BY <1>2, <1>3, <1>4, <1>5, <1>6

LEMMA ApiMaps == ASSUME TableInv, ApiPut PROVE DurableStep
<1>1. MaybePut(main, main', api.file, api.version) /\ UNCHANGED <<kind, acked, gone, wiped>>
  BY DEF ApiPut, MaybePut, histVars, outsideApi
<1>2. api.file \in File /\ api.version \in Nat
  BY DEF ApiPut, TableInv, TypeOK, ControlTypeOK, ReadKnown
<1>3. kind[api.file] = "table" => api.version > 0
  BY <1>2, FilesAssumption DEF ApiPut, TableInv, ReadKnown
<1> QED BY <1>1, <1>2, <1>3, PutMaps DEF TablePut, TableInv

LEMMA LockFailsMaps == ASSUME TableInv, LockFails PROVE DurableStep
<1>1. PICK f \in todo : MaybePut(main, main', f, cache[node][f])
  BY DEF LockFails
<1>2. f \in File /\ cache[node][f] \in Nat /\ kind[f] # "table"
  BY <1>1, ContentsAt
  DEF LockFails, TableInv, TypeOK, StoreTypeOK, ControlTypeOK, TablesInHand, InHand
<1>3. UNCHANGED <<kind, acked, gone, wiped>>
  BY DEF LockFails, outsideLock, histVars
<1> QED BY <1>1, <1>2, <1>3, PutMaps DEF TablePut, TableInv

LEMMA DurableNext == ASSUME TableInv, [Next]_vars PROVE DurableStep
<1> USE DEF s3Vars, diskVars, sessionVars, flagVars, writerVars, scanVars, loopVars, histVars,
        outsideWriter, outsideRemove, outsideLoop, outsideApi, outsideLock, Recovering, GivenUp
<1>1. ASSUME NEW f \in File, WriterStep(f) PROVE DurableStep
  <2>1. CASE UploadOk(f) \/ UploadFails(f)
    BY <2>1, UploadsMap
  <2>2. CASE UploadReturns(f)
    BY <2>2, SyncMaps
  <2>3. CASE \/ Create(f) \/ Write(f) \/ Sync(f) \/ PersistData(f) \/ PersistChecksum(f)
             \/ PersistShadow(f) \/ UploadDropsPending(f)
    BY <2>3, SameMaps
    DEF Same, Create, Write, Sync, PersistData, PersistChecksum, PersistShadow, UploadDropsPending
  <2> QED BY <1>1, <2>1, <2>2, <2>3 DEF WriterStep
<1>2. ASSUME NEW f \in File, RemoveStep(f) PROVE DurableStep
  BY <1>2, RemoveMaps, SameMaps DEF RemoveStep, RemoveShadow, Same
<1>3. CASE LoopStep
  <2>1. ASSUME NEW f \in File, JobStep(f) PROVE DurableStep
    BY <2>1, UploadsMap, SameMaps DEF JobStep, JobStart, JobTry, JobDropsPending, JobEnds, Same
  <2>2. ASSUME NEW f \in File, BgRead(f) \/ BgCheck(f) PROVE DurableStep
    BY <2>2, SameMaps DEF BgRead, BgCheck, Same
  <2>3. CASE BgTick \/ BgLastPass \/ BgQueue \/ BgEnds \/ BgStops
    BY <2>3, SameMaps DEF BgTick, BgLastPass, BgQueue, BgEnds, BgStops, Same
  <2> QED BY <1>3, <2>1, <2>2, <2>3 DEF LoopStep
<1>4. CASE ApiStep
  BY <1>4, ApiMaps, SameMaps DEF ApiStep, ApiRead, ApiReadChecksum, ApiDropsPending, Same
<1>5. CASE LockStep
  <2>1. ASSUME NEW f \in File,
               \/ FetchShadow(f) \/ PushPending(f) \/ PushCache(f) \/ CleanupRestores(f)
               \/ WipeMain(f)
        PROVE  DurableStep
    BY <2>1, UploadsMap, WipeMaps, SameMaps DEF FetchShadow, Same
  <2>2. ASSUME NEW n \in Node, LockAcquired(n) PROVE DurableStep
    BY <2>2, SameMaps DEF LockAcquired, Same
  <2>3. CASE RecoverScan \/ PushDone \/ LockReturns
    BY <2>3, SameMaps DEF RecoverScan, PushDone, LockReturns, Same
  <2> QED BY <1>5, <2>1, <2>2, <2>3, LockFailsMaps, WipeMaps DEF LockStep
<1>6. CASE Unlock \/ LoseLease \/ Close \/ Crash
  BY <1>6, SameMaps DEF Unlock, LoseLease, Close, Crash, Same
<1>7. CASE UNCHANGED vars
  BY <1>7, SameMaps DEF vars, Same
<1> QED BY <1>1, <1>2, <1>3, <1>4, <1>5, <1>6, <1>7 DEF Next

\* The writers, the background loop, RetryPendingUploads, the recovery with its
\* clean-up, Remove and the crashes of every number of hosts implement a store
\* that acknowledges a table only when it has it, and erases one only when Remove
\* was called for it or the clean-up has given it up (storage.go:436-556,
\* 656-866, 959-1111, 1163-1291, 1532-1573).
THEOREM WritePathIsDurable == Spec => ImplementsDurableTables
<1>1. Init => Durable!Init
  BY NothingFits DEF Init, Durable!Init, TablesWith, GivenUp
<1>2. TableInv /\ [Next]_vars => [Durable!Next]_(Durable!vars)
  BY DurableNext DEF DurableStep
<1> QED
  BY <1>1, <1>2, TableInvHolds, PTL DEF Spec, ImplementsDurableTables, Durable!Spec
=============================================================================
