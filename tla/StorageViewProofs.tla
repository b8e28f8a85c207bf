-------------------------- MODULE StorageViewProofs --------------------------
(* What a reader of the storage sees, for any files and any number of writes: *)
(* until one of the situations that  cause  names has occurred, the read      *)
(* cache, S3, the pending directory and the shadows agree with what Sync,     *)
(* Remove and Rename have answered.                                           *)
EXTENDS StorageView, TLAPS

Causes == {"none", "staleUpload", "renameSkipped", "renamePending",
           "shadowLeft", "corrupt", "retryAPI", "wipe", "otherHost"}

Agree == cause = "none" => SourcesAgree /\ RenameHalfway

-----------------------------------------------------------------------------
(* Helpers                                                                  *)

LEMMA Distinct == None \notin Content /\ Empty \notin Content /\ None # Empty
                  /\ None \in Entry /\ Empty \in Entry /\ Content \subseteq Entry
  BY ViewAssumption DEF Content, Entry

LEMMA NoteFacts ==
  ASSUME cause \in Causes, NEW k \in Causes \ {"none"}, NEW b \in BOOLEAN, Note(k, b)
  PROVE  /\ cause' \in Causes
         /\ cause' = "none" => cause = "none" /\ ~b
  BY DEF Note

LEMMA CleanFacts ==
  ASSUME TypeOK, NEW F \in SUBSET File, CleanShadows(F)
  PROVE  /\ shadow' \in [File -> Content \cup {None}]
         /\ cause' \in Causes
         /\ \A f \in File \ F : shadow'[f] = shadow[f]
         /\ cause' = "none" => cause = "none" /\ \A f \in F : shadow'[f] = None
<1>1. PICK C \in SUBSET F :
        /\ shadow' = [f \in File |-> IF f \in C THEN None ELSE shadow[f]]
        /\ Note("shadowLeft", \E f \in F \ C : shadow[f] # None)
  BY DEF CleanShadows
<1>2. /\ cause' \in Causes
      /\ cause' = "none" => cause = "none" /\ ~(\E f \in F \ C : shadow[f] # None)
  BY <1>1 DEF Note, TypeOK, Causes
<1> QED BY <1>1, <1>2 DEF TypeOK

\* Entries are changed one file at a time.
LEMMA IsFacts ==
  ASSUME NEW S, NEW T, NEW var \in [S -> T], NEW f \in S, NEW v \in T
  PROVE  /\ Is(var, f, v) \in [S -> T]
         /\ Is(var, f, v)[f] = v
         /\ \A g \in S \ {f} : Is(var, f, v)[g] = var[g]
  BY DEF Is

LEMMA NoRenameFacts ==
  /\ NoRename.at = "none"
  /\ NoRename \in [at : {"none", "copy", "get", "pending", "remove"},
                   from : File \cup {None}, to : File \cup {None},
                   content : SUBSET Entry]
  BY DEF NoRename

LEMMA NoCallFacts ==
  /\ NoCall.put = FALSE
  /\ NoCall \in [file : File \cup {None}, content : Content \cup {None},
                 put : BOOLEAN]
  BY DEF NoCall

-----------------------------------------------------------------------------
(* Writing and reading                                                      *)

LEMMA CreateKeeps ==
  ASSUME ViewInv, NEW f \in File, Create(f)
  PROVE  ViewInv'
<1>1. TypeOK /\ SessionsClean /\ Agree /\ ren = NoRename
  BY DEF ViewInv, Agree, Create, Ready
<1>2. /\ cache' = Is(cache, f, Empty) /\ want' = Is(want, f, Entry)
      /\ writers' = writers \cup {f}
      /\ UNCHANGED <<s3, pend, shadow, job, done, api, lock, held, ren, wrote, cause>>
  BY DEF Create, stores, jobVars, lockVars
<1>3. TypeOK'
  BY <1>1, <1>2, Distinct DEF TypeOK, Is
<1>4. SessionsClean'
  BY <1>1, <1>2 DEF SessionsClean, Create, Ready
<1>5. Agree'
  BY <1>1, <1>2, Distinct DEF Agree, SourcesAgree, RenameHalfway, TypeOK, Entry, Is
<1> QED BY <1>3, <1>4, <1>5 DEF ViewInv, Agree

LEMMA SyncOkKeeps ==
  ASSUME ViewInv, NEW f \in File, SyncOk(f)
  PROVE  ViewInv'
<1>1. TypeOK /\ SessionsClean /\ Agree /\ ren = NoRename /\ lock = "locked"
  BY DEF ViewInv, Agree, SyncOk, Syncing, Ready
<1> DEFINE v == wrote + 1
<1>2. /\ s3' = Is(s3, f, v) /\ pend' = Is(pend, f, None) /\ cache' = Is(cache, f, v)
      /\ want' = Is(want, f, {v}) /\ CleanShadows({f})
      /\ wrote' = v /\ wrote < MaxWrites /\ writers' \in {writers, writers \ {f}}
      /\ UNCHANGED <<job, done, api, lock, held, ren>>
  BY DEF SyncOk, Syncing, jobVars, lockVars
<1>3. v \in Content /\ v \in 0..MaxWrites
  BY <1>1, <1>2, ViewAssumption DEF TypeOK, Content
<1> HIDE DEF v
<1>4. /\ shadow' \in [File -> Content \cup {None}] /\ cause' \in Causes
      /\ \A g \in File \ {f} : shadow'[g] = shadow[g]
      /\ cause' = "none" => cause = "none" /\ shadow'[f] = None
  BY <1>1, <1>2, CleanFacts
<1>5. TypeOK'
  BY <1>1, <1>2, <1>3, <1>4, Distinct DEF TypeOK, Is, Causes
<1>6. SessionsClean'
  BY <1>1, <1>2 DEF SessionsClean
<1>7. Agree'
  BY <1>1, <1>2, <1>3, <1>4, Distinct
     DEF Agree, SourcesAgree, RenameHalfway, TypeOK, Is
<1> QED BY <1>5, <1>6, <1>7 DEF ViewInv, Agree

LEMMA SyncFailsKeeps ==
  ASSUME ViewInv, NEW f \in File, SyncFails(f)
  PROVE  ViewInv'
<1>1. TypeOK /\ SessionsClean /\ Agree /\ ren = NoRename /\ lock = "locked"
  BY DEF ViewInv, Agree, SyncFails, Syncing, Ready
<1> DEFINE v == wrote + 1
<1>2. /\ s3' \in {s3, Is(s3, f, v)}
      /\ \/ UNCHANGED <<pend, shadow>>
         \/ pend' = Is(pend, f, v) /\ shadow' \in {shadow, Is(shadow, f, v)}
      /\ want' = [want EXCEPT ![f] = @ \cup {v}]
      /\ wrote' = v /\ wrote < MaxWrites /\ writers' \in {writers, writers \ {f}}
      /\ UNCHANGED <<cache, cause, job, done, api, lock, held, ren>>
  BY DEF SyncFails, Syncing, jobVars, lockVars
<1>3. v \in Content /\ v \in 0..MaxWrites
  BY <1>1, <1>2, ViewAssumption DEF TypeOK, Content
<1> HIDE DEF v
<1>4. TypeOK'
  BY <1>1, <1>2, <1>3, Distinct DEF TypeOK, Is
<1>5. SessionsClean'
  BY <1>1, <1>2 DEF SessionsClean
<1>6. Agree'
  BY <1>1, <1>2, <1>3, Distinct
     DEF Agree, SourcesAgree, RenameHalfway, TypeOK, Is
<1> QED BY <1>4, <1>5, <1>6 DEF ViewInv, Agree

LEMMA RemoveKeeps ==
  ASSUME ViewInv, NEW f \in File, Remove(f)
  PROVE  ViewInv'
<1>1. TypeOK /\ SessionsClean /\ Agree /\ ren = NoRename
  BY DEF ViewInv, Agree, Remove, Ready
<1>2. /\ cache' = Is(cache, f, None) /\ pend' = Is(pend, f, None)
      /\ CleanShadows({f})
      /\ \/ s3' = Is(s3, f, None) /\ want' = Is(want, f, {None})
         \/ /\ s3' \in {s3, Is(s3, f, None)}
            /\ want' = [want EXCEPT ![f] = @ \cup {None}]
      /\ UNCHANGED <<job, done, writers, api, lock, held, ren, wrote>>
  BY DEF Remove, jobVars, lockVars
<1>3. /\ shadow' \in [File -> Content \cup {None}] /\ cause' \in Causes
      /\ \A g \in File \ {f} : shadow'[g] = shadow[g]
      /\ cause' = "none" => cause = "none" /\ shadow'[f] = None
  BY <1>1, <1>2, CleanFacts
<1>4. TypeOK'
  <2>1. s3' \in [File -> Content \cup {None}] /\ want' \in [File -> SUBSET Entry]
    <3>1. want[f] \cup {None} \in SUBSET Entry /\ {None} \in SUBSET Entry
      BY <1>1, Distinct DEF TypeOK
    <3> QED BY <1>1, <1>2, <3>1 DEF TypeOK, Is
  <2> QED BY <1>1, <1>2, <1>3, <2>1, Distinct DEF TypeOK, Is, Causes
<1>5. SessionsClean'
  BY <1>1, <1>2 DEF SessionsClean
<1>6. Agree'
  BY <1>1, <1>2, <1>3 DEF Agree, SourcesAgree, RenameHalfway, TypeOK, Is
<1> QED BY <1>4, <1>5, <1>6 DEF ViewInv, Agree

LEMMA OpenKeeps ==
  ASSUME ViewInv, NEW f \in File, OpenFromS3(f) \/ Evict(f)
  PROVE  ViewInv'
<1>1. TypeOK /\ SessionsClean /\ Agree
  BY DEF ViewInv, Agree
<1>2. PICK v \in {s3[f], None} :
        /\ v = None \/ ren = NoRename
        /\ UNCHANGED <<s3, pend, shadow, job, done, writers, api, lock, held, ren,
                       wrote, want, cause>>
        /\ cache' = Is(cache, f, v)
  BY DEF OpenFromS3, Evict, Ready, stores, jobVars, lockVars
<1>3. TypeOK'
  BY <1>1, <1>2, Distinct DEF TypeOK, Is
<1>4. SessionsClean'
  BY <1>1, <1>2 DEF SessionsClean
<1>5. Agree'
  BY <1>1, <1>2 DEF Agree, SourcesAgree, RenameHalfway, TypeOK, Is
<1> QED BY <1>3, <1>4, <1>5 DEF ViewInv, Agree

-----------------------------------------------------------------------------
(* The upload goroutine                                                     *)

LEMMA BgReadKeeps ==
  ASSUME ViewInv, NEW f \in File, BgRead(f)
  PROVE  ViewInv'
<1>1. TypeOK /\ SessionsClean /\ Agree
  BY DEF ViewInv, Agree
<1>2. /\ job' = Is(job, f, pend[f]) /\ pend[f] # None
      /\ UNCHANGED <<s3, pend, shadow, cache, done, writers, api, lock, held, ren,
                     wrote, want, cause>>
  BY DEF BgRead, stores, lockVars
<1>3. TypeOK'
  BY <1>1, <1>2, Distinct DEF TypeOK, Is
<1>4. SessionsClean'
  BY <1>1, <1>2 DEF SessionsClean, TypeOK, Is
<1>5. Agree'
  BY <1>1, <1>2 DEF Agree, SourcesAgree, RenameHalfway
<1> QED BY <1>3, <1>4, <1>5 DEF ViewInv, Agree

LEMMA BgPutKeeps ==
  ASSUME ViewInv, NEW f \in File, BgPut(f) \/ BgFails(f)
  PROVE  ViewInv'
<1>1. TypeOK /\ SessionsClean /\ Agree
  BY DEF ViewInv, Agree
<1>2. /\ job[f] # None
      /\ \/ UNCHANGED <<s3, cause>>
         \/ s3' = Is(s3, f, job[f]) /\ Note("staleUpload", pend[f] # job[f])
      /\ \/ done' = done \cup {f} /\ UNCHANGED job
         \/ job' = Is(job, f, None) /\ f \notin done /\ UNCHANGED done
      /\ UNCHANGED <<pend, shadow, cache, writers, api, lock, held, ren, wrote, want>>
  BY DEF BgPut, BgFails, lockVars
<1>3. /\ cause' \in Causes
      /\ cause' = "none" => cause = "none" /\ (s3' = s3 \/ pend[f] = job[f])
  BY <1>1, <1>2 DEF Note, TypeOK, Causes
<1>4. TypeOK'
  BY <1>1, <1>2, <1>3, Distinct DEF TypeOK, Is, Causes
<1>5. SessionsClean'
  BY <1>1, <1>2 DEF SessionsClean, TypeOK, Is
<1>6. ASSUME cause' = "none" PROVE SourcesAgree' /\ RenameHalfway'
  <2>1. CASE UNCHANGED s3
    BY <1>1, <1>2, <1>3, <1>6, <2>1 DEF Agree, SourcesAgree, RenameHalfway
  <2>2. CASE s3' = Is(s3, f, job[f]) /\ pend[f] = job[f]
    <3>1. SourcesAgree /\ RenameHalfway /\ pend[f] # None
      BY <1>1, <1>2, <1>3, <1>6, <2>2 DEF Agree
    <3>2. s3'[f] = pend[f] /\ \A g \in File \ {f} : s3'[g] = s3[g]
      BY <1>1, <2>2 DEF Is, TypeOK
    <3>3. SourcesAgree'
      BY <1>2, <3>1, <3>2 DEF SourcesAgree
    <3>4. RenameHalfway'
      BY <1>1, <1>2, <3>1, <3>2 DEF RenameHalfway, SessionsClean
    <3> QED BY <3>3, <3>4
  <2> QED BY <1>2, <1>3, <1>6, <2>1, <2>2
<1> QED BY <1>4, <1>5, <1>6 DEF ViewInv

LEMMA BgCleansKeeps ==
  ASSUME ViewInv, NEW f \in File, BgCleans(f)
  PROVE  ViewInv'
<1>1. TypeOK /\ SessionsClean /\ Agree
  BY DEF ViewInv, Agree
<1>2. /\ job' = Is(job, f, None) /\ done' = done \ {f}
      /\ pend' = Is(pend, f, None) /\ CleanShadows({f})
      /\ UNCHANGED <<s3, cache, writers, api, lock, held, ren, wrote, want>>
  BY DEF BgCleans, lockVars
<1>3. /\ shadow' \in [File -> Content \cup {None}] /\ cause' \in Causes
      /\ \A g \in File \ {f} : shadow'[g] = shadow[g]
      /\ cause' = "none" => cause = "none" /\ shadow'[f] = None
  BY <1>1, <1>2, CleanFacts
<1>4. TypeOK'
  BY <1>1, <1>2, <1>3, Distinct DEF TypeOK, Is, Causes
<1>5. SessionsClean'
  BY <1>1, <1>2 DEF SessionsClean, TypeOK, Is
<1>6. Agree'
  <2> SUFFICES ASSUME cause' = "none" PROVE SourcesAgree' /\ RenameHalfway'
    BY DEF Agree
  <2>1. SourcesAgree /\ RenameHalfway
    BY <1>1, <1>3 DEF Agree
  <2>2. /\ pend'[f] = None /\ shadow'[f] = None
        /\ \A g \in File \ {f} : pend'[g] = pend[g] /\ shadow'[g] = shadow[g]
    BY <1>1, <1>2, <1>3 DEF TypeOK, Is
  <2>3. SourcesAgree'
    BY <1>2, <2>1, <2>2 DEF SourcesAgree
  <2>4. RenameHalfway'
    BY <1>1, <1>2, <2>1, <2>2 DEF RenameHalfway, SessionsClean
  <2> QED BY <2>3, <2>4
<1> QED BY <1>4, <1>5, <1>6 DEF ViewInv, Agree

LEMMA CorruptKeeps ==
  ASSUME ViewInv, NEW f \in File, Corrupt(f)
  PROVE  ViewInv'
<1>1. TypeOK /\ SessionsClean /\ Agree
  BY DEF ViewInv, Agree
<1>2. /\ pend' = Is(pend, f, None) /\ Note("corrupt", shadow[f] # None)
      /\ UNCHANGED <<s3, shadow, cache, job, done, api, writers, lock, held, ren,
                     wrote, want>>
  BY DEF Corrupt, jobVars, lockVars
<1>3. /\ cause' \in Causes
      /\ cause' = "none" => cause = "none" /\ shadow[f] = None
  BY <1>1, <1>2 DEF Note, TypeOK, Causes
<1>4. TypeOK'
  BY <1>1, <1>2, <1>3, Distinct DEF TypeOK, Is, Causes
<1>5. SessionsClean'
  BY <1>1, <1>2 DEF SessionsClean
<1>6. Agree'
  BY <1>1, <1>2, <1>3 DEF Agree, SourcesAgree, RenameHalfway, TypeOK, Is
<1> QED BY <1>4, <1>5, <1>6 DEF ViewInv, Agree

-----------------------------------------------------------------------------
(* RetryPendingUploads                                                      *)

LEMMA ApiReadKeeps ==
  ASSUME ViewInv, NEW f \in File, ApiRead(f)
  PROVE  ViewInv'
<1>1. TypeOK /\ SessionsClean /\ Agree
  BY DEF ViewInv, Agree
<1>2. /\ api' = [file |-> f, content |-> pend[f], put |-> FALSE] /\ pend[f] # None
      /\ UNCHANGED <<s3, pend, shadow, cache, job, done, writers, lock, held, ren,
                     wrote, want, cause>>
  BY DEF ApiRead, stores, jobVars, lockVars
<1>3. f # None
  BY ViewAssumption
<1>4. TypeOK'
  BY <1>1, <1>2, Distinct DEF TypeOK
<1>5. SessionsClean'
  BY <1>1, <1>2, <1>3 DEF SessionsClean
<1>6. Agree'
  BY <1>1, <1>2 DEF Agree, SourcesAgree, RenameHalfway
<1> QED BY <1>4, <1>5, <1>6 DEF ViewInv, Agree

LEMMA ApiPutKeeps ==
  ASSUME ViewInv, ApiPut
  PROVE  ViewInv'
<1>1. TypeOK /\ SessionsClean /\ Agree /\ api # NoCall
  BY DEF ViewInv, Agree, ApiPut
<1> DEFINE f == api.file
           v == api.content
<1>2. f \in File /\ v \in Content
  BY <1>1 DEF TypeOK, SessionsClean
<1>3. /\ \/ UNCHANGED <<s3, cause>>
         \/ s3' = Is(s3, f, v) /\ Note("staleUpload", pend[f] # v)
      /\ api' \in {[api EXCEPT !.put = TRUE], NoCall}
      /\ UNCHANGED <<pend, shadow, cache, job, done, writers, lock, held, ren,
                     wrote, want>>
  BY DEF ApiPut, jobVars, lockVars
<1>4. /\ api' \in [file : File \cup {None}, content : Content \cup {None},
                   put : BOOLEAN]
      /\ api' # NoCall => api'.file # None /\ api'.content # None
  BY <1>1, <1>3, NoCallFacts DEF TypeOK, SessionsClean
<1> HIDE DEF f, v
<1>5. /\ cause' \in Causes
      /\ cause' = "none" => cause = "none" /\ (s3' = s3 \/ pend[f] = v)
  BY <1>1, <1>3 DEF Note, TypeOK, Causes
<1>6. TypeOK'
  BY <1>1, <1>2, <1>3, <1>4, <1>5, Distinct DEF TypeOK, Is, Causes
<1>7. SessionsClean'
  BY <1>1, <1>3, <1>4 DEF SessionsClean
<1>8. ASSUME cause' = "none" PROVE SourcesAgree' /\ RenameHalfway'
  <2>1. CASE UNCHANGED s3
    BY <1>1, <1>3, <1>5, <1>8, <2>1 DEF Agree, SourcesAgree, RenameHalfway
  <2>2. CASE s3' = Is(s3, f, v) /\ pend[f] = v
    <3>1. SourcesAgree /\ RenameHalfway /\ pend[f] # None
      BY <1>1, <1>2, <1>5, <1>8, <2>2, Distinct DEF Agree
    <3>2. s3'[f] = pend[f] /\ \A g \in File \ {f} : s3'[g] = s3[g]
      BY <1>1, <1>2, <2>2 DEF Is, TypeOK
    <3>3. SourcesAgree'
      BY <1>3, <3>1, <3>2 DEF SourcesAgree
    <3>4. RenameHalfway'
      BY <1>1, <1>3, <3>1, <3>2 DEF RenameHalfway, SessionsClean
    <3> QED BY <3>3, <3>4
  <2> QED BY <1>3, <1>5, <1>8, <2>1, <2>2
<1> QED BY <1>6, <1>7, <1>8 DEF ViewInv

LEMMA ApiDropsKeeps ==
  ASSUME ViewInv, ApiDrops
  PROVE  ViewInv'
<1>1. TypeOK /\ SessionsClean /\ Agree /\ api # NoCall
  BY NoCallFacts DEF ViewInv, Agree, ApiDrops
<1> DEFINE f == api.file
<1>2. f \in File
  BY <1>1 DEF TypeOK, SessionsClean
<1>3. /\ pend' = Is(pend, f, None) /\ Note("retryAPI", shadow[f] # None)
      /\ api' = NoCall
      /\ UNCHANGED <<s3, shadow, cache, job, done, writers, lock, held, ren,
                     wrote, want>>
  BY DEF ApiDrops, jobVars, lockVars
<1> HIDE DEF f
<1>4. /\ cause' \in Causes
      /\ cause' = "none" => cause = "none" /\ shadow[f] = None
  BY <1>1, <1>3 DEF Note, TypeOK, Causes
<1>5. TypeOK'
  BY <1>1, <1>2, <1>3, <1>4, NoCallFacts, Distinct DEF TypeOK, Is, Causes
<1>6. SessionsClean'
  BY <1>1, <1>3 DEF SessionsClean
<1>7. Agree'
  BY <1>1, <1>2, <1>3, <1>4 DEF Agree, SourcesAgree, RenameHalfway, TypeOK, Is
<1> QED BY <1>5, <1>6, <1>7 DEF ViewInv, Agree

-----------------------------------------------------------------------------
(* Rename                                                                   *)

LEMMA RenameBeginKeeps ==
  ASSUME ViewInv, NEW f \in File, NEW g \in File, RenameBegin(f, g)
  PROVE  ViewInv'
<1>1. TypeOK /\ SessionsClean /\ Agree /\ ren = NoRename /\ lock = "locked"
  BY DEF ViewInv, Agree, RenameBegin, Ready
<1> DEFINE C == want[f]
<1>2. /\ f # g /\ {f, g} \subseteq File \ writers
      /\ ren' = [at |-> "copy", from |-> f, to |-> g, content |-> C]
      /\ want' = [want EXCEPT ![f] = @ \cup {None}, ![g] = @ \cup C]
      /\ UNCHANGED <<s3, pend, shadow, cache, job, done, writers, api, lock, held,
                     wrote, cause>>
  BY DEF RenameBegin, stores, jobVars, lockVars
<1>3. C \subseteq Entry /\ want[g] \subseteq Entry
  BY <1>1 DEF TypeOK
<1>4. /\ want'[f] = C \cup {None} /\ want'[g] = want[g] \cup C
      /\ \A h \in File \ {f, g} : want'[h] = want[h]
      /\ want' \in [File -> SUBSET Entry]
  BY <1>1, <1>2, <1>3, Distinct DEF TypeOK
<1>5. /\ ren'.at = "copy" /\ ren'.from = f /\ ren'.to = g /\ ren'.content = C
      /\ ren' \in [at : {"none", "copy", "get", "pending", "remove"},
                   from : File \cup {None}, to : File \cup {None},
                   content : SUBSET Entry]
  BY <1>2, <1>3
<1>6. ASSUME cause' = "none" PROVE SourcesAgree' /\ RenameHalfway'
  <2>1. SourcesAgree
    BY <1>1, <1>2, <1>6 DEF Agree
  <2>2. \A h \in File : want[h] \subseteq want'[h]
    BY <1>4
  <2>3. SourcesAgree'
    BY <1>2, <2>1, <2>2 DEF SourcesAgree
  <2>4. s3[f] \in C /\ {pend[f], cache[f], shadow[f]} \subseteq C \cup {None}
    BY <2>1 DEF SourcesAgree
  <2>5. RenameHalfway'
    BY <1>2, <1>4, <1>5, <2>4 DEF RenameHalfway
  <2> QED BY <2>3, <2>5
<1>7. TypeOK'
  BY <1>1, <1>2, <1>4, <1>5 DEF TypeOK
<1>8. SessionsClean'
  BY <1>1, <1>2, <1>5 DEF SessionsClean
<1> QED BY <1>6, <1>7, <1>8 DEF ViewInv

\* A step of Rename moves on, or ends it.
LEMMA StepFacts ==
  ASSUME TypeOK, SessionsClean,
         NEW i \in {"copy", "get", "pending", "remove"},
         NEW o \in {"none", "get", "pending", "remove"}, Step(i, o)
  PROVE  /\ ren.at = i /\ ren # NoRename /\ lock = "locked"
         /\ ren.from \in File \ writers /\ ren.to \in File \ writers
         /\ ren.content \subseteq Entry
         /\ IF o = "none" THEN ren' = NoRename
            ELSE /\ ren'.at = o /\ ren'.from = ren.from /\ ren'.to = ren.to
                 /\ ren'.content = ren.content /\ ren' # NoRename
         /\ ren' \in [at : {"none", "copy", "get", "pending", "remove"},
                      from : File \cup {None}, to : File \cup {None},
                      content : SUBSET Entry]
<1>1. ren.at = i /\ ren # NoRename
  BY NoRenameFacts DEF Step
<1>2. CASE o = "none"
  BY <1>1, <1>2, NoRenameFacts DEF Step, TypeOK, SessionsClean
<1>3. CASE o # "none"
  <2>1. ren' = [ren EXCEPT !.at = o]
    BY <1>3 DEF Step
  <2> QED BY <1>1, <1>3, <2>1, NoRenameFacts DEF TypeOK, SessionsClean
<1> QED BY <1>2, <1>3

LEMMA RenameCopyKeeps ==
  ASSUME ViewInv, RenameCopy
  PROVE  ViewInv'
<1>1. TypeOK /\ SessionsClean /\ Agree /\ Step("copy", "get")
  BY DEF ViewInv, Agree, RenameCopy
<1>2. /\ s3[ren.from] # None /\ s3' = Is(s3, ren.to, s3[ren.from])
      /\ Note("renamePending", pend[ren.to] # None)
      /\ UNCHANGED <<pend, shadow, cache, job, done, writers, api, lock, held, wrote,
                     want>>
  BY DEF RenameCopy, jobVars, lockVars
<1>3. /\ ren.at = "copy" /\ ren # NoRename /\ lock = "locked"
      /\ ren.from \in File \ writers /\ ren.to \in File \ writers
      /\ ren'.at = "get" /\ ren'.from = ren.from /\ ren'.to = ren.to
      /\ ren'.content = ren.content /\ ren' # NoRename
      /\ ren' \in [at : {"none", "copy", "get", "pending", "remove"},
                   from : File \cup {None}, to : File \cup {None},
                   content : SUBSET Entry]
  BY <1>1, StepFacts
<1>4. /\ cause' \in Causes
      /\ cause' = "none" => cause = "none" /\ pend[ren.to] = None
  BY <1>1, <1>2 DEF Note, TypeOK, Causes
<1>5. /\ s3' \in [File -> Content \cup {None}] /\ s3'[ren.to] = s3[ren.from]
      /\ \A h \in File \ {ren.to} : s3'[h] = s3[h]
  BY <1>1, <1>2, <1>3 DEF TypeOK, Is
<1>6. TypeOK'
  BY <1>1, <1>2, <1>3, <1>4, <1>5 DEF TypeOK, Causes
<1>7. SessionsClean'
  BY <1>1, <1>2, <1>3 DEF SessionsClean
<1>8. ASSUME cause' = "none" PROVE SourcesAgree' /\ RenameHalfway'
  <2>1. SourcesAgree /\ RenameHalfway /\ pend[ren.to] = None
    BY <1>1, <1>4, <1>8 DEF Agree
  <2>2. SourcesAgree'
    BY <1>2, <1>3, <1>5, <2>1 DEF SourcesAgree, RenameHalfway
  <2>3. shadow[ren.to] = None
    BY <1>3, <2>1 DEF SourcesAgree
  <2>4. RenameHalfway'
    BY <1>2, <1>3, <1>5, <2>1, <2>3 DEF RenameHalfway
  <2> QED BY <2>2, <2>4
<1> QED BY <1>6, <1>7, <1>8 DEF ViewInv

\* The rename is given up, and the object may be under both names.
LEMMA RenameStopsKeeps ==
  ASSUME ViewInv, RenameCopyFails \/ RenameRemoveFails
  PROVE  ViewInv'
<1>1. TypeOK /\ SessionsClean /\ Agree
  BY DEF ViewInv, Agree
<1>2. /\ Step("copy", "none") \/ Step("remove", "none")
      /\ UNCHANGED <<pend, shadow, cache, job, done, writers, api, lock, held, wrote,
                     want, cause>>
      /\ \/ UNCHANGED s3
         \/ s3' = Is(s3, ren.to, s3[ren.from])
         \/ s3' = Is(s3, ren.from, None)
  BY DEF RenameCopyFails, RenameRemoveFails, jobVars, lockVars
<1>3. /\ ren # NoRename /\ ren' = NoRename
      /\ ren.from \in File /\ ren.to \in File
  BY <1>1, <1>2, StepFacts
<1>4. TypeOK'
  BY <1>1, <1>2, <1>3, NoRenameFacts DEF TypeOK, Is
<1>5. SessionsClean'
  BY <1>1, <1>2, <1>3 DEF SessionsClean
<1>6. ASSUME cause' = "none" PROVE SourcesAgree' /\ RenameHalfway'
  <2>1. SourcesAgree /\ RenameHalfway
    BY <1>1, <1>2, <1>6 DEF Agree
  <2>2. /\ s3[ren.from] \in want[ren.to] /\ None \in want[ren.from]
    BY <1>3, <2>1 DEF RenameHalfway
  <2>3. SourcesAgree'
    BY <1>1, <1>2, <1>3, <2>1, <2>2 DEF SourcesAgree, TypeOK, Is
  <2> QED BY <1>3, <2>3 DEF RenameHalfway
<1> QED BY <1>4, <1>5, <1>6 DEF ViewInv

LEMMA RenameGetKeeps ==
  ASSUME ViewInv, RenameGet
  PROVE  ViewInv'
<1>1. TypeOK /\ SessionsClean /\ Agree /\ Step("get", "pending")
  BY DEF ViewInv, Agree, RenameGet
<1>2. /\ \/ /\ s3[ren.from] # None
            /\ cache' = [cache EXCEPT ![ren.from] = None, ![ren.to] = s3[ren.from]]
            /\ UNCHANGED cause
         \/ /\ Note("renameSkipped",
                    cache[ren.from] # None \/ cache[ren.to] # None)
            /\ UNCHANGED cache
      /\ UNCHANGED <<s3, pend, shadow, job, done, writers, api, lock, held, wrote,
                     want>>
  BY DEF RenameGet, stores, jobVars, lockVars
<1>3. /\ ren.at = "get" /\ ren # NoRename /\ lock = "locked"
      /\ ren.from \in File \ writers /\ ren.to \in File \ writers
      /\ ren'.at = "pending" /\ ren'.from = ren.from /\ ren'.to = ren.to
      /\ ren'.content = ren.content /\ ren' # NoRename
      /\ ren' \in [at : {"none", "copy", "get", "pending", "remove"},
                   from : File \cup {None}, to : File \cup {None},
                   content : SUBSET Entry]
  BY <1>1, StepFacts
<1>4. /\ cause' \in Causes
      /\ cause' = "none" =>
             /\ cause = "none"
             /\ \/ cache' = [cache EXCEPT ![ren.from] = None,
                                          ![ren.to] = s3[ren.from]]
                \/ cache' = cache /\ cache[ren.from] = None /\ cache[ren.to] = None
  BY <1>1, <1>2 DEF Note, TypeOK, Causes
<1>5. s3[ren.from] \in Entry
  BY <1>1, <1>3, Distinct DEF TypeOK
<1>6. TypeOK'
  BY <1>1, <1>2, <1>3, <1>4, <1>5, Distinct DEF TypeOK, Causes
<1>7. SessionsClean'
  BY <1>1, <1>2, <1>3 DEF SessionsClean
<1>8. ASSUME cause' = "none" PROVE SourcesAgree' /\ RenameHalfway'
  <2>1. SourcesAgree /\ RenameHalfway
    BY <1>1, <1>4, <1>8 DEF Agree
  <2>2. /\ cache'[ren.from] = None /\ cache'[ren.to] \in {s3[ren.from], None}
        /\ \A h \in File \ {ren.from, ren.to} : cache'[h] = cache[h]
    BY <1>1, <1>3, <1>4, <1>8, <2>1 DEF RenameHalfway, TypeOK
  <2>3. SourcesAgree'
    BY <1>2, <1>3, <2>1, <2>2 DEF SourcesAgree, RenameHalfway
  <2>4. RenameHalfway'
    BY <1>2, <1>3, <2>1, <2>2 DEF RenameHalfway
  <2> QED BY <2>3, <2>4
<1> QED BY <1>6, <1>7, <1>8 DEF ViewInv

LEMMA RenamePendingKeeps ==
  ASSUME ViewInv, RenamePending
  PROVE  ViewInv'
<1>1. TypeOK /\ SessionsClean /\ Agree /\ Step("pending", "remove")
  BY DEF ViewInv, Agree, RenamePending
<1>2. PICK clean \in BOOLEAN, put \in BOOLEAN :
        /\ shadow' = [shadow EXCEPT
                  ![ren.from] = IF clean THEN None ELSE @,
                  ![ren.to] = IF put THEN pend[ren.from] ELSE @]
        /\ Note("shadowLeft", \/ ~clean /\ shadow[ren.from] # None
                              \/ ~put /\ shadow[ren.to] # None)
  BY DEF RenamePending
<1>3. /\ pend[ren.from] # None
      /\ pend' = [pend EXCEPT ![ren.to] = pend[ren.from], ![ren.from] = None]
      /\ UNCHANGED <<s3, cache, job, done, writers, api, lock, held, wrote, want>>
  BY DEF RenamePending, jobVars, lockVars
<1>4. /\ ren.at = "pending" /\ ren # NoRename /\ lock = "locked"
      /\ ren.from \in File \ writers /\ ren.to \in File \ writers
      /\ ren'.at = "remove" /\ ren'.from = ren.from /\ ren'.to = ren.to
      /\ ren'.content = ren.content /\ ren' # NoRename
      /\ ren' \in [at : {"none", "copy", "get", "pending", "remove"},
                   from : File \cup {None}, to : File \cup {None},
                   content : SUBSET Entry]
  BY <1>1, StepFacts
<1>5. /\ cause' \in Causes
      /\ cause' = "none" =>
             /\ cause = "none"
             /\ clean \/ shadow[ren.from] = None
             /\ put \/ shadow[ren.to] = None
  BY <1>1, <1>2 DEF Note, TypeOK, Causes
<1>6. shadow' \in [File -> Content \cup {None}]
  BY <1>1, <1>2, <1>4 DEF TypeOK
<1>7. TypeOK'
  BY <1>1, <1>3, <1>4, <1>5, <1>6 DEF TypeOK, Causes
<1>8. SessionsClean'
  BY <1>1, <1>3, <1>4 DEF SessionsClean
<1>9. ASSUME cause' = "none" PROVE SourcesAgree' /\ RenameHalfway'
  <2>1. SourcesAgree /\ RenameHalfway /\ ren.from # ren.to
    BY <1>1, <1>4, <1>5, <1>9 DEF Agree, RenameHalfway
  <2>2. /\ pend'[ren.from] = None /\ pend'[ren.to] = pend[ren.from]
        /\ \A h \in File \ {ren.from, ren.to} : pend'[h] = pend[h]
    BY <1>1, <1>3, <1>4, <2>1 DEF TypeOK
  <2>3. /\ shadow'[ren.from] = None
        /\ shadow'[ren.to] \in {pend[ren.from], None}
        /\ \A h \in File \ {ren.from, ren.to} : shadow'[h] = shadow[h]
    BY <1>1, <1>2, <1>4, <1>5, <1>9, <2>1 DEF TypeOK
  <2>4. SourcesAgree'
    <3> SUFFICES ASSUME NEW h \in File
                 PROVE  /\ s3[h] \in want[h]
                        /\ {pend'[h], cache[h], shadow'[h]}
                               \subseteq want[h] \cup {None}
                        /\ shadow'[h] # None => pend'[h] # None
      BY <1>3 DEF SourcesAgree
    <3>1. CASE h = ren.from
      BY <3>1, <2>1, <2>2, <2>3 DEF SourcesAgree
    <3>2. CASE h = ren.to
      <4>1. pend[ren.from] \in want[h]
        BY <1>3, <1>4, <2>1, <3>2 DEF RenameHalfway
      <4> QED BY <1>3, <3>2, <4>1, <2>1, <2>2, <2>3 DEF SourcesAgree
    <3>3. CASE h \notin {ren.from, ren.to}
      BY <3>3, <2>1, <2>2, <2>3 DEF SourcesAgree
    <3> QED BY <3>1, <3>2, <3>3
  <2>5. RenameHalfway'
    <3>1. /\ pend[ren.from] \in ren.content
          /\ s3[ren.from] \in ren.content /\ s3[ren.to] \in ren.content
          /\ want[ren.from] = ren.content \cup {None}
          /\ ren.content \subseteq want[ren.to]
          /\ cache[ren.from] = None /\ cache[ren.to] \in ren.content \cup {None}
      BY <1>3, <1>4, <2>1 DEF RenameHalfway
    <3>2. {pend'[ren.to], shadow'[ren.to]} \subseteq ren.content \cup {None}
      BY <2>2, <2>3, <3>1
    <3> QED BY <1>3, <1>4, <2>1, <2>2, <2>3, <3>1, <3>2 DEF RenameHalfway
  <2> QED BY <2>4, <2>5
<1> QED BY <1>7, <1>8, <1>9 DEF ViewInv

LEMMA RenameNoPendingKeeps ==
  ASSUME ViewInv, RenameNoPending
  PROVE  ViewInv'
<1>1. TypeOK /\ SessionsClean /\ Agree /\ Step("pending", "remove")
  BY DEF ViewInv, Agree, RenameNoPending
<1>2. /\ Note("renamePending", pend[ren.from] # None)
      /\ UNCHANGED <<s3, pend, shadow, cache, job, done, writers, api, lock, held,
                     wrote, want>>
  BY DEF RenameNoPending, stores, jobVars, lockVars
<1>3. /\ ren.at = "pending" /\ ren # NoRename /\ lock = "locked"
      /\ ren.from \in File \ writers /\ ren.to \in File \ writers
      /\ ren'.at = "remove" /\ ren'.from = ren.from /\ ren'.to = ren.to
      /\ ren'.content = ren.content /\ ren' # NoRename
      /\ ren' \in [at : {"none", "copy", "get", "pending", "remove"},
                   from : File \cup {None}, to : File \cup {None},
                   content : SUBSET Entry]
  BY <1>1, StepFacts
<1>4. /\ cause' \in Causes
      /\ cause' = "none" => cause = "none" /\ pend[ren.from] = None
  BY <1>1, <1>2 DEF Note, TypeOK, Causes
<1>5. TypeOK'
  BY <1>1, <1>2, <1>3, <1>4 DEF TypeOK, Causes
<1>6. SessionsClean'
  BY <1>1, <1>2, <1>3 DEF SessionsClean
<1>7. ASSUME cause' = "none" PROVE SourcesAgree' /\ RenameHalfway'
  BY <1>1, <1>2, <1>3, <1>4, <1>7 DEF Agree, SourcesAgree, RenameHalfway
<1> QED BY <1>5, <1>6, <1>7 DEF ViewInv

LEMMA RenameRemoveKeeps ==
  ASSUME ViewInv, RenameRemove
  PROVE  ViewInv'
<1>1. TypeOK /\ SessionsClean /\ Agree /\ Step("remove", "none")
  BY DEF ViewInv, Agree, RenameRemove
<1>2. /\ s3' = Is(s3, ren.from, None)
      /\ want' = [want EXCEPT ![ren.from] = {None}, ![ren.to] = ren.content]
      /\ UNCHANGED <<pend, shadow, cache, job, done, writers, api, lock, held, wrote,
                     cause>>
  BY DEF RenameRemove, jobVars, lockVars
<1>3. /\ ren.at = "remove" /\ ren # NoRename /\ ren' = NoRename
      /\ ren.from \in File /\ ren.to \in File /\ ren.content \subseteq Entry
  BY <1>1, StepFacts
<1>4. TypeOK'
  BY <1>1, <1>2, <1>3, NoRenameFacts, Distinct DEF TypeOK, Is
<1>5. SessionsClean'
  BY <1>1, <1>2, <1>3 DEF SessionsClean
<1>6. ASSUME cause' = "none" PROVE SourcesAgree' /\ RenameHalfway'
  <2>1. SourcesAgree /\ RenameHalfway /\ ren.from # ren.to
    BY <1>1, <1>2, <1>3, <1>6 DEF Agree, RenameHalfway
  <2>2. /\ s3'[ren.from] = None
        /\ \A h \in File \ {ren.from} : s3'[h] = s3[h]
        /\ want'[ren.from] = {None} /\ want'[ren.to] = ren.content
        /\ \A h \in File \ {ren.from, ren.to} : want'[h] = want[h]
    BY <1>1, <1>2, <1>3, <2>1 DEF Is, TypeOK
  <2>3. SourcesAgree'
    <3>1. /\ pend[ren.from] = None /\ cache[ren.from] = None
          /\ shadow[ren.from] = None
          /\ s3[ren.to] \in ren.content
          /\ {pend[ren.to], cache[ren.to], shadow[ren.to]}
                 \subseteq ren.content \cup {None}
      BY <1>3, <2>1 DEF RenameHalfway, SourcesAgree
    <3> SUFFICES ASSUME NEW h \in File
                 PROVE  /\ s3'[h] \in want'[h]
                        /\ {pend[h], cache[h], shadow[h]}
                               \subseteq want'[h] \cup {None}
                        /\ shadow[h] # None => pend[h] # None
      BY <1>2 DEF SourcesAgree
    <3>2. CASE h = ren.from
      BY <2>1, <2>2, <3>1, <3>2 DEF SourcesAgree
    <3>3. CASE h = ren.to
      BY <2>1, <2>2, <3>1, <3>3 DEF SourcesAgree
    <3>4. CASE h \notin {ren.from, ren.to}
      BY <2>1, <2>2, <3>4 DEF SourcesAgree
    <3> QED BY <3>2, <3>3, <3>4
  <2> QED BY <1>3, <2>3 DEF RenameHalfway
<1> QED BY <1>4, <1>5, <1>6 DEF ViewInv

-----------------------------------------------------------------------------
(* Sessions                                                                 *)

\* While no shadow is without its pending file Lock() fetches nothing.
LEMMA LockFetchesKeeps ==
  ASSUME ViewInv, LockFetches
  PROVE  ViewInv'
<1>1. TypeOK /\ SessionsClean /\ Agree /\ ren = NoRename /\ writers = {}
  BY DEF ViewInv, Agree, SessionsClean, LockFetches
<1>2. PICK F \in SUBSET {f \in File : shadow[f] # None /\ pend[f] = None} :
        pend' = [f \in File |-> IF f \in F THEN shadow[f] ELSE pend[f]]
  BY DEF LockFetches
<1>3. /\ lock' = "recover"
      /\ UNCHANGED <<s3, shadow, cache, job, done, api, writers, held, ren, wrote,
                     want, cause>>
  BY DEF LockFetches, jobVars
<1>4. pend' \in [File -> Content \cup {None}]
  BY <1>1, <1>2 DEF TypeOK
<1>5. TypeOK'
  BY <1>1, <1>3, <1>4 DEF TypeOK
<1>6. SessionsClean'
  BY <1>1, <1>3 DEF SessionsClean
<1>7. ASSUME cause = "none" PROVE pend' = pend
  <2>1. \A f \in File : shadow[f] # None => pend[f] # None
    BY <1>1, <1>7 DEF Agree, SourcesAgree
  <2>2. \A f \in File : f \notin F
    BY <1>2, <2>1
  <2> QED BY <1>1, <1>2, <2>2 DEF TypeOK
<1>8. Agree'
  BY <1>1, <1>3, <1>7 DEF Agree, SourcesAgree, RenameHalfway
<1> QED BY <1>5, <1>6, <1>8 DEF ViewInv, Agree

\* What Lock() uploads was in pendingDir.
LEMMA LockUploadsKeeps ==
  ASSUME ViewInv, LockUploads
  PROVE  ViewInv'
<1>1. TypeOK /\ SessionsClean /\ Agree /\ ren = NoRename /\ writers = {}
  BY DEF ViewInv, Agree, SessionsClean, LockUploads
<1>2. PICK P \in SUBSET {f \in File : pend[f] # None} :
      \E L \in SUBSET ({f \in File : pend[f] # None} \ P) :
           /\ s3' = [f \in File |-> IF f \in P \cup L THEN pend[f] ELSE s3[f]]
           /\ pend' = [f \in File |-> IF f \in P THEN None ELSE pend[f]]
           /\ cache' = [f \in File |-> IF f \in P THEN pend[f] ELSE cache[f]]
           /\ CleanShadows(P)
  BY DEF LockUploads
<1>3. PICK L \in SUBSET ({f \in File : pend[f] # None} \ P) :
           /\ s3' = [f \in File |-> IF f \in P \cup L THEN pend[f] ELSE s3[f]]
           /\ pend' = [f \in File |-> IF f \in P THEN None ELSE pend[f]]
           /\ cache' = [f \in File |-> IF f \in P THEN pend[f] ELSE cache[f]]
           /\ CleanShadows(P)
  BY <1>2
<1>4. /\ lock' \in {"cleanup", "free"}
      /\ UNCHANGED <<job, done, api, writers, held, ren, wrote, want>>
  BY DEF LockUploads, jobVars
<1>5. P \in SUBSET File /\ \A f \in P \cup L : pend[f] # None
  BY <1>2, <1>3
<1>6. /\ shadow' \in [File -> Content \cup {None}] /\ cause' \in Causes
      /\ \A g \in File \ P : shadow'[g] = shadow[g]
      /\ cause' = "none" => cause = "none" /\ \A g \in P : shadow'[g] = None
  BY <1>1, <1>3, <1>5, CleanFacts
<1>7. TypeOK'
  <2>1. /\ s3' \in [File -> Content \cup {None}]
        /\ pend' \in [File -> Content \cup {None}]
        /\ cache' \in [File -> Entry]
    BY <1>1, <1>3, Distinct DEF TypeOK
  <2> QED BY <1>1, <1>4, <1>6, <2>1 DEF TypeOK, Causes
<1>8. SessionsClean'
  BY <1>1, <1>4 DEF SessionsClean
<1>9. ASSUME cause' = "none" PROVE SourcesAgree' /\ RenameHalfway'
  <2>1. SourcesAgree
    BY <1>1, <1>6, <1>9 DEF Agree
  <2>2. \A f \in File :
           /\ s3'[f] \in {s3[f], pend[f]}
           /\ s3'[f] = pend[f] => pend[f] # None \/ s3'[f] = s3[f]
           /\ pend'[f] = IF f \in P THEN None ELSE pend[f]
           /\ cache'[f] \in {cache[f], pend[f]}
           /\ shadow'[f] = IF f \in P THEN None ELSE shadow[f]
    BY <1>3, <1>5, <1>6, <1>9
  <2>3. SourcesAgree'
    BY <1>4, <2>1, <2>2 DEF SourcesAgree
  <2> QED BY <1>1, <1>4, <2>3 DEF RenameHalfway
<1> QED BY <1>7, <1>8, <1>9 DEF ViewInv

LEMMA LockReturnsKeeps ==
  ASSUME ViewInv, LockReturns
  PROVE  ViewInv'
<1>1. TypeOK /\ SessionsClean /\ Agree
  BY DEF ViewInv, Agree
<1>2. /\ lock' = "locked" /\ held' = TRUE
      /\ UNCHANGED <<s3, pend, shadow, cache, job, done, api, writers, ren, wrote,
                     want, cause>>
  BY DEF LockReturns, stores, jobVars
<1>3. TypeOK'
  BY <1>1, <1>2 DEF TypeOK
<1>4. SessionsClean'
  BY <1>1, <1>2 DEF SessionsClean
<1>5. Agree'
  BY <1>1, <1>2 DEF Agree, SourcesAgree, RenameHalfway
<1> QED BY <1>3, <1>4, <1>5 DEF ViewInv, Agree

LEMMA LockWipesKeeps ==
  ASSUME ViewInv, LockWipes
  PROVE  ViewInv'
<1>1. TypeOK /\ SessionsClean /\ Agree /\ ren = NoRename /\ writers = {}
  BY DEF ViewInv, Agree, SessionsClean, LockWipes
<1>2. PICK K \in SUBSET File, R \in SUBSET File :
           /\ pend' = [f \in File |-> IF f \in K THEN None ELSE pend[f]]
           /\ s3' = [f \in File |-> IF f \in R THEN None ELSE s3[f]]
           /\ want' = [f \in File |->
                           IF f \in R THEN want[f] \cup {None} ELSE want[f]]
           /\ Note("wipe", \E f \in K : shadow[f] # None)
  BY DEF LockWipes
<1>3. /\ lock' = "locked" /\ held' = TRUE /\ cache' = [f \in File |-> None]
      /\ UNCHANGED <<shadow, job, done, api, writers, ren, wrote>>
  BY DEF LockWipes, jobVars
<1>4. /\ cause' \in Causes
      /\ cause' = "none" => cause = "none" /\ \A f \in K : shadow[f] = None
  BY <1>1, <1>2 DEF Note, TypeOK, Causes
<1>5. TypeOK'
  <2>1. /\ s3' \in [File -> Content \cup {None}]
        /\ pend' \in [File -> Content \cup {None}]
        /\ cache' \in [File -> Entry]
    BY <1>1, <1>2, <1>3, Distinct DEF TypeOK
  <2>2. want' \in [File -> SUBSET Entry]
    <3>1. \A f \in File : want[f] \in SUBSET Entry /\ want[f] \cup {None} \in SUBSET Entry
      BY <1>1, Distinct DEF TypeOK
    <3> QED BY <1>2, <3>1
  <2> QED BY <1>1, <1>3, <1>4, <2>1, <2>2 DEF TypeOK, Causes
<1>6. SessionsClean'
  BY <1>1, <1>3 DEF SessionsClean
<1>7. ASSUME cause' = "none" PROVE SourcesAgree' /\ RenameHalfway'
  <2>1. SourcesAgree /\ \A f \in K : shadow[f] = None
    BY <1>1, <1>4, <1>7 DEF Agree
  <2>2. \A f \in File :
           /\ s3'[f] = IF f \in R THEN None ELSE s3[f]
           /\ want'[f] = IF f \in R THEN want[f] \cup {None} ELSE want[f]
           /\ pend'[f] = IF f \in K THEN None ELSE pend[f]
           /\ cache'[f] = None
    BY <1>2, <1>3
  <2>3. SourcesAgree'
    BY <1>3, <2>1, <2>2 DEF SourcesAgree
  <2> QED BY <1>1, <1>3, <2>3 DEF RenameHalfway
<1> QED BY <1>5, <1>6, <1>7 DEF ViewInv

LEMMA UnlockKeeps ==
  ASSUME ViewInv, Unlock
  PROVE  ViewInv'
<1>1. TypeOK /\ SessionsClean /\ Agree /\ ren = NoRename /\ writers = {}
  BY DEF ViewInv, Agree, Unlock, Ready
<1>2. /\ lock' = "free" /\ held' \in {held, FALSE}
      /\ UNCHANGED <<s3, pend, shadow, cache, job, done, api, writers, ren, wrote,
                     want, cause>>
  BY DEF Unlock, stores, jobVars
<1>3. TypeOK'
  BY <1>1, <1>2 DEF TypeOK
<1>4. SessionsClean'
  BY <1>1, <1>2 DEF SessionsClean
<1>5. Agree'
  BY <1>1, <1>2 DEF Agree, SourcesAgree, RenameHalfway
<1> QED BY <1>3, <1>4, <1>5 DEF ViewInv, Agree

\* The other host's session: what happens outside the writing of files is as
\* for every step without the lock.
LEMMA OtherFacts ==
  ASSUME ViewInv, OtherSession
  PROVE  /\ TypeOK /\ SessionsClean /\ Agree /\ ren = NoRename
         /\ UNCHANGED <<pend, cache, job, done, api, writers, lock, held, ren>>
  BY DEF ViewInv, Agree, SessionsClean, OtherSession, jobVars, lockVars

LEMMA OtherWritesKeeps ==
  ASSUME ViewInv, NEW f \in File, OtherWrites(f)
  PROVE  ViewInv'
<1>1. /\ TypeOK /\ SessionsClean /\ Agree /\ ren = NoRename
      /\ UNCHANGED <<pend, cache, job, done, api, writers, lock, held, ren>>
  BY OtherFacts DEF OtherWrites
<1>2. PICK v \in {wrote + 1, None} : s3' = Is(s3, f, v) /\ want' = Is(want, f, {v})
  BY DEF OtherWrites
<1>3. /\ wrote < MaxWrites /\ wrote' = wrote + 1
      /\ shadow' = Is(shadow, f, None)
      /\ Note("otherHost", HasCopies(f))
  BY DEF OtherWrites
<1>4. wrote + 1 \in 0..MaxWrites /\ v \in Content \cup {None}
  BY <1>1, <1>2, <1>3, ViewAssumption DEF TypeOK, Content
<1>5. /\ cause' \in Causes
      /\ cause' = "none" => cause = "none" /\ cache[f] = None /\ pend[f] = None
  BY <1>1, <1>3 DEF Note, HasCopies, TypeOK, Causes
<1>6. TypeOK'
  <2>1. {v} \in SUBSET Entry
    BY <1>4, Distinct
  <2> QED BY <1>1, <1>2, <1>3, <1>4, <1>5, <2>1 DEF TypeOK, Is, Causes
<1>7. SessionsClean'
  BY <1>1 DEF SessionsClean
<1>8. Agree'
  BY <1>1, <1>2, <1>3, <1>4, <1>5 DEF Agree, SourcesAgree, RenameHalfway, TypeOK, Is
<1> QED BY <1>6, <1>7, <1>8 DEF ViewInv, Agree

LEMMA OtherFailsKeeps ==
  ASSUME ViewInv, NEW f \in File, OtherFails(f)
  PROVE  ViewInv'
<1>1. /\ TypeOK /\ SessionsClean /\ Agree /\ ren = NoRename
      /\ UNCHANGED <<pend, cache, job, done, api, writers, lock, held, ren>>
  BY OtherFacts DEF OtherFails
<1>2. PICK v \in {wrote + 1, None}, kept \in BOOLEAN :
           /\ s3' \in {s3, Is(s3, f, v)}
           /\ want' = [want EXCEPT ![f] = @ \cup {v}]
           /\ shadow' \in {shadow} \cup
                  (IF kept /\ v # None THEN {Is(shadow, f, v)} ELSE {})
           /\ Note("otherHost", kept \/ HasCopies(f))
  BY DEF OtherFails
<1>3. wrote < MaxWrites /\ wrote' = wrote + 1
  BY DEF OtherFails
<1>4. wrote + 1 \in 0..MaxWrites /\ v \in Content \cup {None}
  BY <1>1, <1>2, <1>3, ViewAssumption DEF TypeOK, Content
<1>5. /\ cause' \in Causes
      /\ cause' = "none" => cause = "none" /\ ~kept
  BY <1>1, <1>2 DEF Note, HasCopies, TypeOK, Causes
<1>6. cause' = "none" => shadow' = shadow
  BY <1>2, <1>5
<1>7. shadow' \in [File -> Content \cup {None}]
  BY <1>1, <1>2, <1>4 DEF TypeOK, Is
<1>8. want' \in [File -> SUBSET Entry] /\ s3' \in [File -> Content \cup {None}]
  <2>1. want[f] \cup {v} \in SUBSET Entry
    BY <1>1, <1>4, Distinct DEF TypeOK
  <2> QED BY <1>1, <1>2, <1>4, <2>1 DEF TypeOK, Is
<1>9. TypeOK'
  BY <1>1, <1>3, <1>4, <1>5, <1>7, <1>8 DEF TypeOK, Causes
<1>10. SessionsClean'
  BY <1>1 DEF SessionsClean
<1>11. Agree'
  BY <1>1, <1>2, <1>5, <1>6 DEF Agree, SourcesAgree, RenameHalfway, TypeOK, Is
<1> QED BY <1>9, <1>10, <1>11 DEF ViewInv, Agree

\* A shadow has what a reader may expect.
LEMMA OtherRecoversKeeps ==
  ASSUME ViewInv, NEW f \in File, OtherRecovers(f)
  PROVE  ViewInv'
<1>1. /\ TypeOK /\ SessionsClean /\ Agree /\ ren = NoRename
      /\ UNCHANGED <<pend, cache, job, done, api, writers, lock, held, ren>>
  BY OtherFacts DEF OtherRecovers
<1>2. shadow[f] # None /\ UNCHANGED <<wrote, want>>
  BY DEF OtherRecovers
<1>3. s3' \in {s3, Is(s3, f, shadow[f])}
  BY DEF OtherRecovers
<1>4. /\ shadow' \in [File -> Content \cup {None}] /\ cause' \in Causes
      /\ cause' = "none" =>
             cause = "none" /\ \A g \in File : shadow'[g] \in {shadow[g], None}
  <2>1. CASE CleanShadows({f})
    <3>1. /\ shadow' \in [File -> Content \cup {None}] /\ cause' \in Causes
          /\ \A g \in File \ {f} : shadow'[g] = shadow[g]
          /\ cause' = "none" => cause = "none" /\ \A g \in {f} : shadow'[g] = None
      BY <1>1, <2>1, CleanFacts
    <3> QED BY <3>1
  <2>2. CASE Note("otherHost", TRUE) /\ UNCHANGED shadow
    BY <1>1, <2>2 DEF Note, TypeOK, Causes
  <2> QED BY <2>1, <2>2 DEF OtherRecovers
<1>5. TypeOK'
  BY <1>1, <1>2, <1>3, <1>4 DEF TypeOK, Is, Causes
<1>6. SessionsClean'
  BY <1>1 DEF SessionsClean
<1>7. Agree'
  BY <1>1, <1>2, <1>3, <1>4 DEF Agree, SourcesAgree, RenameHalfway, TypeOK, Is
<1> QED BY <1>5, <1>6, <1>7 DEF ViewInv, Agree

LEMMA EndKeeps ==
  ASSUME ViewInv, End
  PROVE  ViewInv'
<1>1. TypeOK /\ SessionsClean /\ Agree
  BY DEF ViewInv, Agree
<1>2. /\ cache' = [f \in File |-> None] /\ job' = [f \in File |-> None]
      /\ done' = {} /\ writers' = {} /\ lock' = "free" /\ held' = FALSE
      /\ api' = NoCall /\ ren' = NoRename
      /\ UNCHANGED <<s3, pend, shadow, wrote, want, cause>>
  BY DEF End, stores
<1>3. TypeOK'
  BY <1>1, <1>2, NoRenameFacts, NoCallFacts, Distinct DEF TypeOK
<1>4. SessionsClean'
  BY <1>2 DEF SessionsClean
<1>5. Agree'
  BY <1>1, <1>2 DEF Agree, SourcesAgree, RenameHalfway
<1> QED BY <1>3, <1>4, <1>5 DEF ViewInv, Agree

-----------------------------------------------------------------------------
(* The theorems                                                             *)

LEMMA ViewStart == Init => ViewInv
<1> SUFFICES ASSUME Init PROVE ViewInv
  OBVIOUS
<1>1. TypeOK
  <2>1. {None} \in SUBSET Entry /\ 0 \in 0..MaxWrites
    BY ViewAssumption, Distinct
  <2> QED BY NoRenameFacts, NoCallFacts, Distinct, <2>1 DEF Init, TypeOK
<1>2. SessionsClean /\ SourcesAgree /\ RenameHalfway
  BY DEF Init, SessionsClean, SourcesAgree, RenameHalfway
<1> QED BY <1>1, <1>2 DEF ViewInv

LEMMA ViewNext == ViewInv /\ [Next]_vars => ViewInv'
<1> SUFFICES ASSUME ViewInv, [Next]_vars PROVE ViewInv'
  OBVIOUS
<1>1. CASE UNCHANGED vars
  BY <1>1 DEF vars, stores, jobVars, lockVars, ViewInv, TypeOK, SessionsClean,
              SourcesAgree, RenameHalfway
<1>2. ASSUME NEW f \in File, FileStep(f) PROVE ViewInv'
  BY <1>2, CreateKeeps, SyncOkKeeps, SyncFailsKeeps, RemoveKeeps, OpenKeeps,
     RenameBeginKeeps, BgReadKeeps, BgPutKeeps, BgCleansKeeps, CorruptKeeps,
     ApiReadKeeps, OtherWritesKeeps, OtherFailsKeeps, OtherRecoversKeeps
     DEF FileStep
<1>3. CASE Rename
  BY <1>3, RenameCopyKeeps, RenameStopsKeeps, RenameGetKeeps, RenamePendingKeeps,
     RenameNoPendingKeeps, RenameRemoveKeeps DEF Rename
<1> QED BY <1>1, <1>2, <1>3, ApiPutKeeps, ApiDropsKeeps, LockFetchesKeeps,
       LockUploadsKeeps, LockReturnsKeeps, LockWipesKeeps, UnlockKeeps, EndKeeps
    DEF Next

\* Until one of the named situations occurs the sources of Open agree with each
\* other and with what was answered, for any number of files and writes
\* (storage.go:391-522, 836-957, 1047-1111).
THEOREM ViewInvHolds == Spec => []ViewInv
<1> QED BY ViewStart, ViewNext, PTL DEF Spec

\* An Open answers what was last written, removed or renamed
\* (storage.go:391-434).
THEOREM ReadsAreExpected == Spec => []ReadsExpected
<1>1. ASSUME ViewInv, cause = "none", NEW f \in File PROVE Answers(f) \subseteq want[f]
  <2>1. /\ s3[f] \in want[f]
        /\ pend[f] # None => pend[f] \in want[f]
        /\ cache[f] # None => cache[f] \in want[f]
    BY <1>1 DEF ViewInv, SourcesAgree
  <2>2. CASE cache[f] # None
    BY <2>1, <2>2 DEF Answers
  <2>3. CASE cache[f] = None
    <3>1. (IF s3[f] # None THEN s3[f] ELSE pend[f]) \in want[f]
      BY <2>1
    <3> QED BY <2>1, <2>3, <3>1 DEF Answers
  <2> QED BY <2>2, <2>3
<1>2. ViewInv => ReadsExpected
  BY <1>1, Zenon DEF ReadsExpected
<1> QED BY <1>2, ViewInvHolds, PTL

\* List names the files that exist, each of them once (storage.go:339-389).
THEOREM ListIsExact == Spec => []ListExact
<1>1. ASSUME ViewInv, cause = "none", NEW f \in File
      PROVE  /\ Listed(f) <= 1
             /\ None \notin want[f] => Listed(f) = 1
             /\ want[f] = {None} => Listed(f) = 0
  <2>1. /\ s3[f] \in want[f]
        /\ pend[f] # None => pend[f] \in want[f]
        /\ shadow[f] # None => pend[f] # None
    BY <1>1 DEF ViewInv, SourcesAgree
  <2>2. CASE pend[f] # None
    BY <2>1, <2>2 DEF Listed
  <2>3. CASE pend[f] = None
    BY <2>1, <2>3 DEF Listed
  <2> QED BY <2>2, <2>3
<1>2. ViewInv => ListExact
  BY <1>1, Zenon DEF ListExact
<1> QED BY <1>2, ViewInvHolds, PTL

\* A Rename that is cut short leaves the file under one of its names
\* (storage.go:868-957).
THEOREM RenameIsSafe == Spec => []RenameKeeps
<1>1. ViewInv => RenameKeeps
  BY DEF ViewInv, SessionsClean, RenameHalfway, RenameKeeps
<1> QED BY <1>1, ViewInvHolds, PTL
=============================================================================
