------------------------------ MODULE S3Client ------------------------------
(***************************************************************************)
(* S3Client (client.go) over WithRetry (retry.go): every call becomes a    *)
(* series of attempts, each an HTTP request that S3 may or may not process *)
(* and whose response may or may not come back; between attempts the       *)
(* caller sleeps; a deadline of RequestTimeout may end the call anywhere.  *)
(*                                                                         *)
(* S3 itself is external: a map from keys to contents, changed by one      *)
(* request at a time.  A list arrives in pages, each computed when it is   *)
(* asked for.  Keys are numbered in the order S3 lists them; contents are  *)
(* opaque.  Every goroutine that uses the client is a caller.              *)
(***************************************************************************)
EXTENDS Integers

CONSTANTS
    Caller,         \* goroutines that call the client
    Keys,           \* number of object names
    Metadata,       \* keys that isMetadataKey accepts
    Data,           \* contents
    Absent,         \* content of an object that does not exist
    Large,          \* contents longer than MaxFileSize
    Prefixes,       \* sets of keys that share a prefix
    MaxAttempts,    \* OpenOption.RetryMaxAttempts
    BaseDelay,      \* OpenOption.RetryBaseDelay
    Width,          \* bits of a time.Duration
    Quota,          \* caller -> bound on its calls
    Repertoire      \* caller -> the calls it makes

Key == 1..Keys
Value == Data \cup {Absent}
Half == 2 ^ (Width - 1)

\* ApplyDefaults (config.go:75-89) replaces values that are not positive.
ASSUME ClientAssumption ==
    /\ Keys \in Nat
    /\ Metadata \subseteq Key /\ Large \subseteq Data
    /\ Absent \notin Data
    /\ Prefixes \subseteq SUBSET Key
    /\ MaxAttempts \in Nat \ {0}
    /\ Width \in Nat \ {0} /\ Half \in Nat
    /\ \A n \in 0..(MaxAttempts - 1) : 2 ^ n \in Nat
    /\ BaseDelay \in Nat \ {0} /\ BaseDelay < Half
    /\ Quota \in [Caller -> Nat]

NoRequest == [op |-> "none", key |-> 0, dst |-> 0, data |-> Absent, prefix |-> {}]

\* A call has the arguments of its operation: dst is for copy, data for the
\* puts, prefix for the two lists.
Request ==
    [op : {"put", "putNew"}, key : Key, dst : {0}, data : Data, prefix : {{}}]
    \cup [op : {"get", "exists", "remove"}, key : Key, dst : {0},
          data : {Absent}, prefix : {{}}]
    \cup [op : {"copy"}, key : Key, dst : Key, data : {Absent}, prefix : {{}}]
    \cup [op : {"list"}, key : {0}, dst : {0}, data : {Absent}, prefix : Prefixes]

Kinds == {"none", "done", "created", "present", "missing", "data", "list",
          "refused", "failed"}

NoList == [k \in Key |-> 0]
Answer == [kind : Kinds, data : Value, list : [Key -> Nat]]
Plain(kind) == [kind |-> kind, data |-> Absent, list |-> NoList]

VARIABLES
    object,     \* S3: key -> content
    stray,      \* S3: abandoned requests that may still be processed
    pc,         \* caller -> control point
    req,        \* caller -> the call it is in
    step,       \* caller -> "head" in the Exists of PutBytesIfNotExists
    attempt,    \* caller -> attempt counter of WithRetry
    expired,    \* caller -> the context of the call is done
    reply,      \* caller -> response on its way
    files,      \* caller -> how often List has appended each key
    after,      \* caller -> continuation token of the paginator
    delay,      \* caller -> argument of rand.Int63n
    result,     \* caller -> answer of its last call
    made,       \* caller -> number of its calls
    window,     \* history: contents each key had during the call
    effect      \* history: the call's own write was processed

serverVars == <<object, stray, window, effect>>
loopVars == <<step, attempt, expired, delay>>
listVars == <<files, after>>
vars == <<serverVars, pc, req, loopVars, reply, listVars, result, made>>

\* "attempt": head of the loop in WithRetry; "sent": the request is on its way
\* or being processed; "served": the response is on its way; "backoff": in
\* sleepCtx; "refuse": about to return ErrFileTooLarge.
Control == {"idle", "refuse", "attempt", "sent", "served", "backoff"}

NoWindow == [k \in Key |-> {}]
NoReply == [ok |-> FALSE, data |-> Absent, page |-> {}, upto |-> 0]
Reply == [ok : BOOLEAN, data : Value, page : SUBSET Key, upto : 0..Keys]

Init ==
    /\ object \in [Key -> Value]
    /\ stray = {}
    /\ pc = [c \in Caller |-> "idle"]
    /\ req = [c \in Caller |-> NoRequest]
    /\ step = [c \in Caller |-> "act"]
    /\ attempt = [c \in Caller |-> 0]
    /\ expired = [c \in Caller |-> FALSE]
    /\ reply = [c \in Caller |-> NoReply]
    /\ files = [c \in Caller |-> NoList]
    /\ after = [c \in Caller |-> 0]
    /\ delay = [c \in Caller |-> 0]
    /\ result = [c \in Caller |-> Plain("none")]
    /\ made = [c \in Caller |-> 0]
    /\ window = [c \in Caller |-> NoWindow]
    /\ effect = [c \in Caller |-> FALSE]

Goto(c, l) == pc' = [pc EXCEPT ![c] = l]

-----------------------------------------------------------------------------
(* S3                                                                      *)

Mutates(r) == r.op \in {"put", "putNew", "remove", "copy"}

Written(r, store) ==
    CASE r.op = "remove" -> [store EXCEPT ![r.key] = Absent]
      [] r.op = "copy"   -> [store EXCEPT ![r.dst] = store[r.key]]
      [] OTHER           -> [store EXCEPT ![r.key] = r.data]

Applicable(r, store) == r.op = "copy" => store[r.key] # Absent

Seen(store) ==
    [c \in Caller |->
        IF pc[c] = "idle" THEN window[c]
        ELSE [k \in Key |-> window[c][k] \cup {store[k]}]]

\* The request that is on the wire: HeadObject, not yet PutObject, in the first
\* half of PutBytesIfNotExists.
Writes(c) == Mutates(req[c]) /\ step[c] = "act"

\* PutObject, DeleteObject, CopyObject.
ServeWrite(c) ==
    /\ pc[c] = "sent" /\ Writes(c)
    /\ Goto(c, "served")
    /\ IF Applicable(req[c], object)
       THEN /\ object' = Written(req[c], object)
            /\ window' = Seen(object')
            /\ effect' = [effect EXCEPT ![c] = TRUE]
            /\ reply' = [reply EXCEPT ![c] = [NoReply EXCEPT !.ok = TRUE]]
       ELSE /\ reply' = [reply EXCEPT ![c] = NoReply]
            /\ UNCHANGED <<object, window, effect>>
    /\ UNCHANGED <<stray, req, loopVars, listVars, result, made>>

\* GetObject, HeadObject: the content, or NoSuchKey / NotFound.
ServeRead(c) ==
    /\ pc[c] = "sent"
    /\ req[c].op \in {"get", "exists"} \/ step[c] = "head"
    /\ Goto(c, "served")
    /\ LET v == object[req[c].key] IN
       reply' = [reply EXCEPT ![c] =
                    [NoReply EXCEPT !.ok = (v # Absent), !.data = v]]
    /\ UNCHANGED <<serverVars, req, loopVars, listVars, result, made>>

\* ListObjectsV2: the next keys of the prefix, as many as S3 likes.
ServePage(c) ==
    /\ pc[c] = "sent" /\ req[c].op = "list"
    /\ Goto(c, "served")
    /\ \E upto \in after[c]..Keys :
           /\ upto > after[c] \/ upto = Keys
           /\ reply' = [reply EXCEPT ![c] =
                [NoReply EXCEPT
                    !.ok = TRUE, !.upto = upto,
                    !.page = {k \in req[c].prefix :
                        after[c] < k /\ k <= upto /\ object[k] # Absent}]]
    /\ UNCHANGED <<serverVars, req, loopVars, listVars, result, made>>

\* A request that its sender has given up is processed after all.
LateEffect(r) ==
    /\ r \in stray
    /\ object' = IF Applicable(r, object) THEN Written(r, object) ELSE object
    /\ window' = Seen(object')
    /\ stray' = stray \ {r}
    /\ UNCHANGED <<effect, pc, req, loopVars, reply, listVars, result, made>>

-----------------------------------------------------------------------------
(* The calls                                                               *)

\* PutBytes and PutBytesIfNotExists look at the size; PutBytesIfNotExists then
\* calls Exists.
Invoke(c, r) ==
    /\ pc[c] = "idle" /\ made[c] < Quota[c]
    /\ r \in Repertoire[c]
    /\ Goto(c, IF /\ r.op \in {"put", "putNew"}
                  /\ r.key \notin Metadata /\ r.data \in Large
               THEN "refuse" ELSE "attempt")
    /\ req' = [req EXCEPT ![c] = r]
    /\ step' = [step EXCEPT ![c] = IF r.op = "putNew" THEN "head" ELSE "act"]
    /\ attempt' = [attempt EXCEPT ![c] = 0]
    /\ expired' = [expired EXCEPT ![c] = FALSE]
    /\ made' = [made EXCEPT ![c] = @ + 1]
    /\ window' = [window EXCEPT ![c] = [k \in Key |-> {object[k]}]]
    /\ effect' = [effect EXCEPT ![c] = FALSE]
    /\ UNCHANGED <<object, stray, delay, reply, listVars, result>>

\* The locals of the call are gone.
Return(c, res) ==
    /\ Goto(c, "idle")
    /\ result' = [result EXCEPT ![c] = res]
    /\ req' = [req EXCEPT ![c] = NoRequest]
    /\ step' = [step EXCEPT ![c] = "act"]
    /\ attempt' = [attempt EXCEPT ![c] = 0]
    /\ expired' = [expired EXCEPT ![c] = FALSE]
    /\ reply' = [reply EXCEPT ![c] = NoReply]
    /\ files' = [files EXCEPT ![c] = NoList]
    /\ after' = [after EXCEPT ![c] = 0]
    /\ delay' = [delay EXCEPT ![c] = 0]
    /\ window' = [window EXCEPT ![c] = NoWindow]
    /\ effect' = [effect EXCEPT ![c] = FALSE]
    /\ UNCHANGED <<object, made>>

Refuse(c) ==
    /\ pc[c] = "refuse"
    /\ Return(c, Plain("refused"))
    /\ UNCHANGED stray

\* Mutant: the closure of List does not reset its slice.
SendKeepsFiles(c) ==
    /\ pc[c] = "attempt" /\ ~expired[c]
    /\ Goto(c, "sent")
    /\ after' = [after EXCEPT ![c] = 0]
    /\ UNCHANGED <<serverVars, req, loopVars, reply, files, result, made>>

\* The closure runs if ctx.Err() is nil; List begins by forgetting the files
\* of the attempt before.
Send(c) ==
    /\ pc[c] = "attempt" /\ ~expired[c]
    /\ Goto(c, "sent")
    /\ files' = [files EXCEPT ![c] = NoList]
    /\ after' = [after EXCEPT ![c] = 0]
    /\ UNCHANGED <<serverVars, req, loopVars, reply, result, made>>

\* Mutant: the calls run under the context of the storage, without deadline.
NoDeadline(c) == FALSE

Expire(c) ==
    /\ pc[c] \notin {"idle", "refuse"} /\ ~expired[c]
    /\ expired' = [expired EXCEPT ![c] = TRUE]
    /\ UNCHANGED <<serverVars, pc, req, step, attempt, delay, reply, listVars,
                   result, made>>

\* ctx.Err() at the head of the loop, or the select of sleepCtx.
Cancelled(c) ==
    /\ pc[c] \in {"attempt", "backoff"} /\ expired[c]
    /\ Return(c, Plain("failed"))
    /\ UNCHANGED stray

\* Two's complement of Width bits.
Wrapped(x) ==
    LET y == x % (2 * Half) IN IF y < Half THEN y ELSE y - 2 * Half

\* Mutant: without the test for an overflow.
CalcBackoffUnchecked(n) == Wrapped(BaseDelay * Wrapped(2 ^ n))

CalcBackoff(n) ==
    LET expDelay == Wrapped(BaseDelay * Wrapped(2 ^ n))
    IN  IF expDelay <= 0 THEN BaseDelay ELSE expDelay

\* The closure has returned a RetryableError.
Failed(c) ==
    IF attempt[c] < MaxAttempts - 1
    THEN /\ Goto(c, "backoff")
         /\ delay' = [delay EXCEPT ![c] = CalcBackoff(attempt[c])]
         /\ reply' = [reply EXCEPT ![c] = NoReply]
         /\ UNCHANGED <<object, window, effect, req, step, attempt, expired,
                        listVars, result, made>>
    ELSE Return(c, Plain("failed"))

WakeUp(c) ==
    /\ pc[c] = "backoff"
    /\ Goto(c, "attempt")
    /\ attempt' = [attempt EXCEPT ![c] = @ + 1]
    /\ delay' = [delay EXCEPT ![c] = 0]
    /\ UNCHANGED <<serverVars, req, step, expired, reply, listVars, result, made>>

\* No answer: the network, a 5xx of S3, the deadline.  A write that was not
\* processed yet is dropped, or left on its way.
Lose(c) ==
    /\ pc[c] \in {"sent", "served"}
    /\ Failed(c)
    /\ \/ UNCHANGED stray
       \/ pc[c] = "sent" /\ Writes(c) /\ stray' = stray \cup {req[c]}

\* PutObject, DeleteObject, CopyObject returned nil.
WriteOk(c) ==
    /\ pc[c] = "served" /\ Writes(c) /\ reply[c].ok
    /\ Return(c, Plain(IF req[c].op = "putNew" THEN "created" ELSE "done"))
    /\ UNCHANGED stray

\* Mutant: a source that is gone counts as copied, as it does for Remove.
CopyNotFoundIgnored(c) ==
    /\ pc[c] = "served" /\ Writes(c) /\ ~reply[c].ok
    /\ Return(c, Plain("done"))
    /\ UNCHANGED stray

\* CopyObject without source: an error like any other, hence retried.
CopyNotFound(c) ==
    /\ pc[c] = "served" /\ Writes(c) /\ ~reply[c].ok
    /\ Failed(c)
    /\ UNCHANGED stray

GetOk(c) ==
    /\ pc[c] = "served" /\ req[c].op = "get" /\ reply[c].ok
    /\ Return(c, [Plain("data") EXCEPT !.data = reply[c].data])
    /\ UNCHANGED stray

\* io.ReadAll fails: not a RetryableError, so the call ends at once.
BodyFails(c) ==
    /\ pc[c] = "served" /\ req[c].op = "get" /\ reply[c].ok
    /\ Return(c, Plain("failed"))
    /\ UNCHANGED stray

ExistsTrue(c) ==
    /\ pc[c] = "served" /\ reply[c].ok
    /\ req[c].op = "exists" \/ step[c] = "head"
    /\ Return(c, Plain("present"))
    /\ UNCHANGED stray

\* isNotFoundError: returned at once, os.ErrNotExist or false.
NotFound(c) ==
    /\ pc[c] = "served" /\ ~reply[c].ok
    /\ req[c].op \in {"get", "exists"}
    /\ Return(c, Plain("missing"))
    /\ UNCHANGED stray

\* Exists answered false: PutBytesIfNotExists starts the retries of its put.
PutAfterExists(c) ==
    /\ pc[c] = "served" /\ ~reply[c].ok /\ step[c] = "head"
    /\ Goto(c, "attempt")
    /\ step' = [step EXCEPT ![c] = "act"]
    /\ attempt' = [attempt EXCEPT ![c] = 0]
    /\ reply' = [reply EXCEPT ![c] = NoReply]
    /\ UNCHANGED <<serverVars, req, expired, delay, listVars, result, made>>

Appended(c) ==
    [k \in Key |-> files[c][k] + (IF k \in reply[c].page THEN 1 ELSE 0)]

\* HasMorePages: the next page belongs to the same attempt.
NextPage(c) ==
    /\ pc[c] = "served" /\ req[c].op = "list" /\ reply[c].upto < Keys
    /\ Goto(c, "sent")
    /\ files' = [files EXCEPT ![c] = Appended(c)]
    /\ after' = [after EXCEPT ![c] = reply[c].upto]
    /\ reply' = [reply EXCEPT ![c] = NoReply]
    /\ UNCHANGED <<serverVars, req, loopVars, result, made>>

LastPage(c) ==
    /\ pc[c] = "served" /\ req[c].op = "list" /\ reply[c].upto = Keys
    /\ Return(c, [Plain("list") EXCEPT !.list = Appended(c)])
    /\ UNCHANGED stray

-----------------------------------------------------------------------------
Serve(c) == ServeWrite(c) \/ ServeRead(c) \/ ServePage(c)

Receive(c) ==
    \/ WriteOk(c) \/ CopyNotFound(c) \/ GetOk(c) \/ BodyFails(c)
    \/ ExistsTrue(c) \/ NotFound(c) \/ PutAfterExists(c)
    \/ NextPage(c) \/ LastPage(c)

Client(c) ==
    \/ Refuse(c) \/ Send(c) \/ Cancelled(c) \/ WakeUp(c)
    \/ Lose(c) \/ Receive(c)

Next ==
    \/ \E c \in Caller :
           \/ \E r \in Request : Invoke(c, r)
           \/ Client(c) \/ Serve(c) \/ Expire(c)
    \/ \E r \in stray : LateEffect(r)

Spec == Init /\ [][Next]_vars

\* Time passes; after the deadline the SDK gives the request up; the caller's
\* goroutine runs.  S3 may stay silent for ever.
Fairness ==
    \A c \in Caller :
        /\ WF_vars(Expire(c))
        /\ WF_vars(Refuse(c) \/ Cancelled(c) \/ (expired[c] /\ Lose(c)))

LiveSpec == Spec /\ Fairness

-----------------------------------------------------------------------------
(* Properties                                                              *)

TypeOK ==
    /\ object \in [Key -> Value]
    /\ stray \subseteq Request
    /\ pc \in [Caller -> Control]
    /\ req \in [Caller -> Request \cup {NoRequest}]
    /\ step \in [Caller -> {"head", "act"}]
    /\ attempt \in [Caller -> 0..(MaxAttempts - 1)]
    /\ expired \in [Caller -> BOOLEAN]
    /\ reply \in [Caller -> Reply]
    /\ files \in [Caller -> [Key -> Nat]]
    /\ after \in [Caller -> 0..Keys]
    /\ delay \in [Caller -> Int]
    /\ result \in [Caller -> Answer]
    /\ made \in [Caller -> Nat]
    /\ window \in [Caller -> [Key -> SUBSET Value]]
    /\ effect \in [Caller -> BOOLEAN]

InCall(c) == pc[c] # "idle"
Reads(c) == req[c].op \in {"get", "exists"} \/ step[c] = "head"

Was(c, k) == \E v \in Data : v \in window[c][k]
WasNot(c, k) == Absent \in window[c][k]

\* Up to the continuation token the list is right for some moment of the call,
\* key by key; behind it, and outside the prefix, it is empty.
ListSoFar(c) ==
    \A k \in Key :
        IF k \in req[c].prefix /\ k <= after[c]
        THEN \/ files[c][k] = 0 /\ WasNot(c, k)
             \/ files[c][k] = 1 /\ Was(c, k)
        ELSE files[c][k] = 0

PageTrue(c) ==
    \A k \in Key :
        IF k \in req[c].prefix /\ after[c] < k /\ k <= reply[c].upto
        THEN IF k \in reply[c].page THEN Was(c, k) ELSE WasNot(c, k)
        ELSE k \notin reply[c].page

CallInv(c) ==
    /\ req[c] \in Request
    /\ \A k \in Key : object[k] \in window[c][k]
    /\ step[c] = "head" => req[c].op = "putNew"
    /\ pc[c] = "refuse" \/ step[c] = "head" => ~effect[c]
    /\ req[c].op = "putNew" /\ step[c] = "act" /\ pc[c] # "refuse"
           => WasNot(c, req[c].key)
    /\ pc[c] = "served" /\ Writes(c) /\ reply[c].ok => effect[c]
    /\ ~Mutates(req[c]) => ~effect[c]
    /\ pc[c] = "served" /\ Reads(c) =>
           IF reply[c].ok THEN reply[c].data \in Data \cap window[c][req[c].key]
           ELSE WasNot(c, req[c].key)
    /\ req[c].op = "list" =>
           /\ pc[c] \in {"sent", "served"} => ListSoFar(c)
           /\ pc[c] = "served" => PageTrue(c) /\ after[c] <= reply[c].upto
    /\ pc[c] = "backoff" => attempt[c] < MaxAttempts - 1 /\ delay[c] > 0

\* The inductive invariant of the client: what a call has collected so far,
\* over several attempts and pages, was true during the call (client.go:97-379).
ClientInv ==
    /\ TypeOK
    /\ \A c \in Caller : InCall(c) => CallInv(c)

\* rand.Int63n panics unless its argument is positive; 2^attempt and the
\* product overflow without an error (retry.go:43-49).
BackoffArgumentPositive == \A c \in Caller : pc[c] = "backoff" => delay[c] > 0

\* Every call comes back, whatever S3 does: the deadline of operationContext
\* and the bounded attempts of WithRetry see to it (client.go:91-94,
\* retry.go:12-38).
CallsReturn == \A c \in Caller : InCall(c) ~> ~InCall(c)

-----------------------------------------------------------------------------
(* Refinement                                                              *)

Store == INSTANCE ObjectStore WITH busy <- {c \in Caller : InCall(c)}

\* The client with its attempts, pages, sleeps and deadlines is an object store
\* whose answers are true and whose failures say nothing (interface.go): what
\* the models of the lock and of the storage take an S3 call to be.
ImplementsObjectStore == Store!Spec
=============================================================================
