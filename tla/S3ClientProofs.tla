--------------------------- MODULE S3ClientProofs ---------------------------
(* The S3 client for any number of callers, names, attempts and pages: what  *)
(* a call has collected was true during the call, its back-off is never      *)
(* zero, and the client is the object store that the storage relies on.      *)
EXTENDS S3Client, TLAPS

-----------------------------------------------------------------------------
(* Requests and contents                                                    *)

LEMMA RequestFacts ==
  ASSUME NEW q \in Request
  PROVE  /\ q.op \in {"put", "putNew", "get", "exists", "remove", "copy", "list"}
         /\ q.op # "list" => q.key \in Key
         /\ q.op = "copy" => q.dst \in Key
         /\ q.data \in Value
         /\ q.op \in {"put", "putNew"} => q.data \in Data
         /\ q.prefix \subseteq Key
         /\ q.op # "list" => q.prefix = {}
<1>1. CASE q \in [op : {"put", "putNew"}, key : Key, dst : {0}, data : Data, prefix : {{}}]
  BY <1>1 DEF Value
<1>2. CASE q \in [op : {"get", "exists", "remove"}, key : Key, dst : {0},
                  data : {Absent}, prefix : {{}}]
  BY <1>2 DEF Value
<1>3. CASE q \in [op : {"copy"}, key : Key, dst : Key, data : {Absent}, prefix : {{}}]
  BY <1>3 DEF Value
<1>4. CASE q \in [op : {"list"}, key : {0}, dst : {0}, data : {Absent}, prefix : Prefixes]
  BY <1>4, ClientAssumption DEF Value
<1> QED BY <1>1, <1>2, <1>3, <1>4 DEF Request

LEMMA WrittenType ==
  ASSUME NEW q \in Request, NEW store \in [Key -> Value]
  PROVE  Applicable(q, store) => Written(q, store) \in [Key -> Value]
<1> SUFFICES ASSUME Applicable(q, store) PROVE Written(q, store) \in [Key -> Value]
  OBVIOUS
<1>1. CASE q.op = "remove"
  BY <1>1 DEF Written, Value
<1>2. CASE q.op = "copy"
  <2>1. store[q.key] \in Value
    BY <1>2, RequestFacts
  <2> QED BY <1>2, <2>1 DEF Written
<1>3. CASE q.op \notin {"remove", "copy"}
  <2>1. Written(q, store) = [store EXCEPT ![q.key] = q.data]
    BY <1>3 DEF Written
  <2>2. q.data \in Value
    BY RequestFacts
  <2> QED BY <2>1, <2>2
<1> QED BY <1>1, <1>2, <1>3

LEMMA NoReplyType == NoReply \in Reply
  BY ClientAssumption DEF NoReply, Reply, Value

LEMMA PlainType == ASSUME NEW k \in Kinds PROVE Plain(k) \in Answer
  BY DEF Plain, Answer, NoList, Value

\* The contents that a call may see only become more.
LEMMA SeenGrows ==
  ASSUME TypeOK, NEW store \in [Key -> Value]
  PROVE  /\ Seen(store) \in [Caller -> [Key -> SUBSET Value]]
         /\ \A c \in Caller, k \in Key : window[c][k] \subseteq Seen(store)[c][k]
         /\ \A c \in Caller : InCall(c) => \A k \in Key : store[k] \in Seen(store)[c][k]
<1>1. \A c \in Caller, k \in Key : window[c][k] \in SUBSET Value /\ store[k] \in Value
  BY DEF TypeOK
<1>2. ASSUME NEW c \in Caller
      PROVE  IF pc[c] = "idle" THEN Seen(store)[c] = window[c]
             ELSE Seen(store)[c] = [k \in Key |-> window[c][k] \cup {store[k]}]
  BY DEF Seen
<1>3. ASSUME NEW c \in Caller PROVE Seen(store)[c] \in [Key -> SUBSET Value]
  <2>1. window[c] \in [Key -> SUBSET Value]
    BY DEF TypeOK
  <2>2. [k \in Key |-> window[c][k] \cup {store[k]}] \in [Key -> SUBSET Value]
    BY <1>1
  <2> QED BY <1>2, <2>1, <2>2
<1>4. Seen(store) \in [Caller -> [Key -> SUBSET Value]]
  BY <1>3 DEF Seen
<1> QED BY <1>2, <1>4 DEF InCall

-----------------------------------------------------------------------------
(* The steps of other callers                                               *)

\* A call keeps its invariant while its own state stays and S3 changes under
\* it: what it has seen it has seen.
LEMMA Bystander ==
  ASSUME NEW c \in Caller, CallInv(c),
         pc'[c] = pc[c], req'[c] = req[c], step'[c] = step[c],
         reply'[c] = reply[c], files'[c] = files[c], after'[c] = after[c],
         effect'[c] = effect[c], attempt'[c] = attempt[c], delay'[c] = delay[c],
         \A k \in Key : window[c][k] \subseteq window'[c][k],
         \A k \in Key : object'[k] \in window'[c][k]
  PROVE  CallInv(c)'
<1>1. \A k : k \in Key /\ Was(c, k) => Was(c, k)'
  BY DEF Was
<1>2. \A k : k \in Key /\ WasNot(c, k) => WasNot(c, k)'
  BY DEF WasNot
<1>3. (req[c] \in Request)' /\ req[c] \in Request
  BY DEF CallInv
<1>4. req[c].op # "list" => req[c].key \in Key
  BY <1>3, RequestFacts
<1>5. (step[c] = "head" => req[c].op = "putNew")'
  BY DEF CallInv
<1>6. (pc[c] = "refuse" \/ step[c] = "head" => ~effect[c])'
  BY DEF CallInv
<1>7. (req[c].op = "putNew" /\ step[c] = "act" /\ pc[c] # "refuse"
           => WasNot(c, req[c].key))'
  BY <1>2, <1>4 DEF CallInv
<1>8. /\ (pc[c] = "served" /\ Writes(c) /\ reply[c].ok => effect[c])'
      /\ (~Mutates(req[c]) => ~effect[c])'
  BY DEF CallInv, Writes, Mutates
<1>9. (pc[c] = "served" /\ Reads(c) =>
           IF reply[c].ok THEN reply[c].data \in Data \cap window[c][req[c].key]
           ELSE WasNot(c, req[c].key))'
  <2> SUFFICES ASSUME (pc[c] = "served")', Reads(c)'
               PROVE  (IF reply[c].ok THEN reply[c].data \in Data \cap window[c][req[c].key]
                       ELSE WasNot(c, req[c].key))'
    OBVIOUS
  <2>1. Reads(c) /\ pc[c] = "served"
    BY DEF Reads
  <2>2. req[c].key \in Key
    BY <1>4, <2>1 DEF Reads, CallInv
  <2> QED BY <1>2, <2>1, <2>2 DEF CallInv
<1>10. ASSUME req[c].op = "list", pc[c] \in {"sent", "served"} PROVE ListSoFar(c)'
  <2>1. ListSoFar(c)
    BY <1>10 DEF CallInv
  <2> QED BY <1>1, <1>2, <2>1 DEF ListSoFar
<1>11. ASSUME req[c].op = "list", pc[c] = "served" PROVE PageTrue(c)'
  <2>1. PageTrue(c)
    BY <1>11 DEF CallInv
  <2> QED BY <1>1, <1>2, <2>1 DEF PageTrue
<1>12. (req[c].op = "list" =>
           /\ pc[c] \in {"sent", "served"} => ListSoFar(c)
           /\ pc[c] = "served" => PageTrue(c) /\ after[c] <= reply[c].upto)'
  <2>1. req[c].op = "list" /\ pc[c] = "served" => after[c] <= reply[c].upto
    BY DEF CallInv
  <2> QED BY <1>10, <1>11, <2>1
<1>13. (pc[c] = "backoff" => attempt[c] < MaxAttempts - 1 /\ delay[c] > 0)'
  BY DEF CallInv
<1> QED
  BY <1>3, <1>5, <1>6, <1>7, <1>8, <1>9, <1>12, <1>13 DEF CallInv

\* What a step of one caller leaves alone.
OnlyMoves(c) ==
    /\ UNCHANGED object
    /\ \A d \in Caller \ {c} :
           /\ pc'[d] = pc[d] /\ req'[d] = req[d] /\ step'[d] = step[d]
           /\ reply'[d] = reply[d] /\ files'[d] = files[d] /\ after'[d] = after[d]
           /\ effect'[d] = effect[d] /\ window'[d] = window[d]
           /\ attempt'[d] = attempt[d] /\ delay'[d] = delay[d]

LEMMA OthersKeep ==
  ASSUME ClientInv, NEW c \in Caller, OnlyMoves(c), TypeOK',
         InCall(c)' => CallInv(c)'
  PROVE  ClientInv'
<1>1. ASSUME NEW d \in Caller, InCall(d)' PROVE CallInv(d)'
  <2>1. CASE d = c
    BY <1>1, <2>1
  <2>2. CASE d # c
    <3>1. CallInv(d)
      BY <1>1, <2>2 DEF OnlyMoves, InCall, ClientInv
    <3>2. \A k \in Key : object[k] \in window[d][k]
      BY <3>1 DEF CallInv
    <3> QED BY <2>2, <3>1, <3>2, Bystander DEF OnlyMoves
  <2> QED BY <2>1, <2>2
<1> QED BY <1>1 DEF ClientInv

\* A step in which only S3 moves, and all callers look on.
LEMMA AllKeep ==
  ASSUME ClientInv, TypeOK', NEW store \in [Key -> Value],
         object' = store, window' = Seen(store),
         UNCHANGED <<pc, req, step, reply, files, after, effect, attempt, delay>>
  PROVE  ClientInv'
<1>1. ASSUME NEW d \in Caller, InCall(d)' PROVE CallInv(d)'
  <2>1. InCall(d) /\ CallInv(d)
    BY <1>1 DEF InCall, ClientInv
  <2>2. /\ \A k \in Key : window[d][k] \subseteq window'[d][k]
        /\ \A k \in Key : object'[k] \in window'[d][k]
    BY <2>1, SeenGrows DEF ClientInv
  <2> QED BY <2>1, <2>2, Bystander
<1> QED BY <1>1 DEF ClientInv

-----------------------------------------------------------------------------
(* The end of a call                                                        *)

LEMMA ReturnKeeps ==
  ASSUME ClientInv, NEW c \in Caller, NEW res \in Answer, Return(c, res),
         stray' \subseteq Request
  PROVE  ClientInv'
<1>1. TypeOK
  BY DEF ClientInv
<1>2. TypeOK'
  <2>1. NoWindow \in [Key -> SUBSET Value] /\ NoList \in [Key -> Nat]
    BY DEF NoWindow, NoList
  <2>2. 0 \in 0..(MaxAttempts - 1) /\ 0 \in 0..Keys
    BY ClientAssumption
  <2>3. /\ reply' \in [Caller -> Reply]
        /\ window' \in [Caller -> [Key -> SUBSET Value]]
        /\ files' \in [Caller -> [Key -> Nat]]
    BY <1>1, <2>1, NoReplyType DEF Return, TypeOK
  <2> QED BY <1>1, <2>2, <2>3 DEF Return, Goto, TypeOK, Control
<1>3. OnlyMoves(c)
  BY <1>1 DEF OnlyMoves, Return, Goto, TypeOK
<1>4. ~InCall(c)'
  BY <1>1 DEF InCall, Return, Goto, TypeOK
<1> QED BY <1>2, <1>3, <1>4, OthersKeep

LEMMA BackoffNumber == ASSUME NEW n \in 0..(MaxAttempts - 1)
                       PROVE  CalcBackoff(n) \in Int /\ CalcBackoff(n) > 0
<1>1. Half \in Nat /\ Half > 0 /\ BaseDelay \in Nat /\ BaseDelay > 0
  BY ClientAssumption
<1>2. ASSUME NEW x \in Int PROVE Wrapped(x) \in Int
  <2> DEFINE y == x % (2 * Half)
  <2>1. 2 * Half \in Nat /\ 2 * Half > 0
    BY <1>1
  <2>2. y \in Int
    BY <2>1
  <2>3. Wrapped(x) = IF y < Half THEN y ELSE y - 2 * Half
    BY DEF Wrapped
  <2> HIDE DEF y
  <2> QED BY <1>1, <2>1, <2>2, <2>3
<1>3. 2 ^ n \in Int
  BY ClientAssumption
<1>4. Wrapped(2 ^ n) \in Int
  BY <1>2, <1>3
<1>5. BaseDelay * Wrapped(2 ^ n) \in Int
  BY <1>1, <1>4
<1> DEFINE e == Wrapped(BaseDelay * Wrapped(2 ^ n))
<1>6. e \in Int
  BY <1>2, <1>5
<1>7. CalcBackoff(n) = IF e <= 0 THEN BaseDelay ELSE e
  BY DEF CalcBackoff
<1> HIDE DEF e
<1> QED BY <1>1, <1>6, <1>7

LEMMA FailedKeeps ==
  ASSUME ClientInv, NEW c \in Caller, pc[c] \in {"sent", "served"}, Failed(c),
         stray' \subseteq Request
  PROVE  ClientInv'
<1>1. TypeOK /\ CallInv(c)
  BY DEF ClientInv, InCall
<1>2. CASE attempt[c] < MaxAttempts - 1
  <2>1. /\ Goto(c, "backoff")
        /\ delay' = [delay EXCEPT ![c] = CalcBackoff(attempt[c])]
        /\ reply' = [reply EXCEPT ![c] = NoReply]
        /\ UNCHANGED <<object, window, effect, req, step, attempt, expired,
                       listVars, result, made>>
    BY <1>2 DEF Failed
  <2>2. CalcBackoff(attempt[c]) \in Int /\ CalcBackoff(attempt[c]) > 0
    BY <1>1, BackoffNumber DEF TypeOK
  <2>3. TypeOK'
    <3>1. reply' \in [Caller -> Reply]
      BY <1>1, <2>1, NoReplyType DEF TypeOK
    <3> QED BY <1>1, <2>1, <2>2, <3>1 DEF TypeOK, Goto, Control, listVars
  <2>4. OnlyMoves(c)
    BY <1>1, <2>1 DEF OnlyMoves, Goto, TypeOK, listVars
  <2>5. pc'[c] = "backoff" /\ delay'[c] > 0 /\ attempt'[c] < MaxAttempts - 1
    BY <1>1, <1>2, <2>1, <2>2 DEF Goto, TypeOK
  <2>6. CallInv(c)'
    BY <1>1, <2>1, <2>5 DEF CallInv, Writes, Mutates, Reads, WasNot, listVars
  <2> QED BY <2>3, <2>4, <2>6, OthersKeep
<1>3. CASE ~(attempt[c] < MaxAttempts - 1)
  <2>1. Return(c, Plain("failed"))
    BY <1>3 DEF Failed
  <2>2. Plain("failed") \in Answer
    BY PlainType DEF Kinds
  <2> QED BY <2>1, <2>2, ReturnKeeps
<1> QED BY <1>2, <1>3

-----------------------------------------------------------------------------
(* The steps of a call                                                      *)

LEMMA InvokeKeeps ==
  ASSUME ClientInv, NEW c \in Caller, NEW r \in Request, Invoke(c, r)
  PROVE  ClientInv'
<1>1. TypeOK
  BY DEF ClientInv
<1>2. TypeOK'
  <2>1. window' \in [Caller -> [Key -> SUBSET Value]]
    BY <1>1 DEF Invoke, TypeOK
  <2>2. 0 \in 0..(MaxAttempts - 1)
    BY ClientAssumption
  <2> QED BY <1>1, <2>1, <2>2 DEF Invoke, Goto, TypeOK, Control, listVars
<1>3. OnlyMoves(c)
  BY <1>1 DEF OnlyMoves, Invoke, Goto, TypeOK, listVars
<1>4. CallInv(c)'
  <2>1. /\ req'[c] = r /\ pc'[c] \in {"refuse", "attempt"}
        /\ step'[c] = (IF r.op = "putNew" THEN "head" ELSE "act")
        /\ ~effect'[c] /\ object' = object
        /\ window'[c] = [k \in Key |-> {object[k]}]
    BY <1>1 DEF Invoke, Goto, TypeOK
  <2> QED BY <2>1 DEF CallInv, Writes, Mutates, Reads, WasNot
<1> QED BY <1>2, <1>3, <1>4, OthersKeep

LEMMA SendKeeps ==
  ASSUME ClientInv, NEW c \in Caller, Send(c)
  PROVE  ClientInv'
<1>1. TypeOK /\ CallInv(c)
  BY DEF ClientInv, InCall, Send
<1>2. TypeOK'
  <2>1. NoList \in [Key -> Nat] /\ 0 \in 0..Keys
    BY ClientAssumption DEF NoList
  <2> QED BY <1>1, <2>1 DEF Send, Goto, TypeOK, Control, serverVars, loopVars
<1>3. OnlyMoves(c)
  BY <1>1 DEF OnlyMoves, Send, Goto, TypeOK, serverVars, loopVars
<1>4. CallInv(c)'
  <2>1. pc'[c] = "sent" /\ files'[c] = NoList /\ after'[c] = 0 /\ pc[c] = "attempt"
    BY <1>1 DEF Send, Goto, TypeOK
  <2>2. \A k \in Key : ~(k <= 0)
    BY DEF Key
  <2>3. ListSoFar(c)'
    BY <2>1, <2>2 DEF ListSoFar, NoList
  <2>4. UNCHANGED <<object, window, effect, req, step, reply>>
    BY DEF Send, serverVars, loopVars
  <2> QED BY <1>1, <2>1, <2>3, <2>4 DEF CallInv, Writes, Mutates, Reads, WasNot
<1> QED BY <1>2, <1>3, <1>4, OthersKeep

LEMMA ExpireKeeps ==
  ASSUME ClientInv, NEW c \in Caller, Expire(c)
  PROVE  ClientInv'
<1>1. TypeOK
  BY DEF ClientInv
<1>2. TypeOK'
  BY <1>1 DEF Expire, TypeOK, serverVars, listVars
<1>3. ASSUME NEW d \in Caller, InCall(d)' PROVE CallInv(d)'
  <2>1. UNCHANGED <<pc, req, step, reply, files, after, effect, window, object,
                    attempt, delay>>
    BY DEF Expire, serverVars, listVars
  <2>2. InCall(d) /\ CallInv(d)
    BY <1>3, <2>1 DEF InCall, ClientInv
  <2>3. \A k \in Key : object[k] \in window[d][k]
    BY <2>2 DEF CallInv
  <2> QED BY <2>1, <2>2, <2>3, Bystander
<1> QED BY <1>2, <1>3 DEF ClientInv

LEMMA WakeUpKeeps ==
  ASSUME ClientInv, NEW c \in Caller, WakeUp(c)
  PROVE  ClientInv'
<1>1. TypeOK /\ CallInv(c)
  BY DEF ClientInv, InCall, WakeUp
<1>2. OnlyMoves(c)
  BY <1>1 DEF OnlyMoves, WakeUp, Goto, TypeOK, serverVars, listVars
<1>6. TypeOK'
  <2>1. attempt[c] \in 0..(MaxAttempts - 1) /\ attempt[c] < MaxAttempts - 1
    BY <1>1 DEF TypeOK, CallInv, WakeUp
  <2>2. attempt[c] + 1 \in 0..(MaxAttempts - 1)
    BY <2>1, ClientAssumption
  <2> QED BY <1>1, <2>2 DEF WakeUp, Goto, TypeOK, Control, serverVars, listVars
<1>3. pc'[c] = "attempt" /\ pc[c] = "backoff"
  BY <1>1 DEF WakeUp, Goto, TypeOK
<1>4. UNCHANGED <<object, window, effect, req, step, reply>>
  BY DEF WakeUp, serverVars
<1>5. CallInv(c)'
  BY <1>1, <1>3, <1>4 DEF CallInv, Writes, Mutates, Reads, WasNot
<1> QED BY <1>2, <1>5, <1>6, OthersKeep

LEMMA PutAfterExistsKeeps ==
  ASSUME ClientInv, NEW c \in Caller, PutAfterExists(c)
  PROVE  ClientInv'
<1>1. TypeOK /\ CallInv(c)
  BY DEF ClientInv, InCall, PutAfterExists
<1>2. TypeOK'
  <2>1. 0 \in 0..(MaxAttempts - 1)
    BY ClientAssumption
  <2>2. reply' \in [Caller -> Reply]
    BY <1>1, NoReplyType DEF TypeOK, PutAfterExists
  <2> QED BY <1>1, <2>1, <2>2 DEF PutAfterExists, Goto, TypeOK, Control, serverVars, listVars
<1>3. OnlyMoves(c)
  BY <1>1 DEF OnlyMoves, PutAfterExists, Goto, TypeOK, serverVars, listVars
<1>4. CallInv(c)'
  <2>1. /\ pc'[c] = "attempt" /\ step'[c] = "act" /\ pc[c] = "served"
        /\ step[c] = "head" /\ ~reply[c].ok
    BY <1>1 DEF PutAfterExists, Goto, TypeOK
  <2>2. UNCHANGED <<object, window, effect, req>>
    BY DEF PutAfterExists, serverVars
  <2>3. WasNot(c, req[c].key) /\ ~effect[c] /\ req[c].op = "putNew"
    BY <1>1, <2>1 DEF CallInv, Reads
  <2> QED BY <1>1, <2>1, <2>2, <2>3 DEF CallInv, Writes, Mutates, Reads, WasNot
<1> QED BY <1>2, <1>3, <1>4, OthersKeep

\* Files and page together are right up to the end of the page.
LEMMA AppendedTrue ==
  ASSUME TypeOK, NEW c \in Caller, ListSoFar(c), PageTrue(c), after[c] <= reply[c].upto
  PROVE  /\ Appended(c) \in [Key -> Nat]
         /\ \A k \in Key :
                IF k \in req[c].prefix /\ k <= reply[c].upto
                THEN \/ Appended(c)[k] = 0 /\ WasNot(c, k)
                     \/ Appended(c)[k] = 1 /\ Was(c, k)
                ELSE Appended(c)[k] = 0
<1>1. \A k \in Key : files[c][k] \in Nat
  BY DEF TypeOK
<1>2. after[c] \in Int /\ reply[c].upto \in Int
  BY ClientAssumption DEF TypeOK, Reply
<1>3. \A k \in Key : k \in Int
  BY ClientAssumption DEF Key
<1>4. \A k \in Key : Appended(c)[k] = files[c][k] + (IF k \in reply[c].page THEN 1 ELSE 0)
  BY DEF Appended
<1>5. Appended(c) \in [Key -> Nat]
  BY <1>1 DEF Appended
<1>6. ASSUME NEW k \in Key
      PROVE  IF k \in req[c].prefix /\ k <= reply[c].upto
             THEN \/ Appended(c)[k] = 0 /\ WasNot(c, k)
                  \/ Appended(c)[k] = 1 /\ Was(c, k)
             ELSE Appended(c)[k] = 0
  <2>1. IF k \in req[c].prefix /\ k <= after[c]
        THEN \/ files[c][k] = 0 /\ WasNot(c, k)
             \/ files[c][k] = 1 /\ Was(c, k)
        ELSE files[c][k] = 0
    BY DEF ListSoFar
  <2>2. IF k \in req[c].prefix /\ after[c] < k /\ k <= reply[c].upto
        THEN IF k \in reply[c].page THEN Was(c, k) ELSE WasNot(c, k)
        ELSE k \notin reply[c].page
    BY DEF PageTrue
  <2> QED BY <1>1, <1>2, <1>3, <1>4, <2>1, <2>2
<1> QED BY <1>5, <1>6

LEMMA NextPageKeeps ==
  ASSUME ClientInv, NEW c \in Caller, NextPage(c)
  PROVE  ClientInv'
<1>1. TypeOK /\ CallInv(c)
  BY DEF ClientInv, InCall, NextPage
<1>2. /\ pc[c] = "served" /\ req[c].op = "list"
      /\ ListSoFar(c) /\ PageTrue(c) /\ after[c] <= reply[c].upto
  BY <1>1 DEF NextPage, CallInv
<1>3. TypeOK'
  <2>1. Appended(c) \in [Key -> Nat]
    BY <1>1, <1>2, AppendedTrue
  <2>2. reply' \in [Caller -> Reply] /\ reply[c].upto \in 0..Keys
    BY <1>1, NoReplyType DEF TypeOK, NextPage, Reply
  <2> QED BY <1>1, <2>1, <2>2 DEF NextPage, Goto, TypeOK, Control, serverVars, loopVars
<1>4. OnlyMoves(c)
  BY <1>1 DEF OnlyMoves, NextPage, Goto, TypeOK, serverVars, loopVars
<1>5. CallInv(c)'
  <2>1. /\ pc'[c] = "sent" /\ files'[c] = Appended(c) /\ after'[c] = reply[c].upto
    BY <1>1 DEF NextPage, Goto, TypeOK
  <2>2. UNCHANGED <<object, window, effect, req, step>>
    BY DEF NextPage, serverVars, loopVars
  <2>3. ListSoFar(c)'
    BY <1>1, <1>2, <2>1, <2>2, AppendedTrue DEF ListSoFar, Was, WasNot
  <2> QED BY <1>1, <1>2, <2>1, <2>2, <2>3 DEF CallInv, Writes, Mutates, Reads, WasNot
<1> QED BY <1>3, <1>4, <1>5, OthersKeep

-----------------------------------------------------------------------------
(* The steps of S3                                                          *)

LEMMA ServeReadKeeps ==
  ASSUME ClientInv, NEW c \in Caller, ServeRead(c)
  PROVE  ClientInv'
<1>1. TypeOK /\ CallInv(c)
  BY DEF ClientInv, InCall, ServeRead
<1>2. req[c] \in Request /\ Reads(c) /\ ~Writes(c) /\ req[c].op # "list"
  BY <1>1 DEF CallInv, ServeRead, Reads, Writes, Mutates
<1>3. req[c].key \in Key
  BY <1>2, RequestFacts
<1> DEFINE v == object[req[c].key]
<1>4. v \in Value /\ v \in window[c][req[c].key]
  BY <1>1, <1>3 DEF TypeOK, CallInv
<1> DEFINE found == v # Absent
           answer == [NoReply EXCEPT !.ok = found, !.data = v]
<1>5. found \in BOOLEAN
  OBVIOUS
<1>10. answer \in Reply /\ answer.data = v /\ answer.ok = found
  <2>1. 0 \in 0..Keys /\ v \in Value
    BY <1>4, ClientAssumption
  <2> HIDE DEF v, found
  <2> QED BY <1>5, <2>1 DEF Reply, NoReply
<1>6. reply' = [reply EXCEPT ![c] = answer]
  BY DEF ServeRead
<1> HIDE DEF answer
<1>7. TypeOK'
  BY <1>1, <1>10, <1>6 DEF ServeRead, Goto, TypeOK, Control, serverVars, loopVars, listVars
<1>8. OnlyMoves(c)
  BY <1>1, <1>6 DEF OnlyMoves, ServeRead, Goto, TypeOK, serverVars, loopVars, listVars
<1>9. CallInv(c)'
  <2>1. pc'[c] = "served" /\ reply'[c] = answer
    BY <1>1, <1>6 DEF ServeRead, Goto, TypeOK
  <2>2. UNCHANGED <<object, window, effect, req, step, files, after>> /\ pc[c] = "sent"
    BY DEF ServeRead, serverVars, loopVars, listVars
  <2>3. IF answer.ok THEN answer.data \in Data \cap window[c][req[c].key]
        ELSE WasNot(c, req[c].key)
    BY <1>4, <1>10 DEF WasNot, Value
  <2> QED
    BY <1>1, <1>2, <2>1, <2>2, <2>3 DEF CallInv, Writes, Mutates, Reads, WasNot
<1> QED BY <1>7, <1>8, <1>9, OthersKeep

LEMMA ServePageKeeps ==
  ASSUME ClientInv, NEW c \in Caller, ServePage(c)
  PROVE  ClientInv'
<1>1. TypeOK /\ CallInv(c)
  BY DEF ClientInv, InCall, ServePage
<1>2. PICK upto \in after[c]..Keys :
        /\ upto > after[c] \/ upto = Keys
        /\ reply' = [reply EXCEPT ![c] =
            [NoReply EXCEPT
                !.ok = TRUE, !.upto = upto,
                !.page = {k \in req[c].prefix :
                    after[c] < k /\ k <= upto /\ object[k] # Absent}]]
  BY Zenon DEF ServePage
<1> DEFINE page == {k \in req[c].prefix :
                       after[c] < k /\ k <= upto /\ object[k] # Absent}
           answer == [NoReply EXCEPT !.ok = TRUE, !.upto = upto, !.page = page]
<1>3. /\ req[c] \in Request /\ req[c].op = "list" /\ pc[c] = "sent"
      /\ ~Mutates(req[c]) /\ step[c] # "head"
  BY <1>1 DEF CallInv, ServePage, Mutates
<1>4. req[c].prefix \subseteq Key /\ after[c] \in 0..Keys /\ upto \in 0..Keys /\ after[c] <= upto
  BY <1>1, <1>3, RequestFacts, ClientAssumption DEF TypeOK
<1>5. /\ answer \in Reply /\ answer.page = page /\ answer.upto = upto
  <2>1. page \in SUBSET Key
    BY <1>4
  <2> HIDE DEF page
  <2> QED BY <1>4, <2>1, NoReplyType DEF NoReply, Reply
<1>6. reply' = [reply EXCEPT ![c] = answer]
  BY <1>2
<1> HIDE DEF answer
<1>7. TypeOK'
  BY <1>1, <1>5, <1>6 DEF ServePage, Goto, TypeOK, Control, serverVars, loopVars, listVars
<1>8. OnlyMoves(c)
  BY <1>1, <1>6 DEF OnlyMoves, ServePage, Goto, TypeOK, serverVars, loopVars, listVars
<1>9. CallInv(c)'
  <2>1. pc'[c] = "served" /\ reply'[c] = answer
    BY <1>1, <1>6 DEF ServePage, Goto, TypeOK
  <2>2. UNCHANGED <<object, window, effect, req, step, files, after>>
    BY DEF ServePage, serverVars, loopVars, listVars
  <2>3. ListSoFar(c)'
    BY <1>1, <1>3, <2>2 DEF CallInv, ListSoFar, Was, WasNot
  <2>4. \A k \in Key : object[k] \in window[c][k] /\ object[k] \in Data \cup {Absent}
    BY <1>1 DEF CallInv, TypeOK, Value
  <2>5. PageTrue(c)'
    <3>1. ASSUME NEW k \in Key
          PROVE  IF k \in req[c].prefix /\ after[c] < k /\ k <= upto
                 THEN IF k \in page THEN Was(c, k) ELSE WasNot(c, k)
                 ELSE k \notin page
      BY <2>4 DEF Was, WasNot
    <3> HIDE DEF page
    <3> QED BY <1>5, <2>1, <2>2, <3>1 DEF PageTrue, Was, WasNot
  <2>6. (after[c] <= reply[c].upto)'
    BY <1>4, <1>5, <2>1, <2>2
  <2> QED
    BY <1>1, <1>3, <2>1, <2>2, <2>3, <2>5, <2>6 DEF CallInv, Writes, Mutates, Reads, WasNot
<1> QED BY <1>7, <1>8, <1>9, OthersKeep

LEMMA ServeWriteKeeps ==
  ASSUME ClientInv, NEW c \in Caller, ServeWrite(c)
  PROVE  ClientInv'
<1>1. TypeOK /\ CallInv(c)
  BY DEF ClientInv, InCall, ServeWrite
<1>2. /\ req[c] \in Request /\ Mutates(req[c]) /\ step[c] = "act" /\ pc[c] = "sent"
      /\ ~Reads(c) /\ req[c].op # "list"
  BY <1>1 DEF CallInv, ServeWrite, Writes, Reads, Mutates
<1>3. UNCHANGED <<req, step, files, after, attempt, delay, stray, expired, result, made>>
  BY DEF ServeWrite, loopVars, listVars
<1>4. pc' = [pc EXCEPT ![c] = "served"]
  BY DEF ServeWrite, Goto
<1>5. CASE Applicable(req[c], object)
  <2> DEFINE store == Written(req[c], object)
             answer == [NoReply EXCEPT !.ok = TRUE]
  <2>1. /\ object' = store /\ window' = Seen(store)
        /\ effect' = [effect EXCEPT ![c] = TRUE]
        /\ reply' = [reply EXCEPT ![c] = answer]
    BY <1>5 DEF ServeWrite
  <2>2. store \in [Key -> Value]
    BY <1>1, <1>2, <1>5, WrittenType DEF TypeOK
  <2>3. answer \in Reply
    BY NoReplyType DEF NoReply, Reply
  <2> HIDE DEF store, answer
  <2>4. TypeOK'
    BY <1>1, <1>3, <1>4, <2>1, <2>2, <2>3, SeenGrows DEF TypeOK, Control
  <2>5. ASSUME NEW d \in Caller, d # c, InCall(d)' PROVE CallInv(d)'
    <3>1. InCall(d) /\ CallInv(d)
      BY <1>1, <1>4, <2>5 DEF InCall, ClientInv, TypeOK
    <3>2. /\ \A k \in Key : window[d][k] \subseteq window'[d][k]
          /\ \A k \in Key : object'[k] \in window'[d][k]
      BY <1>1, <2>1, <2>2, <3>1, SeenGrows
    <3>3. pc'[d] = pc[d] /\ reply'[d] = reply[d] /\ effect'[d] = effect[d]
      BY <1>1, <1>4, <2>1, <2>5 DEF TypeOK
    <3> QED BY <1>3, <3>1, <3>2, <3>3, Bystander
  <2>6. CallInv(c)'
    <3>1. pc'[c] = "served" /\ effect'[c]
      BY <1>1, <1>4, <2>1 DEF TypeOK
    <3>2. /\ \A k \in Key : window[c][k] \subseteq window'[c][k]
          /\ \A k \in Key : object'[k] \in window'[c][k]
      BY <1>1, <1>2, <2>1, <2>2, SeenGrows DEF InCall
    <3>3. req[c].key \in Key
      BY <1>2, RequestFacts
    <3>4. req[c].op = "putNew" => WasNot(c, req[c].key)
      BY <1>1, <1>2 DEF CallInv
    <3>5. (req[c].op = "putNew" => WasNot(c, req[c].key))'
      BY <1>3, <3>2, <3>3, <3>4 DEF WasNot
    <3> QED
      BY <1>1, <1>2, <1>3, <3>1, <3>2, <3>5 DEF CallInv, Writes, Mutates, Reads
  <2> QED BY <2>4, <2>5, <2>6 DEF ClientInv
<1>6. CASE ~Applicable(req[c], object)
  <2>1. reply' = [reply EXCEPT ![c] = NoReply] /\ UNCHANGED <<object, window, effect>>
    BY <1>6 DEF ServeWrite
  <2>2. TypeOK'
    <3>1. reply' \in [Caller -> Reply]
      BY <1>1, <2>1, NoReplyType DEF TypeOK
    <3> QED BY <1>1, <1>3, <1>4, <2>1, <3>1 DEF TypeOK, Control
  <2>3. OnlyMoves(c)
    BY <1>1, <1>3, <1>4, <2>1 DEF OnlyMoves, TypeOK
  <2>4. pc'[c] = "served" /\ ~reply'[c].ok
    BY <1>1, <1>4, <2>1 DEF TypeOK, NoReply
  <2>5. CallInv(c)'
    BY <1>1, <1>2, <1>3, <2>1, <2>4 DEF CallInv, Writes, Mutates, Reads, WasNot
  <2> QED BY <2>2, <2>3, <2>5, OthersKeep
<1> QED BY <1>5, <1>6

LEMMA LateEffectKeeps ==
  ASSUME ClientInv, NEW r \in stray, LateEffect(r)
  PROVE  ClientInv'
<1>1. TypeOK /\ r \in Request
  BY DEF ClientInv, TypeOK
<1> DEFINE store == IF Applicable(r, object) THEN Written(r, object) ELSE object
<1>2. store \in [Key -> Value]
  BY <1>1, WrittenType DEF TypeOK
<1>3. /\ object' = store /\ window' = Seen(store) /\ stray' = stray \ {r}
      /\ UNCHANGED <<effect, pc, req, step, attempt, expired, delay, reply, files,
                     after, result, made>>
  BY DEF LateEffect, loopVars, listVars
<1> HIDE DEF store
<1>4. TypeOK'
  BY <1>1, <1>2, <1>3, SeenGrows DEF TypeOK
<1> QED BY <1>2, <1>3, <1>4, AllKeep

-----------------------------------------------------------------------------
(* The answers                                                              *)

LEMMA LoseKeeps ==
  ASSUME ClientInv, NEW c \in Caller, Lose(c)
  PROVE  ClientInv'
<1>1. pc[c] \in {"sent", "served"} /\ Failed(c)
  BY DEF Lose
<1>2. TypeOK /\ req[c] \in Request
  BY <1>1 DEF ClientInv, InCall, CallInv
<1>3. stray' \subseteq Request
  BY <1>2 DEF Lose, TypeOK
<1> QED BY <1>1, <1>3, FailedKeeps

\* An answer is one of Answer.
LEMMA AnswerTypes ==
  /\ Plain("refused") \in Answer /\ Plain("failed") \in Answer
  /\ Plain("done") \in Answer /\ Plain("created") \in Answer
  /\ Plain("present") \in Answer /\ Plain("missing") \in Answer
  /\ \A v \in Value : [Plain("data") EXCEPT !.data = v] \in Answer
  /\ \A f \in [Key -> Nat] : [Plain("list") EXCEPT !.list = f] \in Answer
<1>1. \A k \in Kinds : Plain(k) \in Answer
  BY PlainType
<1>2. {"refused", "failed", "done", "created", "present", "missing", "data", "list"}
        \subseteq Kinds
  BY DEF Kinds
<1>3. \A v \in Value : [Plain("data") EXCEPT !.data = v] \in Answer
  BY <1>1, <1>2 DEF Answer
<1>4. \A f \in [Key -> Nat] : [Plain("list") EXCEPT !.list = f] \in Answer
  BY <1>1, <1>2 DEF Answer
<1> QED BY <1>1, <1>2, <1>3, <1>4

LEMMA LastPageAnswer ==
  ASSUME ClientInv, NEW c \in Caller, LastPage(c)
  PROVE  /\ Appended(c) \in [Key -> Nat]
         /\ \A k \in Key :
                IF k \in req[c].prefix
                THEN \/ Appended(c)[k] = 0 /\ WasNot(c, k)
                     \/ Appended(c)[k] = 1 /\ Was(c, k)
                ELSE Appended(c)[k] = 0
<1>1. TypeOK /\ CallInv(c)
  BY DEF ClientInv, InCall, LastPage
<1>2. /\ pc[c] = "served" /\ req[c].op = "list" /\ reply[c].upto = Keys
      /\ ListSoFar(c) /\ PageTrue(c) /\ after[c] <= reply[c].upto
  BY <1>1 DEF LastPage, CallInv
<1>3. \A k \in Key : k <= Keys
  BY ClientAssumption DEF Key
<1> QED BY <1>1, <1>2, <1>3, AppendedTrue

LEMMA EndKeeps ==
  ASSUME ClientInv, NEW c \in Caller,
         \/ Refuse(c) \/ Cancelled(c) \/ WriteOk(c) \/ CopyNotFound(c)
         \/ GetOk(c) \/ BodyFails(c) \/ ExistsTrue(c) \/ NotFound(c)
         \/ LastPage(c)
  PROVE  ClientInv'
<1>1. TypeOK /\ stray \subseteq Request
  BY DEF ClientInv, TypeOK
<1>2. CASE Refuse(c)
  BY <1>1, <1>2, AnswerTypes, ReturnKeeps DEF Refuse
<1>3. CASE Cancelled(c)
  BY <1>1, <1>3, AnswerTypes, ReturnKeeps DEF Cancelled
<1>4. CASE WriteOk(c)
  <2>1. Plain(IF req[c].op = "putNew" THEN "created" ELSE "done") \in Answer
    BY AnswerTypes
  <2> QED BY <1>1, <1>4, <2>1, ReturnKeeps DEF WriteOk
<1>5. CASE CopyNotFound(c)
  BY <1>1, <1>5, FailedKeeps DEF CopyNotFound
<1>6. CASE GetOk(c)
  <2>1. reply[c].data \in Value
    BY <1>1 DEF TypeOK, Reply
  <2>2. [Plain("data") EXCEPT !.data = reply[c].data] \in Answer
    BY <2>1, AnswerTypes
  <2> QED BY <1>1, <1>6, <2>2, ReturnKeeps DEF GetOk
<1>7. CASE BodyFails(c)
  BY <1>1, <1>7, AnswerTypes, ReturnKeeps DEF BodyFails
<1>8. CASE ExistsTrue(c)
  BY <1>1, <1>8, AnswerTypes, ReturnKeeps DEF ExistsTrue
<1>9. CASE NotFound(c)
  BY <1>1, <1>9, AnswerTypes, ReturnKeeps DEF NotFound
<1>10. CASE LastPage(c)
  <2>1. [Plain("list") EXCEPT !.list = Appended(c)] \in Answer
    BY <1>10, LastPageAnswer, AnswerTypes
  <2> QED BY <1>1, <1>10, <2>1, ReturnKeeps DEF LastPage
<1> QED BY <1>2, <1>3, <1>4, <1>5, <1>6, <1>7, <1>8, <1>9, <1>10

-----------------------------------------------------------------------------
(* The invariant                                                            *)

LEMMA ClientStart == Init => ClientInv
<1> SUFFICES ASSUME Init PROVE ClientInv
  OBVIOUS
<1>1. 0 \in 0..(MaxAttempts - 1) /\ 0 \in 0..Keys
  BY ClientAssumption
<1>2. /\ NoList \in [Key -> Nat] /\ NoWindow \in [Key -> SUBSET Value]
      /\ Plain("none") \in Answer
  BY PlainType DEF NoList, NoWindow, Kinds
<1>3. TypeOK
  BY <1>1, <1>2, NoReplyType DEF Init, TypeOK, Control
<1> QED BY <1>3 DEF ClientInv, InCall, Init

LEMMA ClientNext == ClientInv /\ [Next]_vars => ClientInv'
<1> SUFFICES ASSUME ClientInv, [Next]_vars PROVE ClientInv'
  OBVIOUS
<1>1. CASE UNCHANGED vars
  <2>1. UNCHANGED <<object, stray, window, effect, pc, req, step, attempt, expired,
                    delay, reply, files, after, result, made>>
    BY <1>1 DEF vars, serverVars, loopVars, listVars
  <2> QED
    BY <2>1 DEF ClientInv, TypeOK, InCall, CallInv, Writes, Mutates, Reads, Was,
                WasNot, ListSoFar, PageTrue
<1>2. ASSUME NEW c \in Caller, NEW r \in Request, Invoke(c, r) PROVE ClientInv'
  BY <1>2, InvokeKeeps
<1>3. ASSUME NEW c \in Caller, Client(c) PROVE ClientInv'
  BY <1>3, EndKeeps, SendKeeps, WakeUpKeeps, LoseKeeps, PutAfterExistsKeeps,
     NextPageKeeps DEF Client, Receive
<1>4. ASSUME NEW c \in Caller, Serve(c) PROVE ClientInv'
  BY <1>4, ServeWriteKeeps, ServeReadKeeps, ServePageKeeps DEF Serve
<1>5. ASSUME NEW c \in Caller, Expire(c) PROVE ClientInv'
  BY <1>5, ExpireKeeps
<1>6. ASSUME NEW r \in stray, LateEffect(r) PROVE ClientInv'
  BY <1>6, LateEffectKeeps
<1> QED BY <1>1, <1>2, <1>3, <1>4, <1>5, <1>6 DEF Next

\* What a call has collected so far, over all its attempts and pages, was true
\* at some moment of the call (client.go:97-379), for any number of callers,
\* names, contents and attempts.
THEOREM ClientInvHolds == Spec => []ClientInv
<1> QED BY ClientStart, ClientNext, PTL DEF Spec

\* rand.Int63n is never called with zero or less (retry.go:43-49), whatever the
\* width of the integers and the number of attempts.
THEOREM BackoffIsPositive == Spec => []BackoffArgumentPositive
<1>1. ClientInv => BackoffArgumentPositive
  BY DEF ClientInv, InCall, CallInv, BackoffArgumentPositive
<1> QED BY <1>1, ClientInvHolds, PTL

-----------------------------------------------------------------------------
(* The client implements the object store                                   *)

LEMMA StoreInit == Init => Store!Init
<1> SUFFICES ASSUME Init PROVE Store!Init
  OBVIOUS
<1>1. Plain("none") = Store!NoAnswer /\ NoWindow = Store!NoWindow
  BY DEF Plain, NoList, NoWindow, Store!NoAnswer, Store!NoWindow
<1>2. {c \in Caller : InCall(c)} = {}
  BY DEF Init, InCall
<1>3. object \in [Key -> Store!Value]
  BY DEF Init, Value, Store!Value
<1> QED BY <1>1, <1>2, <1>3 DEF Init, Store!Init

\* Attempts, pages, sleeps and deadlines are inside a call.
LEMMA Stutters ==
  ASSUME TypeOK, NEW c \in Caller, InCall(c), NEW l \in Control \ {"idle"},
         pc' = pc \/ Goto(c, l),
         UNCHANGED <<object, stray, req, window, effect, result>>
  PROVE  UNCHANGED Store!vars
<1>1. \A d \in Caller : InCall(d)' <=> InCall(d)
  BY DEF InCall, Goto, TypeOK
<1>2. {d \in Caller : InCall(d)}' = {d \in Caller : InCall(d)}
  BY <1>1
<1> QED BY <1>2 DEF Store!vars

\* A call that ends with a true answer.
LEMMA ReturnMaps ==
  ASSUME TypeOK, NEW c \in Caller, InCall(c), NEW res, Return(c, res),
         Store!Truthful(c, res),
         \/ UNCHANGED stray
         \/ res.kind = "failed" /\ Mutates(req[c]) /\ stray' = stray \cup {req[c]}
  PROVE  Store!Next
<1>1. result' = [result EXCEPT ![c] = res] /\ result'[c] = res
  BY DEF Return, TypeOK
<1>2. {d \in Caller : InCall(d)}' = {d \in Caller : InCall(d)} \ {c}
  <2>1. \A d \in Caller : InCall(d)' <=> (InCall(d) /\ d # c)
    BY DEF Return, Goto, InCall, TypeOK
  <2> QED BY <2>1
<1>3. NoWindow = Store!NoWindow
  BY DEF NoWindow, Store!NoWindow
<1>4. Store!Mutates(req[c]) <=> Mutates(req[c])
  BY DEF Mutates, Store!Mutates
<1>5. Store!Return(c, res)
  BY <1>1, <1>2, <1>3, <1>4 DEF Store!Return, Return
<1> QED BY <1>1, <1>5 DEF Store!Next

LEMMA FailureIsTrue == ASSUME NEW c \in Caller PROVE Store!Truthful(c, Plain("failed"))
  BY DEF Store!Truthful, Plain

\* A failed attempt is inside the call, with or without a request left behind,
\* or it is the last one and says nothing.
LEMMA FailedMaps ==
  ASSUME ClientInv, NEW c \in Caller, pc[c] \in {"sent", "served"}, Failed(c),
         \/ UNCHANGED stray
         \/ Mutates(req[c]) /\ stray' = stray \cup {req[c]}
  PROVE  Store!Next \/ UNCHANGED Store!vars
<1>1. TypeOK /\ InCall(c)
  BY DEF ClientInv, InCall
<1>2. CASE attempt[c] < MaxAttempts - 1
  <2>1. /\ Goto(c, "backoff")
        /\ UNCHANGED <<object, window, effect, req, result>>
    BY <1>2 DEF Failed
  <2>2. "backoff" \in Control \ {"idle"}
    BY DEF Control
  <2>3. CASE UNCHANGED stray
    BY <1>1, <2>1, <2>2, <2>3, Stutters
  <2>4. CASE Mutates(req[c]) /\ stray' = stray \cup {req[c]}
    <3>1. {d \in Caller : InCall(d)}' = {d \in Caller : InCall(d)}
      <4>1. \A d \in Caller : InCall(d)' <=> InCall(d)
        BY <1>1, <2>1 DEF InCall, Goto, TypeOK
      <4> QED BY <4>1
    <3>2. Store!Mutates(req[c])
      BY <2>4 DEF Mutates, Store!Mutates
    <3>3. Store!Abandon(c)
      BY <1>1, <2>1, <2>4, <3>1, <3>2 DEF Store!Abandon
    <3> QED BY <3>3 DEF Store!Next
  <2> QED BY <2>3, <2>4
<1>3. CASE ~(attempt[c] < MaxAttempts - 1)
  <2>1. Return(c, Plain("failed"))
    BY <1>3 DEF Failed
  <2>2. Plain("failed").kind = "failed"
    BY DEF Plain
  <2> QED BY <1>1, <2>1, <2>2, FailureIsTrue, ReturnMaps
<1> QED BY <1>2, <1>3

LEMMA StoreOperators ==
  ASSUME NEW q, NEW store
  PROVE  /\ Store!Applicable(q, store) <=> Applicable(q, store)
         /\ Store!Written(q, store) = Written(q, store)
         /\ Store!Mutates(q) <=> Mutates(q)
         /\ Store!Seen(store) = Seen(store)
<1>1. /\ Store!Applicable(q, store) <=> Applicable(q, store)
      /\ Store!Written(q, store) = Written(q, store)
      /\ Store!Mutates(q) <=> Mutates(q)
  BY Zenon DEF Applicable, Store!Applicable, Written, Store!Written, Mutates, Store!Mutates
<1>2. ASSUME NEW c \in Caller
      PROVE  (IF c \in {d \in Caller : InCall(d)}
              THEN [k \in Key |-> window[c][k] \cup {store[k]}] ELSE window[c])
             = (IF pc[c] = "idle" THEN window[c]
                ELSE [k \in Key |-> window[c][k] \cup {store[k]}])
  BY DEF InCall
<1>3. Store!Seen(store) = Seen(store)
  BY <1>2, Zenon DEF Seen, Store!Seen
<1> QED BY <1>1, <1>3

LEMMA InvokeMaps ==
  ASSUME ClientInv, NEW c \in Caller, NEW r \in Request, Invoke(c, r)
  PROVE  Store!Next
<1>1. TypeOK
  BY DEF ClientInv
<1>2. {d \in Caller : InCall(d)}' = {d \in Caller : InCall(d)} \cup {c}
  <2>1. \A d \in Caller : InCall(d)' <=> (InCall(d) \/ d = c)
    BY <1>1 DEF Invoke, Goto, InCall, TypeOK
  <2> QED BY <2>1
<1>3. Store!Invoke(c, r)
  BY <1>2 DEF Store!Invoke, Invoke, InCall
<1> QED BY <1>3 DEF Store!Next

LEMMA ServeWriteMaps ==
  ASSUME ClientInv, NEW c \in Caller, ServeWrite(c)
  PROVE  Store!Next \/ UNCHANGED Store!vars
<1>1. /\ TypeOK /\ InCall(c) /\ Goto(c, "served") /\ Mutates(req[c])
      /\ UNCHANGED <<stray, req, result>>
  BY DEF ClientInv, InCall, ServeWrite, Writes
<1>2. CASE Applicable(req[c], object)
  <2>1. {d \in Caller : InCall(d)}' = {d \in Caller : InCall(d)}
    <3>1. \A d \in Caller : InCall(d)' <=> InCall(d)
      BY <1>1 DEF InCall, Goto, TypeOK
    <3> QED BY <3>1
  <2>2. /\ object' = Written(req[c], object) /\ window' = Seen(object')
        /\ effect' = [effect EXCEPT ![c] = TRUE]
    BY <1>2 DEF ServeWrite
  <2>3. /\ Store!Mutates(req[c]) /\ Store!Applicable(req[c], object)
        /\ object' = Store!Written(req[c], object) /\ window' = Store!Seen(object')
    BY <1>1, <1>2, <2>2, StoreOperators
  <2>4. Store!Effect(c)
    BY <1>1, <2>1, <2>2, <2>3 DEF Store!Effect
  <2> QED BY <2>4 DEF Store!Next
<1>3. CASE ~Applicable(req[c], object)
  <2>1. UNCHANGED <<object, window, effect>>
    BY <1>3 DEF ServeWrite
  <2>2. "served" \in Control \ {"idle"}
    BY DEF Control
  <2> QED BY <1>1, <2>1, <2>2, Stutters
<1> QED BY <1>2, <1>3

LEMMA LateEffectMaps ==
  ASSUME NEW r \in stray, LateEffect(r)
  PROVE  Store!Next
<1>1. {d \in Caller : InCall(d)}' = {d \in Caller : InCall(d)}
  BY DEF LateEffect, InCall
<1>2. /\ object' = IF Store!Applicable(r, object) THEN Store!Written(r, object) ELSE object
      /\ window' = Store!Seen(object')
  BY StoreOperators DEF LateEffect
<1>3. Store!LateEffect(r)
  BY <1>1, <1>2 DEF Store!LateEffect, LateEffect
<1> QED BY <1>3 DEF Store!Next

\* What each answer says was true during the call.
LEMMA EndMaps ==
  ASSUME ClientInv, NEW c \in Caller,
         \/ Refuse(c) \/ Cancelled(c) \/ WriteOk(c) \/ CopyNotFound(c)
         \/ GetOk(c) \/ BodyFails(c) \/ ExistsTrue(c) \/ NotFound(c)
         \/ LastPage(c)
  PROVE  Store!Next \/ UNCHANGED Store!vars
<1>1. TypeOK /\ InCall(c) /\ CallInv(c)
  BY DEF ClientInv, InCall, Refuse, Cancelled, WriteOk, CopyNotFound, GetOk,
         BodyFails, ExistsTrue, NotFound, LastPage
<1>2. CASE Refuse(c)
  <2>1. Store!Truthful(c, Plain("refused"))
    BY <1>1, <1>2 DEF Store!Truthful, Plain, CallInv, Refuse
  <2> QED BY <1>1, <1>2, <2>1, ReturnMaps DEF Refuse
<1>3. CASE Cancelled(c)
  BY <1>1, <1>3, FailureIsTrue, ReturnMaps DEF Cancelled
<1>4. CASE WriteOk(c)
  <2> DEFINE kind == IF req[c].op = "putNew" THEN "created" ELSE "done"
  <2>1. effect[c] /\ Mutates(req[c])
    BY <1>1, <1>4 DEF CallInv, WriteOk, Writes
  <2>2. req[c].op = "putNew" => Absent \in window[c][req[c].key]
    BY <1>1, <1>4 DEF CallInv, WriteOk, Writes, WasNot
  <2>3. Store!Truthful(c, Plain(kind)) => (Store!Next \/ UNCHANGED Store!vars)
    BY <1>1, <1>4, ReturnMaps DEF WriteOk
  <2> QED BY <2>1, <2>2, <2>3 DEF Store!Truthful, Plain, Mutates
<1>5. CASE CopyNotFound(c)
  BY <1>5, FailedMaps DEF CopyNotFound
<1>6. CASE GetOk(c)
  <2>1. req[c].op = "get" /\ reply[c].data \in Data \cap window[c][req[c].key]
    BY <1>1, <1>6 DEF CallInv, GetOk, Reads
  <2>2. Store!Truthful(c, [Plain("data") EXCEPT !.data = reply[c].data])
    BY <2>1 DEF Store!Truthful, Plain
  <2> QED BY <1>1, <1>6, <2>2, ReturnMaps DEF GetOk
<1>7. CASE BodyFails(c)
  BY <1>1, <1>7, FailureIsTrue, ReturnMaps DEF BodyFails
<1>8. CASE ExistsTrue(c)
  <2>1. Reads(c) /\ reply[c].data \in Data \cap window[c][req[c].key]
    BY <1>1, <1>8 DEF CallInv, ExistsTrue, Reads
  <2>2. req[c].op \in {"putNew", "exists"} /\ ~effect[c]
    BY <1>1, <1>8 DEF CallInv, ExistsTrue, Mutates
  <2>3. Store!Truthful(c, Plain("present"))
    BY <2>1, <2>2 DEF Store!Truthful, Plain
  <2> QED BY <1>1, <1>8, <2>3, ReturnMaps DEF ExistsTrue
<1>9. CASE NotFound(c)
  <2>1. req[c].op \in {"get", "exists"} /\ Absent \in window[c][req[c].key]
    BY <1>1, <1>9 DEF CallInv, NotFound, Reads, WasNot
  <2>2. Store!Truthful(c, Plain("missing"))
    BY <2>1 DEF Store!Truthful, Plain
  <2> QED BY <1>1, <1>9, <2>2, ReturnMaps DEF NotFound
<1>10. CASE LastPage(c)
  <2> DEFINE res == [Plain("list") EXCEPT !.list = Appended(c)]
  <2>1. res.kind = "list" /\ res.list = Appended(c)
    BY DEF Plain
  <2> HIDE DEF res
  <2>2. ASSUME NEW k \in Key
        PROVE  \/ res.list[k] = 0 /\ (k \in req[c].prefix => Absent \in window[c][k])
               \/ res.list[k] = 1 /\ k \in req[c].prefix
                  /\ \E v \in Data : v \in window[c][k]
    BY <1>10, <2>1, LastPageAnswer DEF Was, WasNot
  <2>3. req[c].op = "list"
    BY <1>10 DEF LastPage
  <2>4. Store!Truthful(c, res)
    BY <2>1, <2>2, <2>3 DEF Store!Truthful
  <2>5. Return(c, res) /\ UNCHANGED stray
    BY <1>10 DEF LastPage, res
  <2> QED BY <1>1, <2>4, <2>5, ReturnMaps
<1> QED BY <1>2, <1>3, <1>4, <1>5, <1>6, <1>7, <1>8, <1>9, <1>10

\* The other steps of a call are not seen from outside.
LEMMA InnerMaps ==
  ASSUME ClientInv, NEW c \in Caller,
         \/ Send(c) \/ WakeUp(c) \/ PutAfterExists(c) \/ NextPage(c)
         \/ ServeRead(c) \/ ServePage(c) \/ Expire(c)
  PROVE  UNCHANGED Store!vars
<1>1. TypeOK
  BY DEF ClientInv
<1>2. {"sent", "attempt", "served"} \subseteq Control \ {"idle"}
  BY DEF Control
<1>3. CASE Send(c)
  <2>1. InCall(c) /\ UNCHANGED <<object, stray, req, window, effect, result>>
    BY <1>3 DEF Send, InCall, serverVars
  <2>2. Goto(c, "sent")
    BY <1>3 DEF Send
  <2> QED BY <1>1, <1>2, <2>1, <2>2, Stutters
<1>4. CASE WakeUp(c)
  <2>1. InCall(c) /\ UNCHANGED <<object, stray, req, window, effect, result>>
    BY <1>4 DEF WakeUp, InCall, serverVars
  <2>2. Goto(c, "attempt")
    BY <1>4 DEF WakeUp
  <2> QED BY <1>1, <1>2, <2>1, <2>2, Stutters
<1>5. CASE PutAfterExists(c)
  <2>1. InCall(c) /\ UNCHANGED <<object, stray, req, window, effect, result>>
    BY <1>5 DEF PutAfterExists, InCall, serverVars
  <2>2. Goto(c, "attempt")
    BY <1>5 DEF PutAfterExists
  <2> QED BY <1>1, <1>2, <2>1, <2>2, Stutters
<1>6. CASE NextPage(c)
  <2>1. InCall(c) /\ UNCHANGED <<object, stray, req, window, effect, result>>
    BY <1>6 DEF NextPage, InCall, serverVars
  <2>2. Goto(c, "sent")
    BY <1>6 DEF NextPage
  <2> QED BY <1>1, <1>2, <2>1, <2>2, Stutters
<1>7. CASE ServeRead(c)
  <2>1. InCall(c) /\ UNCHANGED <<object, stray, req, window, effect, result>>
    BY <1>7 DEF ServeRead, InCall, serverVars
  <2>2. Goto(c, "served")
    BY <1>7 DEF ServeRead
  <2> QED BY <1>1, <1>2, <2>1, <2>2, Stutters
<1>8. CASE ServePage(c)
  <2>1. /\ pc[c] = "sent" /\ Goto(c, "served")
        /\ UNCHANGED <<serverVars, req, loopVars, listVars, result, made>>
    BY <1>8, Zenon DEF ServePage
  <2>2. InCall(c) /\ UNCHANGED <<object, stray, req, window, effect, result>>
    BY <2>1 DEF InCall, serverVars
  <2>3. Goto(c, "served")
    BY <2>1
  <2> QED BY <1>1, <1>2, <2>2, <2>3, Stutters
<1>9. CASE Expire(c)
  <2>1. InCall(c) /\ UNCHANGED <<object, stray, req, window, effect, result>>
    BY <1>9 DEF Expire, InCall, serverVars
  <2>2. pc' = pc
    BY <1>9 DEF Expire
  <2> QED BY <1>1, <1>2, <2>1, <2>2, Stutters
<1> QED BY <1>3, <1>4, <1>5, <1>6, <1>7, <1>8, <1>9

LEMMA LoseMaps ==
  ASSUME ClientInv, NEW c \in Caller, Lose(c)
  PROVE  Store!Next \/ UNCHANGED Store!vars
  BY FailedMaps DEF Lose, Writes

\* The S3 client, with its attempts, pages, sleeps, deadlines and requests that
\* arrive late, is the object store that the lock and the storage are built on
\* (interface.go:14-43, client.go, retry.go).
THEOREM ClientIsObjectStore == Spec => ImplementsObjectStore
<1>1. ASSUME ClientInv, [Next]_vars
      PROVE  [Store!Next]_(Store!vars)
  <2>1. CASE UNCHANGED vars
    BY <2>1 DEF vars, serverVars, Store!vars, InCall
  <2>2. ASSUME NEW c \in Caller, NEW r \in Request, Invoke(c, r)
        PROVE  Store!Next
    BY <1>1, <2>2, InvokeMaps
  <2>3. ASSUME NEW c \in Caller, Client(c) \/ Serve(c) \/ Expire(c)
        PROVE  Store!Next \/ UNCHANGED Store!vars
    BY <1>1, <2>3, EndMaps, InnerMaps, LoseMaps, ServeWriteMaps
       DEF Client, Receive, Serve
  <2>4. ASSUME NEW r \in stray, LateEffect(r) PROVE Store!Next
    BY <2>4, LateEffectMaps
  <2> QED BY <1>1, <2>1, <2>2, <2>3, <2>4 DEF Next
<1> QED BY <1>1, StoreInit, ClientInvHolds, PTL DEF Spec, Store!Spec, ImplementsObjectStore
=============================================================================
