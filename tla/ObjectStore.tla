---------------------------- MODULE ObjectStore ----------------------------
(***************************************************************************)
(* What S3ClientAPI (interface.go) promises to the storage above it.  The  *)
(* other modules of this project call S3 under these rules:                *)
(*   - a call that answers had its effect, at least once, before the       *)
(*     answer; a value it reports is one the object had during the call;   *)
(*   - a call that fails may have had its effect, several times, and may   *)
(*     have it even later (a request that was abandoned on the way);       *)
(*   - a list names no object twice, every object that stayed for the      *)
(*     whole call, and none that was absent for the whole call.            *)
(***************************************************************************)
CONSTANTS
    Caller,     \* goroutines that call the client
    Key,        \* object names
    Data,       \* contents
    Absent,     \* content of an object that does not exist
    Request,    \* the calls: op, key, dst, data, prefix
    NoRequest   \* no call

VARIABLES
    object,     \* key -> content
    stray,      \* writes that were abandoned and may still reach S3
    busy,       \* callers inside a call
    req,        \* caller -> its call
    window,     \* caller -> key -> contents the key had during the call
    effect,     \* caller -> its own write was applied during the call
    result      \* caller -> answer of its last call

vars == <<object, stray, busy, req, window, effect, result>>

Value == Data \cup {Absent}

NoWindow == [k \in Key |-> {}]
NoAnswer == [kind |-> "none", data |-> Absent, list |-> [k \in Key |-> 0]]

Mutates(r) == r.op \in {"put", "putNew", "remove", "copy"}

Written(r, store) ==
    CASE r.op = "remove" -> [store EXCEPT ![r.key] = Absent]
      [] r.op = "copy"   -> [store EXCEPT ![r.dst] = store[r.key]]
      [] OTHER           -> [store EXCEPT ![r.key] = r.data]

\* A copy without source writes nothing.
Applicable(r, store) == r.op = "copy" => store[r.key] # Absent

\* Everybody inside a call sees the new contents.
Seen(store) ==
    [c \in Caller |->
        IF c \in busy THEN [k \in Key |-> window[c][k] \cup {store[k]}]
        ELSE window[c]]

Init ==
    /\ object \in [Key -> Value]
    /\ stray = {} /\ busy = {}
    /\ req = [c \in Caller |-> NoRequest]
    /\ window = [c \in Caller |-> NoWindow]
    /\ effect = [c \in Caller |-> FALSE]
    /\ result = [c \in Caller |-> NoAnswer]

Invoke(c, r) ==
    /\ c \notin busy
    /\ busy' = busy \cup {c}
    /\ req' = [req EXCEPT ![c] = r]
    /\ window' = [window EXCEPT ![c] = [k \in Key |-> {object[k]}]]
    /\ effect' = [effect EXCEPT ![c] = FALSE]
    /\ UNCHANGED <<object, stray, result>>

Effect(c) ==
    /\ c \in busy /\ Mutates(req[c]) /\ Applicable(req[c], object)
    /\ object' = Written(req[c], object)
    /\ window' = Seen(object')
    /\ effect' = [effect EXCEPT ![c] = TRUE]
    /\ UNCHANGED <<stray, busy, req, result>>

\* One more request of the call is on its way, with nobody to wait for it.
Abandon(c) ==
    /\ c \in busy /\ Mutates(req[c])
    /\ stray' = stray \cup {req[c]}
    /\ UNCHANGED <<object, busy, req, window, effect, result>>

LateEffect(r) ==
    /\ r \in stray
    /\ object' = IF Applicable(r, object) THEN Written(r, object) ELSE object
    /\ window' = Seen(object')
    /\ stray' = stray \ {r}
    /\ UNCHANGED <<busy, req, effect, result>>

\* Which answers a call may give.
Truthful(c, res) ==
    LET r == req[c]
        was(k) == \E v \in Data : v \in window[c][k]
        wasNot(k) == Absent \in window[c][k]
    IN  CASE res.kind = "done" ->
                 r.op \in {"put", "remove", "copy"} /\ effect[c]
          [] res.kind = "created" ->
                 r.op = "putNew" /\ effect[c] /\ wasNot(r.key)
          [] res.kind = "present" ->
                 r.op \in {"putNew", "exists"} /\ ~effect[c] /\ was(r.key)
          [] res.kind = "missing" ->
                 r.op \in {"get", "exists"} /\ wasNot(r.key)
          [] res.kind = "data" ->
                 r.op = "get" /\ res.data \in Data \cap window[c][r.key]
          [] res.kind = "list" ->
                 /\ r.op = "list"
                 /\ \A k \in Key :
                        \/ res.list[k] = 0 /\ (k \in r.prefix => wasNot(k))
                        \/ res.list[k] = 1 /\ k \in r.prefix /\ was(k)
          [] res.kind = "refused" -> ~effect[c]
          [] OTHER -> res.kind = "failed"

Return(c, res) ==
    /\ c \in busy
    /\ Truthful(c, res)
    /\ busy' = busy \ {c}
    /\ result' = [result EXCEPT ![c] = res]
    /\ \/ UNCHANGED stray
       \/ res.kind = "failed" /\ Mutates(req[c]) /\ stray' = stray \cup {req[c]}
    /\ req' = [req EXCEPT ![c] = NoRequest]
    /\ window' = [window EXCEPT ![c] = NoWindow]
    /\ effect' = [effect EXCEPT ![c] = FALSE]
    /\ UNCHANGED object

Next ==
    \/ \E c \in Caller :
           \/ \E r \in Request : Invoke(c, r)
           \/ Effect(c) \/ Abandon(c)
           \/ Return(c, result'[c])
    \/ \E r \in stray : LateEffect(r)

Spec == Init /\ [][Next]_vars
=============================================================================
