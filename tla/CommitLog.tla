----------------------------- MODULE CommitLog -----------------------------
(***************************************************************************)
(* What a database on S3Storage promises the one who opens it: sessions    *)
(* come and go, one at a time; each finds at least every commit that was   *)
(* reported as done, unless the upload of an older copy has come in between: *)
(* then those that the copy does not have are gone.  Nothing else takes a  *)
(* reported commit back.  An attempt that was not reported may count or    *)
(* not.                                                                    *)
(***************************************************************************)
EXTENDS Naturals

VARIABLES
    session,    \* the database is open
    version,    \* commits the session knows of, 0 without a session
    committed,  \* the last commit that was reported as done
    stale       \* an older copy is in the place of the newest

vars == <<session, version, committed, stale>>

Init == ~session /\ version = 0 /\ committed = 0 /\ ~stale

Open ==
    /\ ~session /\ session'
    /\ ~stale'
    /\ version' \in Nat
    /\ \/ version' >= committed /\ UNCHANGED committed
       \/ stale /\ version' < committed /\ committed' = version'

\* An older copy is put in front of the newest, or the newest put back.
Upload ==
    /\ ~session
    /\ UNCHANGED <<session, version, committed>>

\* A commit is tried, and reported at once or not.
Attempt ==
    /\ session /\ session'
    /\ version' = version + 1
    /\ UNCHANGED stale
    /\ committed' \in {committed, version + 1}

Report ==
    /\ session /\ session'
    /\ UNCHANGED <<version, stale>>
    /\ committed' = version

\* The commit that has failed is given up.
Undo ==
    /\ session /\ session'
    /\ version' + 1 = version
    /\ version' >= committed
    /\ UNCHANGED <<committed, stale>>

\* Perhaps with an older copy uploaded in the meantime.
End ==
    /\ session /\ ~session'
    /\ version' = 0
    /\ UNCHANGED committed

Next == Open \/ Upload \/ Attempt \/ Report \/ Undo \/ End

Spec == Init /\ [][Next]_vars
=============================================================================
