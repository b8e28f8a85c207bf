----------------------------- MODULE LeaseMutex -----------------------------
(***************************************************************************)
(* What the lease lock promises to S3Storage (lock.go, storage.go:188-251):*)
(* one holder at a time, as long as nobody acted on an outdated view of    *)
(* the LOCK object.  Afterwards nothing is promised; goleveldb and the     *)
(* fencing of S3Storage have to live with that.                            *)
(***************************************************************************)
CONSTANT Node   \* processes

VARIABLES
    holders,    \* processes that believe to hold the lock
    broken      \* a process acted on an outdated view

vars == <<holders, broken>>

Init == holders = {} /\ broken = FALSE

\* Lock() returns from the write of LOCK.
Acquire(n) ==
    /\ holders = {}
    /\ holders' = {n}
    /\ UNCHANGED broken

\* Unlock() begins, Lock() gives up after its recovery, or the process ends.
Release(n) ==
    /\ n \in holders
    /\ holders' = holders \ {n}
    /\ UNCHANGED broken

\* An outdated view is acted on; from then on holders come and go.
Break ==
    /\ holders' \in SUBSET Node
    /\ broken' = TRUE

Next ==
    \/ /\ ~broken
       /\ \E n \in Node : Acquire(n) \/ Release(n)
    \/ Break

Spec == Init /\ [][Next]_vars
=============================================================================
