-------------------------- MODULE MCLockedStorage --------------------------
(* A small instance of LockedStorage for TLC: one process, two sessions.     *)
EXTENDS LockedStorage

CONSTANTS a, p

One == {a}
OnePid == {p}
OwnDir == [n \in Node |-> n]

\* The clock moves between the two Lock() calls, so that the lease of the first
\* may have run out at the second; nothing else here looks at it.
ClockBetweenCalls == now' # now => \A n \in Node : pc[n] = "idle" /\ serial[n] = 1

Twice == [n \in Node |-> 2]
Once == [n \in Node |-> 1]
=============================================================================
