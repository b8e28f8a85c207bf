------------------------------ MODULE MCS3Lock ------------------------------
(* Small instances of S3Lock for TLC: two nodes, with directories of their   *)
(* own.                                                                      *)
EXTENDS S3Lock, TLC

CONSTANTS a, b, p, q

Two == {a, b}

\* The process ids of two hosts may coincide (containers) or differ.
TwoPids == {p, q}
Pids == Permutations(TwoPids)

\* Two hosts: each has its directory.
OwnDir == [n \in Node |-> n]

\* How often each node may call Lock(): one of the two opens the database
\* once, the other comes back (after a release, a failure or a crash).
OneTwo == [n \in Node |-> IF n = a THEN 2 ELSE 1]
Once == [n \in Node |-> 1]

\* Behaviours are followed up to their first blind step and that step itself;
\* after it the lock promises nothing.
Unbroken == breach = "none"

\* Only a, which may come back, is closed, and one of the two is not fenced off.
\* What a closed storage still does, it does as an open one too; b ends with a
\* release or with its process.
OneCloses == ~closed[b] /\ ~(lockLost[a] /\ lockLost[b])
=============================================================================
