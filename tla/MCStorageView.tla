--------------------------- MODULE MCStorageView ---------------------------
(* A small instance of StorageView: a table and a temporary file.            *)
EXTENDS StorageView, TLC

CONSTANTS table, temp

TwoFiles == {table, temp}
Names == Permutations(TwoFiles)

\* Bound: nothing is claimed of what follows a contradiction of the sources.
Consistent == cause = "none"
=============================================================================
