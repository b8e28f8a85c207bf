--------------------------- MODULE DurableTables ---------------------------
(***************************************************************************)
(* What the write path of S3Storage promises about tables, which goleveldb *)
(* writes once, syncs, names in a manifest and removes when no manifest    *)
(* needs them: a table is acknowledged only when S3 has it, and leaves S3  *)
(* only after it was given up: Remove was called for it, or the clean-up   *)
(* in Lock() gave up the tables it found.  How many copies there are on    *)
(* the way, and who uploads them, is not its concern.                      *)
(***************************************************************************)
CONSTANT File

VARIABLES
    stored,     \* tables in S3 under their own name
    synced,     \* tables whose Sync returned nil
    removed     \* tables that were given up

vars == <<stored, synced, removed>>

Init == stored = {} /\ synced = {} /\ removed = {}

Store(f) ==
    /\ stored' = stored \cup {f}
    /\ UNCHANGED <<synced, removed>>

Sync(f) ==
    /\ f \in stored \cup removed
    /\ synced' = synced \cup {f}
    /\ UNCHANGED <<stored, removed>>

\* One table by Remove, several by the clean-up.
GiveUp(S) ==
    /\ removed' = removed \cup S
    /\ UNCHANGED <<stored, synced>>

Erase(f) ==
    /\ f \in removed
    /\ stored' = stored \ {f}
    /\ UNCHANGED <<synced, removed>>

Next ==
    \/ \E f \in File : Store(f) \/ Sync(f) \/ Erase(f)
    \/ \E S \in SUBSET File : GiveUp(S)

Spec == Init /\ [][Next]_vars
=============================================================================
