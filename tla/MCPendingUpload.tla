--------------------------- MODULE MCPendingUpload ---------------------------
(* Small instances of PendingUpload: one node or two, and one file, whose    *)
(* kind is fixed or open.                                                    *)
EXTENDS PendingUpload, TLC

CONSTANTS n1, n2, a

OneNode == {n1}
TwoNodes == {n1, n2}
OneFile == {a}

Hosts == Permutations(Node)

TablesAndManifests == [f \in File |-> {"table", "manifest"}]
Tables == [f \in File |-> {"table"}]
Journals == [f \in File |-> {"journal"}]
Manifests == [f \in File |-> {"manifest"}]

\* A table is written once, the others grow.
Once == [f \in File |-> 1]
Twice == [f \in File |-> 2]

\* A manifest is followed on one host; what happens to it on two is in
\* ManifestRecovery.
ManifestsAtHome ==
    (\E f \in File : kind[f] = "manifest") =>
        \A n \in Node \ {node} :
            pend[n] = Nothing /\ cksum[n] = Nothing /\ cache[n] = Nothing

\* Followed up to the end of the first session that began beside a busy loop.
OneOverlap == beside # "before"

\* A file is followed until it is both removed and wiped.
OneEnd == gone \cap wiped = {}
=============================================================================
