------------------------- MODULE MCManifestRecovery -------------------------
(* Small instances of ManifestRecovery: one node or two.                     *)
EXTENDS ManifestRecovery

CONSTANTS n1, n2

OneNode == {n1}
TwoNodes == {n1, n2}
=============================================================================
