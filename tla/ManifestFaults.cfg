SPECIFICATION Spec
CONSTANTS
    n1 = n1
    n2 = n2
    Node <- TwoNodes
    MaxManifest = 2
    MaxVersion = 2
    Faults = {"lostAnswer", "cacheRead", "cleanShadow"}
    PendingInCache = FALSE
INVARIANT SessionInv
INVARIANT CommittedReachable
