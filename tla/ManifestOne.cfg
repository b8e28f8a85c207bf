SPECIFICATION Spec
CONSTANTS
    n1 = n1
    n2 = n2
    Node <- OneNode
    MaxManifest = 4
    MaxVersion = 5
    Faults = {"cleanShadow"}
    PendingInCache = TRUE
INVARIANT OneHostInv
INVARIANT NoWipe
PROPERTY NeverRecreated
PROPERTY NeverRolledBack
PROPERTY ImplementsCommitLog
