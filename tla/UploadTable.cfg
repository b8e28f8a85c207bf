SPECIFICATION Spec
CONSTANTS
    n1 = n1
    n2 = n2
    a = a
    None = None
    Node <- TwoNodes
    File <- OneFile
    Kinds <- TablesAndManifests
    MaxVersion <- Once
    Concurrency = 2
    RetriesBounded = TRUE
    CallsRetryAPI = TRUE
    TornChecksum = FALSE
INVARIANT TableInv
INVARIANT TableNeverLost
INVARIANT PersistedTableKept
INVARIANT BackedTableKept
PROPERTY ImplementsDurableTables
CONSTRAINT ManifestsAtHome
SYMMETRY Hosts
CHECK_DEADLOCK FALSE
