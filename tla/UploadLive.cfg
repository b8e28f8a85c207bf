SPECIFICATION LiveSpec
CONSTANTS
    n1 = n1
    n2 = n2
    a = a
    None = None
    Node <- OneNode
    File <- OneFile
    Kinds <- Journals
    MaxVersion <- Twice
    Concurrency = 2
    RetriesBounded = FALSE
    CallsRetryAPI = FALSE
    TornChecksum = TRUE
INVARIANT RecoveryInv
INVARIANT CachedCopyKept
PROPERTY RecoveryRestoresAcked
PROPERTY RemovedStays
PROPERTY PendingDrains
PROPERTY CloseReturns
CONSTRAINT OneOverlap
CONSTRAINT OneEnd
CHECK_DEADLOCK FALSE
