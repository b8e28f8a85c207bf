SPECIFICATION Spec
CONSTANTS
    n1 = n1
    n2 = n2
    a = a
    None = None
    Node <- OneNode
    File <- OneFile
    Kinds <- Tables
    MaxVersion <- Once
    Concurrency = 2
    RetriesBounded = FALSE
    CallsRetryAPI = FALSE
    TornChecksum = FALSE
PROPERTY NoUploadOfRemoved
CHECK_DEADLOCK FALSE
