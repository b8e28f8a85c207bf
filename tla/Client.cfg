SPECIFICATION LiveSpec
CONSTANTS
    writer = writer
    reader = reader
    d = d
    big = big
    Absent = Absent
    Caller <- Callers
    Keys = 2
    Metadata <- CurrentOnly
    Data <- Contents
    Large <- TooLong
    Prefixes <- BothPrefixes
    MaxAttempts = 3
    BaseDelay = 4
    Width = 4
    Quota <- Once
    Repertoire <- WriteAndRead
INVARIANT ClientInv
INVARIANT BackoffArgumentPositive
PROPERTY ImplementsObjectStore
PROPERTY CallsReturn
CHECK_DEADLOCK FALSE
