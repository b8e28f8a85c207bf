SPECIFICATION SpecAll
CONSTANTS
    a = a
    p = p
    NoLock = NoLock
    Node <- One
    Dir <- OwnDir
    Pid <- OnePid
    LeaseDuration = 0
    MaxTime = 1
    MaxIds = 1
    Quota <- Once
INVARIANT RecoveryFenced
CHECK_DEADLOCK FALSE
