SPECIFICATION Spec
CONSTANTS
    a = a
    b = b
    p = p
    q = q
    NoLock = NoLock
    Node <- Two
    Dir <- OwnDir
    Pid <- TwoPids
    LeaseDuration = 1
    MaxTime = 1
    MaxIds = 1
    Quota <- Once
PROPERTY StaleOwnerDead
CHECK_DEADLOCK FALSE
