SPECIFICATION Spec
CONSTANTS
    a = a
    b = b
    p = p
    q = q
    NoLock = NoLock
    Node <- Two
    Dir <- OwnDir
    Pid <- TwoPids
    LeaseDuration = 0
    MaxTime = 1
    MaxIds = 2
    Quota <- OneTwo
CONSTRAINT Unbroken
CONSTRAINT OneCloses
INVARIANT LockInv
INVARIANT HolderIdentifiable
INVARIANT LeftoverIsOwn
INVARIANT ExclusiveUnlessBreach
PROPERTY ImplementsMutex
CHECK_DEADLOCK FALSE
SYMMETRY Pids
