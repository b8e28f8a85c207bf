SPECIFICATION LiveSpecAll
CONSTANTS
    a = a
    p = p
    NoLock = NoLock
    Node <- One
    Dir <- OwnDir
    Pid <- OnePid
    LeaseDuration = 0
    MaxTime = 1
    MaxIds = 2
    Quota <- Twice
ACTION_CONSTRAINT ClockBetweenCalls
INVARIANT FencingInv
INVARIANT RenewedOrFenced
INVARIANT LateWritesBounded
PROPERTY LeaseLossFences
PROPERTY RenewalEnds
PROPERTY WritesCease
CHECK_DEADLOCK FALSE
