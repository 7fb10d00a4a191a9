SPECIFICATION FairSpec
PROPERTY LockReleased WaitingEnds
CONSTANTS
    a = a
    b = b
    c1 = c1
    c2 = c2
    Setups = {a}
    Callers = {c1, c2}
    MaxPending = 1
    SetupTTL = 1
    CodeTTL = 1
    SetupRateLimit = 1
