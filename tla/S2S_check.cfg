SPECIFICATION FairSpec
INVARIANT TypeOK
PROPERTY CallReturns
PROPERTY SingleFlightSpec
CONSTANTS
    a = a
    b = b
    d = d
    c1 = c1
    c2 = c2
    c3 = c3
    Callers = {c1, c2, c3}
    Keys = {a, b}
    MaxCached = 1
    Lifetimes = {0, 2}
