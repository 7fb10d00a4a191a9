SPECIFICATION PoolFairSpec
INVARIANT PoolTypeOK PooledIffOpen
PROPERTY AskIsAnswered
CONSTANTS
    a = a
    b = b
    d = d
    c1 = c1
    c2 = c2
    Services = {a, b, d}
    Calls = {c1, c2}
    MaxClients = 2
    IdleTimeout = 1
