SPECIFICATION FairSpec
INVARIANT VersionMeansSchema OneUpgrades
PROPERTY RequestsAnswered
CONSTANTS
    v1 = v1
    v2 = v2
    r1 = r1
    r2 = r2
    Servers = {v1, v2}
    Requests = {r1, r2}
    ForeignKeys <- TwoKeys
