SPECIFICATION FairSpec
INVARIANT TypeOK CounterMatchesState ProbeLimit
PROPERTY StateCycle OpenAdmitsAgain ProbesDecide
CONSTANTS
    r1 = r1
    r2 = r2
    r3 = r3
    Callers = {r1, r2, r3}
    FailureThreshold = 2
    RecoveryTimeout = 2
    HalfOpenMax = 2
    MaxRetries = 1
    Outcomes <- AnyOutcome
