SPECIFICATION Spec
INVARIANT TypeOK
INVARIANT ReachedAsAllowed
INVARIANT AnswersAreTrue
INVARIANT RateHeld
CONSTANTS
    c1 = c1
    Calls = {c1}
    Tools <- AllTools
    MaxRetries = 1
    RateLimit = 2
    RateWindow = 1
    MaxClock = 2
