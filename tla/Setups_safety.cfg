SPECIFICATION Spec
SYMMETRY Symmetry
INVARIANT TypeOK CompleteOnce OneOutcome
PROPERTY CompletionKept
CONSTANTS
    a = a
    b = b
    c1 = c1
    c2 = c2
    Setups = {a, b}
    Callers = {c1, c2}
    MaxPending = 1
    SetupTTL = 2
    CodeTTL = 2
    SetupRateLimit = 2
