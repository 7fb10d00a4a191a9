SPECIFICATION Spec
INVARIANT TypeOK StoreBounded OnlyIssuedKeys RevokedStaysOut OvershootBounded
CONSTANTS
    u1 = u1
    s1 = s1
    s2 = s2
    q1 = q1
    q2 = q2
    Users = {u1}
    SessionIds = {s1, s2}
    Requests = {q1, q2}
    MaxSessions = 1
    SessionTTL = 1
    AuthFailMax = 1
    MaxVersion = 3
SYMMETRY Symmetry
