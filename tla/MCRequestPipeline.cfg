SPECIFICATION Spec
CONSTANTS
    Token = {t1, t2}
    User = {u1, u2}
    None = None
    TTL = 1
    MaxTime = 1
    MaxRequests = 1
SYMMETRY Symmetry
CHECK_DEADLOCK FALSE
INVARIANTS
    ValidAccepted
    ServedAsBearer
    LogMatchesResponse
