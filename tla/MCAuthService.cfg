SPECIFICATION Spec
CONSTANTS
    Request = {r1, r2, r3, r4}
    User = {u1, u2}
    Token = {t1, t2, t3}
    None = None
SYMMETRY Symmetry
CHECK_DEADLOCK FALSE
INVARIANTS
    Inv
    SingleLiveToken
    RotationRecorded
    ReuseEndsSessions
    SessionIsolation
    LogoutEffective
