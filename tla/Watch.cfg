SPECIFICATION SpecW
CONSTANTS
    Request = {r1, r2}
    Post = {p1, p2}
    User = {u1}
    Conn = {c1}
    MaxEvents = 3
    None = None
SYMMETRY Symmetry
CHECK_DEADLOCK FALSE
INVARIANTS
    SentRows
    CausalOrder
    WatcherAgrees
