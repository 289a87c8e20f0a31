SPECIFICATION Spec
CONSTANTS
    Room = {a, b}
    User = {u1, u2}
    Conn = {k1, k2}
    Sub = {s1, s2}
    SubBuffer = 1
    MaxMsg = 1
    None = None
SYMMETRY Symmetry
CHECK_DEADLOCK FALSE
INVARIANTS
    RoomsServed
    NoPanic
    LeaveAllLeaves
    ShownOnce
