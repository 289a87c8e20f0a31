SPECIFICATION SpecH
CONSTANTS
    Post = {p1, p2}
    Conn = {c1, c2}
    Sub = {s1, s2}
    SubBuffer = 1
    LocalBuffer = 2
    MaxMsg = 2
    Main = Main
    None = None
SYMMETRY Symmetry
CHECK_DEADLOCK FALSE
INVARIANTS
    InvH
    ViewersServed
    NoPanic
PROPERTIES
    ImplementsFeed
