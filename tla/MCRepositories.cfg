SPECIFICATION Spec
CONSTANTS
    Id = {1, 2}
    Owner = {o1, o2}
    Key = {1, 2}
    Limits = {0, 1}
    Request = {r1, r2}
    None = None
SYMMETRY Symmetry
CHECK_DEADLOCK FALSE
INVARIANTS
    Inv
    UpdateReturnsOwnOrLater
    DeletedOnce
    PagesCoverList
