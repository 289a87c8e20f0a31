SPECIFICATION FairSpec
CONSTANTS
    Request = {r1, r2}
    Post = {p1, p2}
    User = {u1, u2}
    None = None
CHECK_DEADLOCK FALSE
INVARIANTS
    Inv
    EventsStored
    WriteSurvivesPublish
    AnsweredOrder
PROPERTIES
    DispatcherExits
