SPECIFICATION FairSpec
CONSTANTS
    Post = {p1}
    Conn = {c1, c2}
    Sub = {s1, s2}
    SubBuffer = 1
    LocalBuffer = 1
    MaxMsg = 1
    Main = Main
    None = None
CHECK_DEADLOCK FALSE
PROPERTIES
    GoneReleased
    CancelledBridgeStops
    ShutdownTerminates
    EventuallyForwarded
