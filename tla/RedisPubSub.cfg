SPECIFICATION FairSpec
CONSTANTS
    Channel = {c1, c2}
    Sub = {s1, s2}
    SubBuffer = 1
    MaxMsg = 2
    Closer = {k1}
    None = None
CHECK_DEADLOCK FALSE
INVARIANTS
    Inv
    NoPanic
    SubscribedExactly
PROPERTIES
    CloseReturns
    ImplementsPubSub
