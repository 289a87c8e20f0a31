SPECIFICATION FairSpec
CONSTANTS
    c = c
    r = r
    m = m
    w1 = w1
    w2 = w2
    w3 = w3
    Payload = {c, r, m}
    Envelope = {c, r}
    Word = {w1, w2, w3, "comment", "reaction"}
    Type <- TypeOf
    Data <- DataOf
    Reading <- ReadingOf
    MaxKeepAlive = 1
CHECK_DEADLOCK FALSE
INVARIANTS
    EventsIntact
PROPERTIES
    EventuallyDispatched
