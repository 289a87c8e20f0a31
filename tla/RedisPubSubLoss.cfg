SPECIFICATION FairSpec
CONSTANTS
    Channel = {c1}
    Sub = {s1}
    SubBuffer = 1
    MaxMsg = 1
    Closer = {k1}
    None = None
CHECK_DEADLOCK FALSE
PROPERTIES
    TransportLossEndsStreams
