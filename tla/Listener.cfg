SPECIFICATION FairSpec
CONSTANTS
    Peers = {p1, p2, p3, p4}
    Listen = Listen
    Descriptors = 2
    Named = TRUE
INVARIANTS
    TypeOK
    ListenerStays
PROPERTIES
    TurnsCome
    Accepted
CHECK_DEADLOCK FALSE
