SPECIFICATION Spec
CONSTANTS
    Peers = {p1, p2}
    Listen = Listen
    Descriptors = 2
    Named = FALSE
INVARIANT TimeoutAsConfigured
CHECK_DEADLOCK FALSE
