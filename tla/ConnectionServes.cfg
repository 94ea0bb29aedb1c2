SPECIFICATION FairSpec
CONSTANTS
    Sizes = {0, 1, 2}
    MaxRequests = 3
INVARIANTS
    TypeOK
    AnsweredInStep
    EndsAnswered
PROPERTY
    WaitEnds
