SPECIFICATION Spec
CONSTANTS
    Sizes = {0, 1, 2}
    MaxRequests = 2
INVARIANT TimeoutMeansLate
