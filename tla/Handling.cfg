CONSTANTS
    Sizes = {0, 1, 2}
    MaxResponses = 2
    N = 2
    MaxNext = 2
SPECIFICATION HandlingSpec
CHECK_DEADLOCK FALSE
INVARIANTS TypeOK HandlingTypeOK ReadInStep NoSurplusResponse EachOnce LetThrough AllReached FilesInStep
PROPERTY Spec
