SPECIFICATION FairSpec
CONSTANTS
    Word = 16
    MaxHeaders = 11
    MaxBody = 3
    MaxSizeLine = 3
    ReadSize = 40
    Menus = {"head", "body", "chunks", "trailers"}
    Conversations <- MCConversations
    Streams <- MCStreams
INVARIANTS
    TypeOK
    WindowOK
    SizesWithinLimits
    ConsumesWholeMessages
    PullsOnlyForMore
PROPERTIES
    AnswersAsPromised
    NothingConsumedTwice
    AllAnswered
    CallsReturn
