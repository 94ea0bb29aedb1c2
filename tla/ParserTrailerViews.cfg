SPECIFICATION Spec
CONSTANTS
    Word = 16
    MaxHeaders = 11
    MaxBody = 3
    MaxSizeLine = 3
    ReadSize = 40
    Menus = {"trailers"}
    Conversations <- MCConversations
    Streams <- MCStreams
INVARIANT TrailersReadBack
