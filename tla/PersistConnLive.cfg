SPECIFICATION FairSpec
CONSTANTS
    a = a
    b = b
    None = None
    Req <- TwoRequests
    Replayable <- Nobody
    Rewindable <- TwoRequests
    Expecting <- OnlyA
    Answers <- WithBody
    ResponseHeaderTimeout = TRUE
PROPERTIES
    
    LoopsEnd
    BodyReturns
