SPECIFICATION Spec
CONSTANTS
    a = a
    b = b
    None = None
    Req <- TwoRequests
    Replayable <- OnlyB
    Rewindable <- TwoRequests
    Expecting <- OnlyA
    Answers <- AllKinds
    ResponseHeaderTimeout = TRUE
INVARIANTS
    IdleIsClean
    ResponseMatchesRequest
    RetrySafe
    ReadersExclusive
    EOFAfterRecycling
