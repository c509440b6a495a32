SPECIFICATION Spec
CONSTANTS
    a = a
    b = b
    None = None
    Req <- TwoRequests
    Replayable <- Nobody
    Rewindable <- TwoRequests
    Expecting <- Nobody
    Answers <- Plain
    ResponseHeaderTimeout = FALSE
INVARIANT
    NoForeignCancel
