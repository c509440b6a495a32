\* Three requests, two alternatives; two streams of one connection, a server that
\* may do what Scripts say.  Both come to rest when the calls have returned.
SPECIFICATION Spec
CONSTANTS
    r1 = r1
    r2 = r2
    r3 = r3
    h1 = h1
    h2 = h2
    Req3 = {r1, r2, r3}
    Deadline3 = {r2}
    Announced3 = {r1}
    Cancel3 = {r2}
    Alternatives <- TwoAlternatives
    Origin3 = h1
    MaxClients = 3
    MaxPending = 2
    MaxTries3 = 2
    Stream3 = {1, 2}
    Scripts <- Servers
    WithBody3 = {1}
    ExtendedConnect = {2}
    Cancel3s = {1}
    Max1xx = 2
    QueueLen = 1
    DatagramsMissing = FALSE
INVARIANTS   LengthKept
PROPERTIES InUseNotClosed3 
CHECK_DEADLOCK FALSE
