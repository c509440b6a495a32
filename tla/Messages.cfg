SPECIFICATION Spec
CONSTANTS
    MaxReadSize = 300
    HeaderLimit = 6
    Word = 32
    BufSize = 8
    Messages <- AllMessages
    ReadSizes = {1, 4}
    MaxLine = 10
    MaxHex = 2
    Calls <- AllCalls
    Hosts <- AllHosts
    MaxSends = 4
    Worker = {1, 2}
    Jobs <- AllJobs
    Clients = {"c1", "c2", "c3"}
    Reqs = {"r1"}
    FirstClient = "c1"
    Groups <- AllGroups
    MaxCalls = 6
INVARIANTS  BodyDelivered  DownloadInOrder
PROPERTIES CloneIndependent
CHECK_DEADLOCK FALSE
