SPECIFICATION StSpec
CONSTANTS
    Totals = {2, 4, 5}
    PartSize = 2
    Slice = 2
    QueueSize = 2
    DeleteLimit = 2
    MaxBuffered = 3
    MaxFailures = 1
    MaxSlow = 1
    Sizes = {0, 1, 2, 3, 4, 5}
    MaxSubPartSize = 2
    MaxChunk = 2
    MaxBlockFailures = 2
    MpuBackends = {"file", "azure", "aws"}
    PartNumbers = {1, 2}
    PartSizes = {0, 3}
    CopiedPieces <- MCPieces
    MinimumPartSize = 2
    BlockSize = 2
    MaxParts = 3
    MaxCompletions = 1
    DataRequests = {1, 2}
    Pieces <- MCPieceSizes
    NewSize = 3
    MaxRetry = 1
    DeletesAtATime = 2
    MaxDataFailures = 1
    MaxRefusals = 1
    AllEndpoints <- MCAllEndpoints
    WebsiteEndpoints <- MCWebsiteEndpoints
    IpHosts <- MCIpHosts
    InternalHandlers <- MCInternalHandlers
    BadBucketNames <- MCBadBucketNames
    BadKeys <- MCBadKeys
    S3RequestSet <- MCRequests
    LocationLists <- MCLocationLists
    u1 = u1
    u2 = u2
    u3 = u3
    g1 = g1
    p1 = p1
    d1 = d1
    NoValue = NoValue
    Initial = v0
    Requests = {u1}
    Size <- MCSize
    Kind <- MCKind
CHECK_DEADLOCK FALSE
INVARIANT CopiedPartIsWhole
