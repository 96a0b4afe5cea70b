SPECIFICATION NwSpec
CONSTANTS
    Items = 4
    MaxPendingAck = 2
    HighWaterMark = 2
    Outcomes = {"stream", "value", "error", "unknown"}
    MaxTimeouts = 2
    MaxFailures = 1
    MaxDisconnects = 1
    Inputs <- MCInputs
    BufferLimit = 1
    MaxSourceErrors = 1
    k1 = k1  k2 = k2
    KmipCalls = {k1, k2}
    KindOf <- MCKindOf
    PipelineDepth = 2
    Sockets = {1, 2, 3, 4, 5, 6}
    MaxBreaks = 2
    MaxEnds = 1
    Slots = {1, 2}
    Processes = {1, 2, 3}
    MaxCrashes = 1
    MaxStops = 2
CHECK_DEADLOCK FALSE
INVARIANTS
    StreamIsFaithful
    StreamsAreReleased
    AnswersAreOwn
PROPERTIES
    EveryExchangeEnds
    FairWorkersAreSupervised
