SPECIFICATION SideSpec
CONSTANTS
    w1 = w1  w2 = w2  w3 = w3
    a1 = a1  a2 = a2  a3 = a3  p1 = p1  p2 = p2  n1 = n1
    Workers = {w1, w2, w3}
    FirstWorkers = {w1, w2}
    Calls = {a1, a2, a3, p1, p2, n1}
    CallSets <- AllCallSets
    Uid <- MCUid
    Caller <- MCCaller
    Target <- MCTarget
    Timed = {a1, p1}
    Handled = {a1, a2, p1, n1}
    MaxCallbacks = 2
    MaxExits = 1
    Null = Null
    r1 = r1
    r2 = r2
    r3 = r3
    r4 = r4
    r5 = r5
    Requests <- MCRequests
    Size <- MCSize
    c1 = c1
    c2 = c2
    c3 = c3
    Commits <- MCCommits
    DbOf <- MCDbOf
    OpsOf <- MCOpsOf
    Limits = {2, 99}
    MaxLookupErrors = 1
    MaxRestarts = 1
INVARIANTS
    ResultsAreComplete
    WaitingBatchHasWaker
    RepliesAreTruthful
    RecordLogIsFaithful
PROPERTIES
    ImplementsCommitQueue
    FairCommandsSettle
    FairCallersAreAnswered
CHECK_DEADLOCK FALSE
