CONSTANTS
    new1 = new1
    del5 = del5
    del6 = del6
    put3 = put3
    put4 = put4
    put6 = put6
    put7 = put7
    null4 = null4
    null5 = null5
    keepNull5 = keepNull5
    dropNull = dropNull
    newNull = newNull
    get1 = get1
    read6 = read6
    nullVersions = nullVersions
    suspended = suspended
    enabled = enabled
    deletions = deletions
    repair = repair
    putDuringRepair = putDuringRepair
    olderNull = olderNull
    Master = Master
    NullKey = NullKey
    NoValue = NoValue
    Nobody = Nobody
    Requests = {new1, del5, del6, put3, put4, put6, put7, null4, null5, keepNull5, dropNull, newNull, get1, read6}
    Size <- MCSize
    Op <- MCOp
    After <- MCAfter
    Scenarios = {putDuringRepair}
    InitialDb <- MCInitialDb
    Calls <- MCCalls
    Failing <- MCFailing
    FirstVid = 3
    InfVid = 8
SPECIFICATION VrSafety
INVARIANT RepairedMasterIsLatest
CHECK_DEADLOCK FALSE
