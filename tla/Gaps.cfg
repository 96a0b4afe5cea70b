CONSTANTS
    b1 = b1
    b2 = b2
    l1 = l1
    k1 = k1
    k2 = k2
    k3 = k3
    k4 = k4
    v1 = v1
    v2 = v2
    MaxKey = 3
    GapLimits = {2}
    MaxGapWeight = 1
    Delays = {1, 2}
    Listings = {b1}
    Lookups = {l1}
    LiveAtFirst = {}
    FirstKeyWeights = {0}
    WrittenKeys = {3}
    DelayChangesInListing = FALSE
    MaxSetKey = 5
    Weights = {1, 2, 3}
    MaxWeight = 2
    SingleKeyGaps = FALSE
    WeightBound = 4
    LruKeys = {k1, k2, k3, k4}
    LruValues = {v1, v2}
    MaxEntries = 3
    NoEntry = NoEntry
    HeapItems = {1, 2, 3, 4, 5}
    Rank <- MCRank
    HeapSizes = {1, 5}
    NoItem = NoItem
    SetKeys = {1, 2, 3, 4, 5}
    SetValues = {v1, v2}
    Undefined = Undefined
    new1 = new1
    del5 = del5
    del6 = del6
    put3 = put3
    put4 = put4
    put6 = put6
    put7 = put7
    null4 = null4
    null5 = null5
    keepNull5 = keepNull5
    dropNull = dropNull
    newNull = newNull
    get1 = get1
    read6 = read6
    nullVersions = nullVersions
    suspended = suspended
    enabled = enabled
    deletions = deletions
    repair = repair
    putDuringRepair = putDuringRepair
    olderNull = olderNull
    Master = Master
    NullKey = NullKey
    NoValue = NoValue
    Nobody = Nobody
    Requests = {new1, del5, del6, put3, put4, put6, put7, null4, null5, keepNull5, dropNull, newNull, get1, read6}
    Size <- MCSize
    Op <- MCOp
    After <- MCAfter
    Scenarios = {nullVersions, suspended, enabled, deletions, repair, putDuringRepair, olderNull}
    InitialDb <- MCInitialDb
    Calls <- MCCalls
    Failing <- MCFailing
    FirstVid = 3
    InfVid = 8
SPECIFICATION GapsSpec
INVARIANTS
    ExposedGapsAreSkippable
    
    CoverageIsExact
    RemovalIsExact
    CollectionsAreExact
    MasterIsLatest
    OneNullVersion
    DeletedStaysDeleted
PROPERTIES
    ImplementsRecentlyUsed
    FairRepairs
    FairRequestsAreAnswered
CHECK_DEADLOCK FALSE
