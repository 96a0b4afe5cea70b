SPECIFICATION ComputationsSpec
CONSTANTS
    absent = absent
    empty = empty
    notANumber = notANumber
    Contexts <- MCContexts
    ObjectTags <- MCTags
    PolicySets <- MCPolicySets
    TrustPolicies <- MCTrustPolicies
    Specifics = {"o2"}
    ActionOf <- MCActionOf
    Absent = absent
    EmptySegment = empty
    NotNumbers = {notANumber}
    undefined = undefined
    nan = nan
    Undefined = undefined
    NaN = nan
    TooLong <- MCTooLong
    Markup <- MCMarkup
    GeneratedIDs <- MCGeneratedIDs
    MaxRules = 2
    StorageClasses = {"s1", "s2"}
    MaxDays = 100
    TransitionOneDayEarlier = FALSE
    ReplicationEndpoints <- MCEndpoints
    ValidStorageClasses = {"STANDARD"}
    ValidBuckets = {"b1", "b2"}
    ValidRoles = {"r1", "r2"}
    SupportedEvents = {"put", "delete"}
    ValidQueues = {"q1", "q2"}
    MaxRetention <- MCMaxRetention
    Documents <- MCDocuments
    OtherDocuments <- MCOtherDocuments
    Queries <- MCQueries
    Items <- MCItems
    LastDay = 2
    NoFolder = NoFolder
    NoPos = NoPos
    NoName = NoName
    NoValue = NoValue
    NoVid = 0
    NullVid = 9
    MaxName = 4
    Slots = 6
    Folders <- MCFolders
    BeforeDate = 2
    MinGapWeight = 2
    TriggerWeight = 2
    UndefinedAt = 26
    MaxStreak = 2
    Buckets <- MCBuckets
    Parameters <- MCParameters
    CachedGaps <- MCCachedGaps
INVARIANTS
    PagesAreExact
    SavedGapsAreSkippable
    GrantsAreJustified
    PutBackRestores
    RulesApplyAsStored
PROPERTY FairListingsEnd
CHECK_DEADLOCK FALSE
