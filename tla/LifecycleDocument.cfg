CONSTANTS
    absent = absent
    empty = empty
    notANumber = notANumber
    Contexts <- MCContexts
    ObjectTags <- MCTags
    PolicySets <- MCPolicySets
    TrustPolicies <- MCTrustPolicies
    Specifics = {"o2"}
    ActionOf <- MCActionOf
    Absent = absent
    EmptySegment = empty
    NotNumbers = {notANumber}
    undefined = undefined
    nan = nan
    Undefined = undefined
    NaN = nan
    TooLong <- MCTooLong
    Markup <- MCMarkup
    GeneratedIDs <- MCGeneratedIDs
    MaxRules = 2
    StorageClasses = {"s1", "s2"}
    MaxDays = 100
    TransitionOneDayEarlier = FALSE
    ReplicationEndpoints <- MCEndpoints
    ValidStorageClasses = {"STANDARD"}
    ValidBuckets = {"b1", "b2"}
    ValidRoles = {"r1", "r2"}
    SupportedEvents = {"put", "delete"}
    ValidQueues = {"q1", "q2"}
    MaxRetention <- MCMaxRetention
    Documents <- MCDocuments
    OtherDocuments <- MCOtherDocuments
    Queries <- MCQueries
    Items <- MCItems
    LastDay = 2
SPECIFICATION DocumentsSpec
INVARIANT DocumentIsXml
CHECK_DEADLOCK FALSE
