SPECIFICATION MgSafety
CONSTANTS
    Master = Master
    NoVid = NoVid
    NoDoc = NoDoc
    Nobody = Nobody
    NoReply = NoReply
    new1 = new1
    new2 = new2
    marker1 = marker1
    put5 = put5
    put6 = put6
    put7 = put7
    repair5 = repair5
    repair7 = repair7
    suspend1 = suspend1
    plain1 = plain1
    oplog1 = oplog1
    get1 = get1
    read6 = read6
    both6 = both6
    del4 = del4
    del5 = del5
    del6 = del6
    fast5 = fast5
    drop1 = drop1
    puts = puts
    deletions = deletions
    newMarker = newMarker
    oldMarker = oldMarker
    update = update
    inverted = inverted
    crossed = crossed
    ingest = ingest
    suspended = suspended
    plain = plain
    last = last
    Requests = {new1, new2, marker1, put5, put6, repair7, suspend1, plain1, oplog1, get1, read6,
                both6, del5, del6, fast5, drop1}
    Scenarios = {deletions}
    Op <- MCOp
    InitialDocs <- MCInitialDocs
    Format <- MCFormat
    Calls <- MCCalls
    MaxVid = 7
    FirstVid = 4
    MaxCrashes = 0
    MaxErrors = 0
    LongDelay = TRUE
INVARIANT RepairIsSafe
CHECK_DEADLOCK FALSE
