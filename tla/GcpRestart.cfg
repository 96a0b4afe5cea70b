SPECIFICATION GuSpec
CONSTANTS
    Totals = {4}
    PartSize = 2
    Slice = 2
    QueueSize = 2
    DeleteLimit = 2
    MaxBuffered = 3
    MaxFailures = 1
    MaxSlow = 0
INVARIANT PutAtTheEndIsAll
CHECK_DEADLOCK FALSE
