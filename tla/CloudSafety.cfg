SPECIFICATION Spec
CONSTANTS
    Rows <- MCRows
    SegmentRows = 2
    Attempts = 2
    Dbs <- MCDbs
    Threads <- MCThreads
    Starts <- MCStarts
    None = None
    Ttl = 1
    HeartbeatTtls = {1, 2}
CHECK_DEADLOCK FALSE
INVARIANTS
    TableIsExact
    ScanIsExact
    PointersStay
    MetadataIsTrue
    
