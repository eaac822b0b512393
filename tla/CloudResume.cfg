SPECIFICATION Spec
CONSTANTS
    Rows <- MCRows
    SegmentRows = 2
    Attempts = 2
    Dbs <- ResumeDbs
    Threads <- MCThreads
    Starts <- ResumeStarts
    None = None
    Ttl = 1
    HeartbeatTtls = {1, 2}
CHECK_DEADLOCK FALSE
INVARIANTS
    MarkersConsumedOnce
