SPECIFICATION Spec
CONSTANTS
    Nodes = {1, 2, 3, 4}
    Keys = {1}
    Batches = {{1}}
    Region <- TwoRegions
    Score <- FirstNodes
    RF = 2
    DefaultWrite = "Quorum"
    DefaultRead = "One"
    t1 = t1
    t2 = t2
    Threads = {t1, t2}
    Home <- HomeOf
    Tasks <- WriterAndReader
    MaxClock = 2
    MaxWrites = 1
    MaxLate = 1
    MaxHints = 1
    Peers = {2}
    AeBatch = 1
    NoReply = NoReply
INVARIANT StrongReadsAreFresh
