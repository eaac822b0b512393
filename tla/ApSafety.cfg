SPECIFICATION Spec
CONSTANTS
    Nodes = {1, 2, 3}
    Keys = {1}
    Batches = {{1}}
    Region <- OneRegion
    Score <- FirstNodes
    RF = 2
    DefaultWrite = "One"
    DefaultRead = "One"
    t1 = t1
    t2 = t2
    Threads = {t1, t2}
    Home <- HomeOf
    Tasks <- TasksOf
    MaxClock = 2
    MaxWrites = 3
    MaxLate = 1
    MaxHints = 2
    Peers = {2}
    AeBatch = 1
    NoReply = NoReply
INVARIANTS AckedOnQuorum StrongReadsAreFresh HintsReachTargets
PROPERTIES ClocksAreFresh ReplicasOnlyAdvance
CONSTRAINT Focus
