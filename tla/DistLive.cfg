SPECIFICATION LiveSpec
CONSTANTS
    k1 = k1
    k2 = k2
    Shards = {1, 2}
    Global = 1
    Keys = {k1, k2}
    Owner <- OwnerOfTwo
    Batches <- AllKeys
    Routers = {r1, r2}
    r2 = r2
    r1 = r1
    LegacyTxns = {1}
    MaxTries = 2
    MaxTxn = 2
    MaxLate = 1
INVARIANT FreshIds
PROPERTIES BatchesAreAtomic 
CHECK_DEADLOCK FALSE
