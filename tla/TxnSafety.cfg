SPECIFICATION Spec
CONSTANTS
    k1 = k1
    k2 = k2
    Keys = {k1, k2}
    Values = {v1}
    Tombstone = Tombstone
    NoRow = NoRow
    NoWrite = NoWrite
    NoSave = NoSave
    NoResult = NoResult
    Ranges <- AllKeys
    Txns = {t1}
    Isolations = {"ReadCommitted", "SnapshotIsolation", "Serializable"}
    Names = {s}
    MaxRetries = 1
    MaxOps = 5
    MaxLsn = 2
INVARIANT TxnInv
PROPERTIES NoLostUpdate SerialOrder RetryMeansProgress TakesEffectAtOnce
