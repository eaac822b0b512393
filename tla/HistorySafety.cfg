SPECIFICATION FairSpec
CONSTANTS
    Keys = {k1}
    Values = {v1}
    Tombstone = Tombstone
    NoRow = NoRow
    NoRecord = NoRecord
    MaxLsn = 3
    Readers = {r1}
    Consumers = {c1}
    BatchSize = 1
    Retains = {0, 1, 2}
INVARIANTS ResumeHasRecords ConsumersKeepUp PinHolds AsOfExact ScanComplete
PROPERTIES ProgressMonotone GcEnds
