SPECIFICATION Spec
CONSTANTS
    t1 = t1
    t2 = t2
    t3 = t3
    t4 = t4
    k1 = k1
    k2 = k2
    alice = alice
    bob = bob
    Threads = {t1, t2, t3, t4}
    Keys = {k1, k2}
    Groups = {"a", "b"}
    NoRow = NoRow
    NoGroup = NoGroup
    NoCount = NoCount
    None = None
    Root = Root
    Principals = {alice, bob}
    Specs <- ViewSpecs
    Filters <- RowFilters
    Starts <- RestoredFeed
    PageSize = 2
    Retains = {1}
PROPERTIES FeedIsExact
CHECK_DEADLOCK FALSE
