\* The geo index, one refresher and writes through collection handles.
SPECIFICATION Spec
CONSTANTS
    t1 = t1
    t2 = t2
    a = a
    b = b
    NoDoc = NoDoc
    Docs = {1, 2}
    Values = {a, b}
    Threads = {t1, t2}
    Terms <- MCTerms
    CellOf <- MCCellOf
    Starts <- GeoStarts
    PageSize = 2
INVARIANT GeoIsExact
CHECK_DEADLOCK FALSE
