\* Full-text and geo indexes against writers, refreshers and failures.
SPECIFICATION Spec
CONSTANTS
    t1 = t1
    t2 = t2
    a = a
    b = b
    NoDoc = NoDoc
    Docs = {1, 2}
    Values = {a, b}
    Threads = {t1, t2}
    Terms <- MCTerms
    CellOf <- MCCellOf
    Starts <- MCStarts
    PageSize = 2
INVARIANTS TextIsExact GeoFollows
 
CHECK_DEADLOCK FALSE
