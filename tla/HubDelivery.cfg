\* Fan-out to two connections with small buffers, within a day and over its end.
SPECIFICATION Spec
CONSTANTS
    c1 = c1
    c2 = c2
    Subscriber = {s1, s2}
    Market = {0}
    Code = {c1, c2}
    TargetSets <- TwoStocks
    Buffer = 1
    PageSize = 2
    MaxStart = 7
    MaxEvents = 2
    MaxDay = 2
    NoState = NoState
SYMMETRY Symmetry
CONSTRAINT OneStockAtMidnight
INVARIANTS
    TypeOK
    InOrderNoDuplicates
PROPERTIES
    ImplementsFeed
CHECK_DEADLOCK FALSE
