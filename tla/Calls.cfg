\* Paged calls, the cache of decimal points, the auction service and intervals of
\* bars, side by side.
SPECIFICATION Spec
CONSTANTS
    Page = 2
    Narrow = 5
    Wide = 100
    MaxLen = 6
    MaxChanges = 2
    MaxRead = 10
    m1 = m1
    c1 = c1
    c2 = c2
    c3 = c3
    Caller = {g1, g2}
    Market = {m1}
    Code = {c1, c2, c3}
    Lists <- OneList
    Batches <- TwoBatches
    ListPage = 2
    MaxCalls = 3
    MaxListed = 3
    None = None
    BarPage = 2
    MaxOffset = 9
    Minutes = 3
    MaxDays = 3
    LastDay = 5
    RangePage = 2
    MaxBars = 4
    MaxSearch = 6
    MaxCarried = 8
    MaxHistory = 10
INVARIANTS
    TypeOK
    Exact
    Drift
    MissingMeansFailure
    ScaleIsKept
    PreviousIsAdjacent
    LatestDays
    Complete
    WholeBars
    
    SearchBrackets
PROPERTIES
    PagedCallReturns
CHECK_DEADLOCK FALSE
