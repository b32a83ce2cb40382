\* A bar is completed between the search for the end of the interval and its check.
SPECIFICATION RangeSpec
CONSTANTS
    RangePage = 2
    MaxBars = 4
    MaxSearch = 9
    MaxCarried = 9
    MaxHistory = 10
INVARIANT
    EmptyMeansNoData
CHECK_DEADLOCK FALSE
