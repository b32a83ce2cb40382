\* The number of bars that a reply reports.
SPECIFICATION Spec
CONSTANTS
    Layouts <- BarMessages
    Trusting <- BarNames
    Narrow = 65536
    Stocks = {0}
    MaxCount = 2
    MaxWide = 2
INVARIANT
    CountIsLength
CHECK_DEADLOCK FALSE
