\* Every message of the three protocols, its replies cut anywhere.
SPECIFICATION Spec
CONSTANTS
    Layouts <- AllMessages
    Trusting <- Unguarded
    Narrow = 65536
    Stocks <- SomeStocks
    MaxCount = 2
    MaxWide = 2
INVARIANTS
    TypeOK
    AnnouncedIsSent
    OnlyTrustingOverrun
    WholeOrRefused
CHECK_DEADLOCK FALSE
