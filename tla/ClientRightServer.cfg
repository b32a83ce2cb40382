\* A client of the extended market is asked for a stock quotation.
SPECIFICATION Spec
CONSTANTS
    main1 = main1
    main2 = main2
    ex1 = ex1
    mac1 = mac1
    root = root
    None = None
    Caller = {c1, c2}
    Child = {k1, k2}
    Socket = {s1, s2, s3}
    Address = {main1, main2, ex1, mac1}
    Hosts <- TwoMainHosts
    Calls <- QuotesFromEx
    AutoSelect = FALSE
    MaxCalls = 2
INVARIANT
    RightServer
CHECK_DEADLOCK FALSE
