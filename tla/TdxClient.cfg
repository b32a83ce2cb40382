\* Two callers of a client of any mode; its hosts are up or down at any moment.
SPECIFICATION FairSpec
CONSTANTS
    main1 = main1
    main2 = main2
    ex1 = ex1
    mac1 = mac1
    root = root
    None = None
    Caller = {c1, c2}
    Child = {k1, k2}
    Socket = {s1, s2, s3}
    Address = {main1, main2, ex1, mac1}
    Hosts <- TwoMainHosts
    Calls <- UsualCalls
    AutoSelect = TRUE
    MaxCalls = 2
INVARIANTS
    TypeOK
    OwnReply
    AddressIsCurrent
    NothingLeaks
    RightServer
CHECK_DEADLOCK FALSE
PROPERTIES CallsReturn
