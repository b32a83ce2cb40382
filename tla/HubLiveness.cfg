\* What must eventually happen under the fairness of the Go scheduler.
SPECIFICATION FairSpec
CONSTANTS
    c1 = c1
    c2 = c2
    Subscriber = {s1, s2}
    Market = {0}
    Code = {c1}
    TargetSets <- OneStock
    Buffer = 2
    PageSize = 1
    MaxStart = 1
    MaxEvents = 3
    MaxDay = 1
    NoState = NoState
PROPERTIES
    BaselineOrError
    EventsReached
    LoopStops
CHECK_DEADLOCK FALSE
