\* A tail search outlives the subscription it was made for.
SPECIFICATION ReplaySpec
CONSTANTS
    c1 = c1
    c2 = c2
    Subscriber = {s1, s2}
    Market = {0}
    Code = {c1}
    TargetSets <- OneStock
    Buffer = 1
    PageSize = 2
    MaxStart = 7
    MaxEvents = 1
    MaxDay = 1
    NoState = NoState
INVARIANT
    NoReplayBeforeConnect
CHECK_DEADLOCK FALSE
