\* Registrations, outages and wake-ups: three connections, two markets, no events.
SPECIFICATION Spec
CONSTANTS
    c1 = c1
    c2 = c2
    Subscriber = {s1, s2, s3}
    Market = {0, 1}
    Code = {c1}
    TargetSets <- TwoMarkets
    Buffer = 1
    PageSize = 1
    MaxStart = 7
    MaxEvents = 0
    MaxDay = 1
    NoState = NoState
SYMMETRY Symmetry
INVARIANTS
    RegistryConsistent
    FailedConsistent
    SingleLoop
    NoLostWakeup
PROPERTIES
    OneErrorPerOutage
CHECK_DEADLOCK FALSE
