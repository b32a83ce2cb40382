\* Two requests for stocks or indices while hosts fail and recover.
SPECIFICATION FairSpec
CONSTANTS
    Request = {r1, r2}
    Hosts <- TwoHosts
    Initially = {"bars", "down"}
    MaxChanges = 2
INVARIANTS
    TypeOK
    SurvivesFailures
    EmptyIsTrue
PROPERTIES
    RequestsReturn
CHECK_DEADLOCK FALSE
