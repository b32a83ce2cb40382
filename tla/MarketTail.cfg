\* Eleven pages of two events, the list of any length to begin with and growing
\* during the search, past the last page the protocol can address.
SPECIFICATION FairSpec
CONSTANTS
    PageSize = 2
    MaxStart = 21
    MaxLen = 23
INVARIANTS
    TailSound
    FewQueries
PROPERTIES
    SearchEnds
CHECK_DEADLOCK FALSE
