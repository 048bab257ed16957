SPECIFICATION FairSpec

CONSTANTS
    Apps = {a1}
    BodyLen = 2
    MaxRequests = 2

CHECK_DEADLOCK FALSE

INVARIANTS
    WholeLines
    StaleBounded
    LastRequestWins
PROPERTIES
    SafeAfterInit
    RequestsSettle
