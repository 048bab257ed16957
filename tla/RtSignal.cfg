SPECIFICATION FairSpec

CONSTANTS
    Data = {0, 1, 2}
    QueueMax = 3
    MaxSends = 4

CHECK_DEADLOCK FALSE

INVARIANTS
    InOrder
    FirstFatalEnds
PROPERTIES
    FatalEnds
