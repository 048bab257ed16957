SPECIFICATION FairSpec

CONSTANTS
    NumChildren = 3
    Statuses = {"exited", "signaled"}
    ForkMayFail = TRUE

CHECK_DEADLOCK FALSE

INVARIANTS
    NoLostZombie
    ReportedOnce
PROPERTIES
    ZombiesReaped
