SPECIFICATION FairSpec

CONSTANTS
    f = f
    g = g
    i1 = i1
    i2 = i2
    Files <- TwoFiles
    MaxFds = 6
    MaxArgs = 3
    PipeCap = 1
    MaxItems = 2
    Inodes <- TwoInodes
    StartDirs <- SomeDirs
    MaxChunks = 2
    MaxMeddling = 2
    Lines <- SomeLines
    MaxLost = 1

CHECK_DEADLOCK FALSE

INVARIANTS
    LeavesAsFound
    EndsApart
    StreamsAsAsked
    PipeFaithful
    CopyComplete
PROPERTIES
    NothingDestroyed
    PromptReturns
