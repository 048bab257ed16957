SPECIFICATION FairSpec

CONSTANTS
    a = a
    b = b
    dot = dot
    home = home
    tmp = tmp
    Names <- ThreeNames
    Hidden <- DotNames
    Dirs <- TwoDirs
    Stats <- SomeStats
    Contents <- SomeContents
    Flags <- SomeFlags
    CommandLines <- SomeCommandLines
    Lengths <- NameLengths
    Rank <- NameRanks
    IntHalf = 4
    Initial = 1
    MaxWidth = 10
    MaxTokens = 1

CHECK_DEADLOCK FALSE

INVARIANTS
    FreedOnce
    NothingLeaked
    StayersListed
    ShownInOrder
PROPERTIES
    Ends
