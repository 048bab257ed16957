SPECIFICATION FairSpec

CONSTANTS
    NumDevices = 2
    Disks <- SmallDisks
    Wrap = 16
    MaxLines = 12

CHECK_DEADLOCK FALSE

INVARIANT EachPartitionListed
