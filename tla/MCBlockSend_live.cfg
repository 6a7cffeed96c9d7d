\* Two blocks and a window of one; one operation, and then quiet.
CONSTANTS
    NumBlocks = 2
    Dist <- MCDist
    Euclid <- MCEuclid
    FullD = 3
    MaxSimul = 1
    MaxTotal = 2
    EmergeLimit = 1
    Worlds <- MCHalfWorld
    MaxOps = 1
SPECIFICATION FairSpec
PROPERTIES
    AllArrive
INVARIANTS
    WindowKept
