\* What m_blocks_sent claims.  One change of a node is enough.
CONSTANTS
    NumBlocks = 1
    Dist <- MCDist
    Euclid <- MCEuclid
    FullD = 1
    MaxSimul = 1
    MaxTotal = 1
    EmergeLimit = 1
    Worlds <- MCWorlds
    MaxOps = 1
SPECIFICATION Spec
INVARIANTS
    UpToDate
