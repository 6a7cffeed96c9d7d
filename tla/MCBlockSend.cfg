\* One block and three operations.
CONSTANTS
    NumBlocks = 1
    Dist <- MCDist
    Euclid <- MCEuclid
    FullD = 1
    MaxSimul = 1
    MaxTotal = 1
    EmergeLimit = 1
    Worlds <- MCWorlds
    MaxOps = 3
SPECIFICATION Spec
INVARIANTS
    TypeOK
    SendingIsDue
    SentIsHeld
    StaleOnlyByOvertaking
