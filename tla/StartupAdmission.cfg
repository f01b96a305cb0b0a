SPECIFICATION FairSpec
CONSTANTS
    NNodes = 4
    Primary <- PairAndTwo
    MaxToggles = 2
    Worlds <- Rollouts
INVARIANT BatchesAreLimited
PROPERTY EveryGroupStarts
CHECK_DEADLOCK FALSE
