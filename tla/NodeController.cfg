SPECIFICATION FairSpec
CONSTANTS
    Specs = {1, 2}
    Links = {1, 2, 3}
    LiveLinks = {1, 2}
    MaxGen = 3
    MaxRestarts = 2
    Worlds <- Lives
PROPERTY MountsKept
PROPERTY ReplacedForReason
INVARIANT AppliedIsCurrent
PROPERTY ReportsForward
PROPERTY Converges
CHECK_DEADLOCK FALSE
