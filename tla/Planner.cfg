SPECIFICATION FairSpec
CONSTANTS
    Nodes = {1, 2}
    Attempts = {1, 2}
    Workers = {11}
    Images = {1, 2}
    MaxRounds = 4
    MaxRequests = 4
    MaxVersion = 2
    Worlds <- Lives
INVARIANTS PlansAreSound FailuresAreReported Isolated
PROPERTY Converges
CHECK_DEADLOCK FALSE
