SPECIFICATION FairSpec
CONSTANTS
    p1 = p1
    p2 = p2
    Pods = {p1, p2}
    MaxGen = 3
    MaxHome = 2
    Ordered = TRUE
    Worlds <- Disturbed
PROPERTIES
    Reconverges
ACTION_CONSTRAINT
    DisturbedLate
CHECK_DEADLOCK FALSE
