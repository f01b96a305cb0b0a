SPECIFICATION Spec
CONSTANTS
    p1 = p1
    p2 = p2
    Pods = {p1, p2}
    MaxGen = 3
    MaxHome = 2
    Ordered = TRUE
    Worlds <- Anything
SYMMETRY Ends
INVARIANTS
    CarrierFollowsState
PROPERTIES
    NoEcho
    LivePeerKeepsSession
CHECK_DEADLOCK FALSE
