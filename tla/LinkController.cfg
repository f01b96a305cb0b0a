SPECIFICATION FirstLeads
CONSTANTS
    n1 = n1
    n2 = n2
    s1 = s1
    Host = Host
    NoNode = NoNode
    NodeNames = {n1, n2}
    NLinks = 2
    Specs <- SomeSpecs
    MaxWireID = 2
    Slots = {s1, s2}
    InitialNodes = {n1, n2}
    MaxEnv = 3
INVARIANTS
    WireIDsUnique
    AcceptedIsBound
PROPERTIES
    RewiresKeepID
    DeletesOnlyOrphans
    Converges
CHECK_DEADLOCK FALSE
