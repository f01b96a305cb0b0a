SPECIFICATION FairSpec
CONSTANTS
    p = p
    l = l
    a = a
    b = b
    s1 = s1
    s2 = s2
    NoSpec = NoSpec
    Profiles = {p}
    Links = {l}
    Nodes = {a, b}
    Specs = {s1, s2}
    MaxGen = 3
    MaxChanges = 3
    Worlds <- Lives
PROPERTY UserObjectsKept
PROPERTY WiringFirst
PROPERTY ChildrenFollow
PROPERTY StatusFollows
CHECK_DEADLOCK FALSE
