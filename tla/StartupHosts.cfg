SPECIFICATION FairSpec
CONSTANTS
    h1 = h1
    t1 = t1
    none = none
    nohost = nohost
    NPods = 3
    Hosts = {h1}
    NoHost = nohost
    Gated = {1, 2, 3}
    Topologies = {t1}
    NoTopology = none
    Owner <- TwoOwned
    Worlds <- Settings
INVARIANT SlotsAreLimited
PROPERTY QueueDrains
CHECK_DEADLOCK FALSE
