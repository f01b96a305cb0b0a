SPECIFICATION ManagerFairSpec
CONSTANTS
    p1 = p1
    p2 = p2
    none = none
    None = none
    Pods = {p1, p2}
    Scalars = {"rollout"}
    Maps = {"annotations"}
    Metadata = {"annotations"}
    Keys = {"k"}
    Charts <- SomeCharts
    MaxUpgrades = 2
    Worlds <- Installs
PROPERTY UserDataKept
PROPERTY DeletedWhenMerged
PROPERTY ConfigFollowed
CHECK_DEADLOCK FALSE
