SPECIFICATION FairSpec
CONSTANTS
    BootTicks = 1
    ResyncTicks = 2
    PeerTicks = 4
    RetryTicks = 2
    ReassertTicks = 3
    Worlds <- Lives
INVARIANT ReadyIsRealized
INVARIANT Steered
PROPERTY LinksKept
PROPERTY Converges
CHECK_DEADLOCK FALSE
