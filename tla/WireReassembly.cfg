SPECIFICATION ReassemblySpec
CONSTANTS
    NoAddr = NoAddr
    NoProc = NoProc
    a1 = a1
    a2 = a2
    Addresses = {a1, a2}
    Procs = {1, 2}
    Gen <- Generations
    Payload <- Twos
    Lengths = {3, 4, 5}
    MaxFragments = 2
    MaxDeliver = 3
    FrameLimit = 1
    Expiry = 0
    SessionTimeout = 1
    MaxFrames = 2
    MaxSent = 2
    MaxClock = 2
PROPERTY ImplementsChannel
CHECK_DEADLOCK FALSE
