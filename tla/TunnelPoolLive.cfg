CONSTANTS
    ChannelSize = 4
    HandleLoops = 1
    ConnPoolSize = 0
    FlowCap = 2
    Window = 1
    AggressivePool = TRUE
    MaxLocals = 2
    MaxPool = 2
    MaxFaults = 1
SPECIFICATION FairSpec
PROPERTIES AllServed
CHECK_DEADLOCK FALSE
