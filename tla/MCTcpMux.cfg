CONSTANTS
    Sessions = {s1, s2}
    MuxCon = 2
    ChannelSize = 1
    ConnPoolSize = 0
    FlowCap = 1
    MaxLocals = 2
    MaxPool = 1
    MaxFaults = 1
    MaxRestarts = 1
SPECIFICATION FairSpec
INVARIANTS TypeOK StreamCounterExact SessionCounterExact Provisioned
PROPERTIES AllServed
CHECK_DEADLOCK FALSE
