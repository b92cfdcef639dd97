CONSTANTS
    Sessions = {s1, s2}
    MuxCon = 2
    ChannelSize = 2
    ConnPoolSize = 0
    FlowCap = 1
    MaxLocals = 3
    MaxPool = 1
    MaxFaults = 1
    MaxRestarts = 1
SPECIFICATION Spec
INVARIANTS SlotsExact
SYMMETRY Symmetry
CHECK_DEADLOCK FALSE
