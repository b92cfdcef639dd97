CONSTANTS
    ChannelSize = 1
    HandleLoops = 1
    ConnPoolSize = 0
    FlowCap = 1
    Window = 2
    AggressivePool = TRUE
    MaxLocals = 2
    MaxPool = 2
    MaxFaults = 1
SPECIFICATION Spec
INVARIANTS TypeOK Conservation EveryLocalProvisioned PoolCounterExact
CHECK_DEADLOCK FALSE
