CONSTANTS
    ConnPoolSize = 1
    FlowCap = 1
    Window = 1
    MaxRestarts = 1
    MaxRequests = 2
    MaxPool = 2
SPECIFICATION Spec
INVARIANTS OrdersExact NeverOvercounts
CHECK_DEADLOCK FALSE
