CONSTANTS
    Slots = {k1, k2, k3, k4}
    Nil = Nil
    GsAtOnce = 3
    ChannelSize = 2
    RestartSleep = 2
    TokenDeadline = 2
    RetryInterval = 3
    DialAttempts = 3
    MaxRetries = 3
    ServiceRestart = 3
    MaxFaults = 2
    MaxTunnels = 0
    RecoverWithin = 8
SPECIFICATION Spec
INVARIANTS RecoversInTime
SYMMETRY Symmetry
