CONSTANTS
    Slots = {k1, k2, k3}
    Nil = Nil
    GsAtOnce = 2
    ChannelSize = 2
    RestartSleep = 2
    TokenDeadline = 2
    RetryInterval = 3
    DialAttempts = 3
    MaxRetries = 3
    ServiceRestart = 3
    MaxFaults = 1
    MaxTunnels = 1
    RecoverWithin = 10
SPECIFICATION FairSpec
INVARIANTS RecoversInTime
PROPERTIES Relinks
