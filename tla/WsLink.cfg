CONSTANTS
    Slots = {k1, k2, k3}
    Nil = Nil
    GsAtOnce = 3
    RestartSleep = 2
    RetryInterval = 3
    DialAttempts = 3
    MaxRetries = 3
    ServiceRestart = 3
    ReloadSleep = 3
    MaxFaults = 1
    RecoverWithin = 9
SPECIFICATION FairSpec
INVARIANTS RecoversInTime OneControl
PROPERTIES Relinks
