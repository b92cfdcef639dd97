CONSTANTS
    AuUsers = {u1, u2}
    AuMaxFlows = 3
    AuNone = None
    AuChannelSize = 1
    AuPayload = 1
    AuTunnels = 2
    AuPeriod = 4
    AuLate = 1
    AuMaxDelay = 2
    UdUsers = {v1, v2, v3}
    UdLoads <- MCLoads
    UdNone = None
    UdChannelSize = 1
    UdPayload = 1
    WtMaxTunnels = 2
    WtMaxLocals = 2
    WtLoops = {h1}
    WtNone = None
    WtChannelSize = 1
    WtWire = 2
    QtMaxTunnels = 2
    QtMaxLocals = 2
    QtMaxRuns = 2
    QtMaxLinks = 2
    QtChannelSize = 1
    QtMuxCon = 2
    QtPoolSize = 2
    UsPorts = {p1}
    UsSavers = {s1, s2}
    UsInstances = 2
    UsMaxBytes = 2
    PmMappings <- MCMappings
    PmLength = 2
    PmTop = 6
    PmForeign = {5}
    PmSleep = 3
    PmRuns = 3
SPECIFICATION SvSpec
INVARIANTS
    SvTypeOK
    AuTableServed AuOneFlow AuNoFalseCongestion
    UdEntriesOpen UdEntriesServed UdAddressLast
    WtFraming WtIdleWatched
    QtHandover QtUsersKept
    UsNeverOvercounts UsAccounted
    PmExitExplained PmAllListen
CHECK_DEADLOCK FALSE
