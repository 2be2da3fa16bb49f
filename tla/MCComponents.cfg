CONSTANTS
    NoOpt = NoOpt
    TimerBits = 13
    SoaTimers <- ZESoaTimers
    EdnsValues = {0, 1, 5, 9, 30}
    ZoneConfs <- ZEZoneConfs
    Catalog = FALSE
    MaxTime = 3
    Jitter = {0, 29}
    q1 = q1
    q2 = q2
    q3 = q3
    q4 = q4
    r1 = r1
    r2 = r2
    r3 = r3
    NoRec = NoRec
    Reqs <- ZEReqs
    Recs <- ZERecs
    Req <- ZEReq
    Zone0 = {}
    Configs <- ZEConfigs
    Faults = {"init", "verify", "sign", "commit", "zonesize", "forward"}
    Unset = Unset
    s1 = s1
    s2 = s2
    Servers <- ZEServers
    Addrs <- ZEAddrs
    QueryLists <- ZEQueryLists
    MaxStray = 1
SPECIFICATION Spec
INVARIANT TypeOK ExpireWithinSoa ExpireFloor RefreshWithinBounds BulkAtomic LocalUpdatesSigned KeptOpenOnlyAfterAnswer AllTriedBeforeFailure
PROPERTY BootstrapCapSticky EveryUpdateAnswered KdigTerminates
