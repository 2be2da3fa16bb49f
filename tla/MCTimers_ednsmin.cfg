CONSTANTS
    NoOpt = NoOpt
    TimerBits = 13
    SoaTimers <- MCSoaTimers
    EdnsValues = {0, 1, 6, 9, 30}
    ZoneConfs <- MCOneConf
    Unset = Unset
    Catalog = FALSE
    MaxTime = 3
    Jitter = {0, 29}
SPECIFICATION Spec
INVARIANT EdnsExpireHonoured
