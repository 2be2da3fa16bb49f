CONSTANTS
    NoOpt = NoOpt
    TimerBits = 13
    SoaTimers <- MCSoaTimersMaxExpire
    EdnsValues = {0, 1, 5, 9, 30}
    ZoneConfs <- MCOneConf
    Unset = Unset
    Catalog = FALSE
    MaxTime = 3
    Jitter = {0, 29}
SPECIFICATION Spec
INVARIANT ExpireTimerValid
