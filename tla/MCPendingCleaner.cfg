SPECIFICATION MCSpec
CONSTANTS
    None = None
    m1 = m1
    m2 = m2
    m3 = m3
    Macs = {m1, m2, m3}
    Mobile = {}
    Cooldown = 2
    Hour = 5
    HourlyLimit = 2
    MaxEntries = 2
    MaxClock = 4
    MinUptime = 1
    Tolerance = 0
    ScanBudget = 3
    MaxActions = 2
    VerifyRounds = 2
    Grace = 2
    ReplyDelay = 1
INVARIANTS
    GuardHolds
    ConfirmedIsReal
    AtMostOneSendAfterStop
PROPERTIES
    GuestsAreNotReconnected
    WorkerComesToRest
CHECK_DEADLOCK FALSE
