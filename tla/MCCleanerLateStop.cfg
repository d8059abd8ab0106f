SPECIFICATION Spec
CONSTANTS
    None = None
    Macs = {m1, m2}
    Mobile = {}
    Cooldown = 1
    Hour = 3
    HourlyLimit = 2
    MaxEntries = 2
    MaxClock = 4
    MinUptime = 1
    Tolerance = 0
    ScanBudget = 3
    MaxActions = 2
    VerifyRounds = 2
    Grace = 2
    ReplyDelay = 1
INVARIANT
    NoMutationAfterStop
CHECK_DEADLOCK FALSE
