SPECIFICATION GuardSpec
CONSTANTS
    None = None
    Macs = {m1, m2, m3}
    Cooldown = 3
    Hour = 2
    HourlyLimit = 2
    MaxEntries = 2
    MaxClock = 8
INVARIANT
    MemoryBounded
CHECK_DEADLOCK FALSE
