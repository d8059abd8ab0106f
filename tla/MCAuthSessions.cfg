SPECIFICATION HistorySpec
CONSTANTS
    m1 = m1
    i1 = i1
    NoMac = NoMac
    NoIp = NoIp
    NoSession = NoSession
    Sessions = {s1, s2}
    Macs = {m1}
    Ips = {i1}
    Contexts <- IpFirst
    RequestIds = {}
    MaxRuns = 1
    MaxAttempts = 1
    MaxWorkers = 1
    MayShutDown = FALSE
    ControllerFailures = {}
INVARIANTS
    OneRunPerClient
    KeysResolve
PROPERTIES
    FinishedIsFinal
SYMMETRY SessionSymmetry
