SPECIFICATION FairHistorySpec
CONSTANTS
    m1 = m1
    i1 = i1
    NoMac = NoMac
    NoIp = NoIp
    NoSession = NoSession
    Sessions = {s1}
    Macs = {m1}
    Ips = {i1}
    Contexts <- IpFirst
    RequestIds = {q1}
    MaxRuns = 2
    MaxAttempts = 2
    MaxWorkers = 2
    MayShutDown = TRUE
    ControllerFailures = {"rejected", "notFound", "transient", "fatal"}
INVARIANTS
    HistoryIsConsistent
    NoOverlappingWorkers
    AuthorizedIsVerified
    FinishedSessionStaysFinished
PROPERTIES
    RunOutcomeIsFinal
    RunsAreCarriedOut
    ImplementsContract
