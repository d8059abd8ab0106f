SPECIFICATION FairSpec
CONSTANTS
    None = None
    w1 = w1 w2 = w2 d1 = d1 d2 = d2
    Runs = {1}
    Workers = {w1, w2}
    Devices = {d1, d2}
    Visits = {"v1", "v2"}
    Due = 1
    Lease = 2
    MaxAttempts = 3
    Delays <- MCDelays2
    IdRetry = 1
    Horizon = 3
INVARIANTS JobsAreHonest
PROPERTIES ImplementsContract JobsComeToAnEnd
