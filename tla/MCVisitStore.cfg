SPECIFICATION MCSpec
CONSTANTS
    Client = {"c1"}
    Run = {1, 2}
    RunOf <- MCRunOf
    Event = {1, 2}
    Evidence <- MCEvidence
    Device = {"d1"}
    None = None
    Grace = 1
    Skew = 1
    MaxAttempts = 2
    Batch = 1
    MaxTime = 1
INVARIANTS VisitsHappenOnce ClosesAreJustified
PROPERTIES NothingIsWrittenLate PendingEventsAreResolved
