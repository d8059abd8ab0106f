SPECIFICATION MCSpec
CONSTANTS
    Null = Null
    Foci = {"range", "repair", "versions", "late"}
    Versions = {"v1", "v2"}
    MaxTime = 3
    Retention = 1
    Bulk = 1
    Wide = 2
    MaxAge = 1
    Sample = 1
    ApCycles = {1}
    EndCycles = {1, 2}
    Commands = {"run", "repair", "range", "cleanup", "mark-ready", "activate", "mark-failed"}
    RepairTargets = FALSE
INVARIANTS SweepsAreSound
PROPERTIES ServiceIsSafe ActivatedComplete EvidenceArrives
