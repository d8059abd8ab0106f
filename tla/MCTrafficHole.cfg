SPECIFICATION TrafficSpec
CONSTANTS
    Null = Null
    Versions = {"v1"}
    MaxTime = 3
    Retention = 1
    Bulk = 1
    Wide = 2
    MaxAge = 2
    Sample = 1
    ApCycles = {}
    EndCycles = {}
    Commands = {"run", "range", "mark-ready", "activate"}
    RepairTargets = FALSE
PROPERTIES ActivatedComplete
