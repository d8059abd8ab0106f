SPECIFICATION TrafficSpec
CONSTANTS
    Null = Null
    Versions = {"v1"}
    MaxTime = 2
    Retention = 1
    Bulk = 1
    Wide = 2
    MaxAge = 1
    Sample = 1
    ApCycles = {}
    EndCycles = {}
    Commands = {"run", "repair"}
    RepairTargets = TRUE
INVARIANTS SweepsKeepIdentity
