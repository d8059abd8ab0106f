SPECIFICATION OutageSpec
CONSTANTS
    Events = {1, 2, 3}
    Health = {2}
    Size <- Sizes
    Sources = {"raw"}
    Coalesce = TRUE
    Gate = TRUE
    MaxEvents = 2
    Chunk = 2
    BatchSize = 2
    TTL = 1
    MaxPend = 3
    MaxBytes = 2
    Window = 1
    Lag = 1
    MaxTime = 2
    MaxFaults = 1
INVARIANTS DeliveryOutlivesOutages
CHECK_DEADLOCK FALSE
