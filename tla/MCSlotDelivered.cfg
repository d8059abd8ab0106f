SPECIFICATION DeliveredSpec
CONSTANTS
    s1 = s1
    s2 = s2
    reader = reader
    reconciler = reconciler
    Thread = {s1, s2, reader, reconciler}
    Nobody = Nobody
    Ops <- MCOps
    Age = 4
    Wait = 15
    BackgroundWait = 5
    MaxHold = 1
PROPERTIES ReconciliationIsServed
