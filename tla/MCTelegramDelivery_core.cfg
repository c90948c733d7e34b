CONSTANTS
    b1 = b1
    b2 = b2
    d1 = d1
    Batches = {b1, b2}
    Dates = {d1}
    TargetDate <- SameDate
    Keys = {k1, k2}
    Senders = {s1, s2}
    Nobody = Nobody
    MaxRetries = 2
    GatewayErrors = FALSE
    MaxClears = 0
    MaxCrashes = 2
    MaxCopies = 2
SPECIFICATION FairSpec
INVARIANTS
    TypeOK
    DeliveryAccounted
    AtMostOnce
    HaltLetsOneCallThrough
PROPERTIES
    ImplementsPromise
    ImplementsDay
    EveryRunEnds
