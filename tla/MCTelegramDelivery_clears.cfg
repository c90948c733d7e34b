CONSTANTS
    b1 = b1
    b2 = b2
    d1 = d1
    Batches = {b1, b2}
    Dates = {d1}
    TargetDate <- SameDate
    Keys = {k1, k2}
    Senders = {s1}
    Nobody = Nobody
    MaxRetries = 0
    GatewayErrors = TRUE
    MaxClears = 1
    MaxCrashes = 1
    MaxCopies = 2
SPECIFICATION Spec
SYMMETRY KeySymmetric
INVARIANTS
    ConfirmedMeansDelivered
    OneBatchPerDate
PROPERTIES
    AttemptIsForever
