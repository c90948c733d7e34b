CONSTANTS
    b1 = b1
    b2 = b2
    d1 = d1
    Batches = {b1}
    Dates = {d1}
    TargetDate <- OneBatch
    Keys = {k1, k2}
    Senders = {s1}
    Nobody = Nobody
    MaxRetries = 0
    GatewayErrors = FALSE
    MaxClears = 1
    MaxCrashes = 0
    MaxCopies = 2
SPECIFICATION Spec
PROPERTIES
    ConfirmedImmutable
