CONSTANTS
    Runs = {r1, r2}
    Stores = {s1, s2}
    MaxReady = 2
    MaxBatches = 2
    MaxLaunches = 3
    MaxByHand = 1
    MaxFaults = 1
SPECIFICATION Spec
SYMMETRY Symmetry
CONSTRAINT AtMostTwoTroubles
CHECK_DEADLOCK FALSE
INVARIANTS
    TypeOK
    OkMeansDelivered
    OneReadyDelivered
    NothingBuiltAfterAttempt
    SettledNotSent
    MarksSurvive
    OneCloseoutAtATime
PROPERTY
    ImplementsDay
