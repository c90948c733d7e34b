CONSTANTS
    Runs = {r1}
    Stores = {s1}
    MaxReady = 2
    MaxBatches = 2
    MaxLaunches = 2
    MaxByHand = 0
    MaxFaults = 0
SPECIFICATION Spec
CHECK_DEADLOCK FALSE
INVARIANT
    ManifestIsNoAttempt
