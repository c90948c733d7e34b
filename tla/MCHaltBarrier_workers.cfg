CONSTANTS
    Dates = {1, 2}
    Workers = {w1, w2}
    Bot = Bot
    Absent = Absent
    MaxTime = 2
    MaxHalts = 2
SPECIFICATION Spec
CONSTRAINT OverlapOnFirstDate
SYMMETRY WorkerSymmetry
INVARIANTS
    TypeOK
    IgnoredOnlyIfLost
    TodaysHaltHolds
PROPERTIES
    NoPassWithoutFreshReady
