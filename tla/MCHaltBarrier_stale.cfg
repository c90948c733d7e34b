CONSTANTS
    Dates = {1}
    Workers = {w1}
    Bot = Bot
    Absent = Absent
    MaxTime = 3
    MaxHalts = 1
SPECIFICATION Spec
INVARIANTS
    StaleReadyStaysBarred
