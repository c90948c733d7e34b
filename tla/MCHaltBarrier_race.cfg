CONSTANTS
    Dates = {1}
    Workers = {w1}
    Bot = Bot
    Absent = Absent
    MaxTime = 4
    MaxHalts = 2
SPECIFICATION Spec
INVARIANTS
    BarredWhileGatesRace
