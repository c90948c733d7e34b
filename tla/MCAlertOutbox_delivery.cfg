CONSTANTS
    Callers = {c1, c2}
    Alerts = {a1, a2}
    Keys = {k1}
    NoKey = NoKey
    None = None
    Kinds = {"plain", "held", "local_only"}
    Windows = {1, 2}
    MaxAge = 0
    MaxTries = 2
    MaxTime = 1
SPECIFICATION Spec
CONSTRAINT KindsOrKeys
SYMMETRY Symmetric
CHECK_DEADLOCK FALSE
INVARIANTS
    TypeOK
    SentOnlyWhenAllowed
    Recoverable
    OnceUnlessMessy
    DedupHolds
