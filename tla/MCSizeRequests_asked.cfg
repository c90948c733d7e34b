CONSTANTS
    Orders = {o1}
    Keys = {k1, k2}
    Approvals = {a1, a2}
    Callers = {c1, c2}
    None = None
    MaxAsks = 2
    MaxReplies = 2
SYMMETRY Symmetry
SPECIFICATION Spec
INVARIANTS
    TypeOK
    OneRowPerOrder
    AskedAgainKnown
    ReopenedKnown
    SizeKept
PROPERTIES
    SentNeverForgotten
CHECK_DEADLOCK FALSE
