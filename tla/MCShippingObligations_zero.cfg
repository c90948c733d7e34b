CONSTANTS
    o1 = o1
    o2 = o2
    Orders = {o1, o2}
    Situations = {"accepted", "cancelling", "handed", "archived"}
    Groups <- NoneOrSecond
    Window = 0
    MaxOpen = 1
    MaxDay = 2
    MaxRepairs = 0
SPECIFICATION Spec
CONSTRAINT FirstIsDueFirst
CHECK_DEADLOCK FALSE
INVARIANT
    ZeroOrderMeansNothingOwed
