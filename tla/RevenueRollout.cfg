CONSTANTS
    o1 = o1
    o2 = o2
    w1 = w1
    w2 = w2
    Orders <- MCOneOrder
    TotalMinor <- MCTotalMinor
    Targets = {"paid", "refunded"}
    Versions = {1, 2}
    Version = 1
    Workers = {w1, w2}
    MaxTime = 0
    DayLength = 1
    Days = {0}
    MaxRows = 3
    BatchSize = 2
    MaxInbox = 1
    MaxFaults = 1
SPECIFICATION Spec
SYMMETRY MCSymmetry
INVARIANT AppliedInOrder
INVARIANT RevenueIsExact
CHECK_DEADLOCK FALSE
