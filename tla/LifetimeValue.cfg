CONSTANTS
    o1 = o1
    o2 = o2
    w1 = w1
    w2 = w2
    Orders <- MCOrders
    TotalMinor <- MCTotalMinor
    Targets = {"paid", "cancelled"}
    Versions = {1}
    Version = 1
    Workers = {w1}
    MaxTime = 0
    DayLength = 1
    Days = {0}
    MaxRows = 3
    BatchSize = 2
    MaxInbox = 1
    MaxFaults = 0
SPECIFICATION Spec
INVARIANT NetRevenueIsLifetimeValue
CHECK_DEADLOCK FALSE
