CONSTANTS
    o1 = o1
    o2 = o2
    r1 = r1
    r2 = r2
    Orders <- MCOrders
    Requests <- MCRequests
    TotalMinor <- MCTotalMinor
    Targets = {"pending", "paid", "packed", "shipped", "delivered", "cancelled", "refunded"}
    Versions = {1}
    MaxTime = 1
    MaxRows = 4
SPECIFICATION OrdersSpec
SYMMETRY MCSymmetry
INVARIANT TypeOK
INVARIANT EventLogExplainsStatus
INVARIANT OutboxFollowsLog
INVARIANT RefundFollowsPayment
PROPERTY LogSpec
PROPERTY TerminalIsFinal
