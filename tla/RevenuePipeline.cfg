CONSTANTS
    o1 = o1
    o2 = o2
    w1 = w1
    w2 = w2
    Orders <- MCOrders
    TotalMinor <- MCTotalMinor
    Targets = {"paid", "refunded"}
    Versions = {1}
    Version = 1
    Workers = {w1}
    MaxTime = 1
    DayLength = 1
    Days = {0, 1}
    MaxRows = 3
    BatchSize = 2
    MaxInbox = 2
    MaxFaults = 1
SPECIFICATION FairSpec
INVARIANT PipelineTypeOK
INVARIANT NoEventLost
INVARIANT AppliedInOrder
INVARIANT RevenueIsExact
INVARIANT NothingRecognisedAfterRefund
PROPERTY LedgerSpec
PROPERTY EveryEventApplied
CHECK_DEADLOCK FALSE
