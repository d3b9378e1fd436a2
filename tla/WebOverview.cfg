CONSTANTS
    c1 = c1
    c2 = c2
    o1 = o1
    o2 = o2
    o3 = o3
    Customers = {c1, c2}
    Orders = {o1, o2, o3}
    Owner <- MCOwner
    Currency <- MCCurrency
    Total <- MCTotal
    Days = 2
    Ranges = {1, 2}
    PageSize = 2
    Begins <- MCBegins
    Tables <- MCTables
    MaxVisits = 2
    MaxAsks = 3
    MaxMoves = 1
    MaxFaults = 1
SPECIFICATION Spec
INVARIANT OverviewTypeOK
INVARIANT BadgeIsTheDashboardsTotal
INVARIANT ChartTellsTheTable
INVARIANT LifetimeMatchesTheOrders
CHECK_DEADLOCK FALSE
