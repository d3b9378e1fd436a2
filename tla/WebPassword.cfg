CONSTANTS
    o1 = o1
    o2 = o2
    p1 = p1
    p2 = p2
    s1 = s1
    s2 = s2
    r1 = r1
    r2 = r2
    c1 = c1
    c2 = c2
    Orders = {o1, o2}
    Products = {p1, p2}
    Members = {s1, s2}
    Roles = {r1, r2}
    Customers = {c1, c2}
    Images = {"i1"}
    Me = s1
    Tours <- MCTours
    Currency <- MCCurrency
    Digits <- MCDigits
    Typed <- MCTyped
    Fallback = 2
    Quantities = {0, 3}
    MaxQuantity = 4
    MaxVisits = 2
    MaxSubmits = 2
    MaxInFlight = 2
    MaxOthers = 1
    MaxFaults = 1
SPECIFICATION Spec
INVARIANT PasswordShownUntilAcknowledged
CHECK_DEADLOCK FALSE
