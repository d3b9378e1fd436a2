CONSTANTS
    r1 = r1
    r2 = r2
    Listing <- MCListing
    Found <- MCFound
    Initially <- MCInitially
    Filters <- MCFilters
    Links <- MCLinks
    DefaultSize = 2
    Sizes = {1}
    MaxNavigations = 2
    MaxReloads = 2
    MaxInFlight = 2
    MaxOthers = 1
    MaxBulks = 1
    MaxFaults = 1
SPECIFICATION Spec
INVARIANT ListTypeOK
INVARIANT LoadingIsAwaited
INVARIANT RowsAnswerTheURL
INVARIANT TicksBelongToThePage
INVARIANT ReportIsTrue
INVARIANT ReadsItsWrites
CHECK_DEADLOCK FALSE
