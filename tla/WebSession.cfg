CONSTANTS
    ann = ann
    ben = ben
    k1 = k1
    k2 = k2
    l1 = l1
    Staff <- MCStaff
    Temporary <- MCTemporary
    Tokens <- MCTokens
    Loads = {l1}
    TTL = 1
    PollFor = 2
    MaxTime = 2
    MaxInFlight = 2
    MaxFaults = 1
    Slow = FALSE
SPECIFICATION Spec
INVARIANT SessionTypeOK
INVARIANT ScreenTellsTheSession
INVARIANT PollOutlastsCache
INVARIANT RevokedWithinTTL
CHECK_DEADLOCK FALSE
