\* An update that fails between its two commits.
CONSTANTS
    u1 = u1
    u2 = u2
    s1 = s1
    Updates <- MCUpdates
    Singles <- MCSingles
    Rewrites <- MCRewrites
    Prices = {10, 20}
    NewPrice <- MCNewPrice
    InitialPrice = 10
    MaxAttempts = 2
SPECIFICATION Spec
CHECK_DEADLOCK FALSE
INVARIANT PriceChangesAreAnnounced
