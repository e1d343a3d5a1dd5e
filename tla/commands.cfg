\* Concurrent commands that fail anywhere and are sent again; a cart of two rows
\* with two calls under way and one clear; two logins and one failing write.
CONSTANTS
    u1 = u1
    u2 = u2
    s1 = s1
    Updates <- MCUpdates
    Singles <- MCSingles
    Rewrites <- MCRewrites
    Prices = {10, 20}
    NewPrice <- MCNewPrice
    InitialPrice = 10
    MaxAttempts = 2
    MinAttempts = 1
    Watched <- MCWatched
    MaxRefusals = 1
    Operations = {k1}
    c1 = c1
    Calls = {c1, c2}
    MaxItems = 2
    MaxQuantity = 2
    MaxSends = 2
    Attempts = {a1, a2}
    MaxStorageFaults = 1
SPECIFICATION CommandsSpec
INVARIANT CommandTypes
INVARIANT SinglesAreAtomic
INVARIANT HeardWasWritten
INVARIANT SuccessIsHeard
INVARIANT AuditsAroundCommit
INVARIANT SequentialAgreement
INVARIANT SafeRowsStay
INVARIANT AuthenticatedHasToken
INVARIANT SignOutLasts
INVARIANT DisabledExplained
CHECK_DEADLOCK FALSE
