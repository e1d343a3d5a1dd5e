\* Two tabs of one browser: their refreshes meet, and one logs both out.
CONSTANTS
    t1 = t1
    t2 = t2
    r1 = r1
    r2 = r2
    r3 = r3
    Tabs <- MCTabs
    Requests <- MCRequests
    TabOf <- MCTabOf
    MaxExpiries = 1
    MaxLogins = 0
    MaxLost = 0
SPECIFICATION Spec
INVARIANT NeverLoggedOut
CHECK_DEADLOCK FALSE
