\* Two tabs of one browser and a token that expires more than once; a table of
\* seven rows; one browser's list of products, changed once; one page call of the
\* admin beside the profile's, and three logins.
CONSTANTS
    t1 = t1
    t2 = t2
    r1 = r1
    r2 = r2
    r3 = r3
    Tabs <- MCTabs
    Requests <- MCRequests
    TabOf <- MCTabOf
    MaxExpiries = 2
    MaxLogins = 1
    MaxLost = 1
    PageSizes = {1, 2}
    DefaultPageSize = 2
    Words = {"w"}
    MaxRows = 7
    MaxEntries = 3
    Browsers = {b1}
    Fetches = {f1, f2}
    NoFetch = NoFetch
    CacheDuration = 2
    MaxChanges = 1
    PageCalls = {p1}
    Me = Me
    MaxSignIns = 3
SPECIFICATION BrowsersSpec
INVARIANT BrowserTypes
INVARIANT OneRefreshPerTab
INVARIANT SessionKept
INVARIANT UrlRestoresFilters
INVARIANT ButtonsSound
INVARIANT OwnChangesShown
INVARIANT SessionsUnmixed
PROPERTY CallsEnd
PROPERTY PageSettles
PROPERTY StaleListsLeave
CHECK_DEADLOCK FALSE
