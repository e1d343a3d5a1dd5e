\* Two replicas on the same rows, one of which cannot be restored; nine requests
\* for one account: every kind, and two of the kinds that race with themselves.
CONSTANTS
    NumEvents = 2
    Resolvable = {2}
    Processors = {p1, p2}
    BatchSize = 20
    ErrorTexts = {timeout}
    NoError = NoError
    CleanupEnabled = TRUE
    TakesKindlessDates = TRUE
    MaxAbandon = 1
    reg1 = reg1
    reg2 = reg2
    login1 = login1
    refresh1 = refresh1
    update1 = update1
    assign1 = assign1
    forgot1 = forgot1
    reset1 = reset1
    reset2 = reset2
    Requests = {reg1, reg2, login1, refresh1, update1, assign1, forgot1, reset1, reset2}
    KindOf <- MCKindOf
    NoOne = NoOne
SPECIFICATION RowsSpec
SYMMETRY RowsSymmetry
INVARIANT RowsTypes
INVARIANT CleanRowsWereDelivered
INVARIANT NothingGivenUpEarly
INVARIANT DuplicatesAccounted
INVARIANT NothingUndone
INVARIANT RoleAccounted
PROPERTY ImplementsContract
PROPERTY ActsAtOnce
CHECK_DEADLOCK FALSE
