\* One replica on PostgreSQL, nothing lost: a batch that can never be saved.
CONSTANTS
    NumEvents = 1
    Resolvable = {1}
    Processors = {p1}
    BatchSize = 20
    ErrorTexts = {timeout}
    NoError = NoError
    CleanupEnabled = FALSE
    TakesKindlessDates = FALSE
    MaxAbandon = 0
SPECIFICATION Spec
INVARIANT RetriesEnd
