\* More rows than one batch: rows the service never drops from its window.
CONSTANTS
    NumEvents = 3
    Resolvable = {1, 3}
    Processors = {p1}
    BatchSize = 2
    ErrorTexts = {timeout}
    NoError = NoError
    CleanupEnabled = FALSE
    TakesKindlessDates = TRUE
    MaxAbandon = 0
SPECIFICATION FairSpec
PROPERTY StoredEventsSettle
