\* One replica whose batch can hold every row, and a phone that is killed once.
CONSTANTS
    NumEvents = 3
    Resolvable = {1, 3}
    Processors = {p1}
    BatchSize = 3
    ErrorTexts = {timeout}
    NoError = NoError
    CleanupEnabled = FALSE
    TakesKindlessDates = TRUE
    MaxAbandon = 1
    Ops = {o1, o2}
    Hooks = {h1}
    MaxKills = 1
    MaxFaults = 1
    MaxLostAcks = 1
SPECIFICATION QueuesSpec
INVARIANT QueueTypes
INVARIANT RepeatsAccounted
PROPERTY UnnoticedUntilMount
PROPERTY BrokenEventsRest
PROPERTY StoredEventsSettle
PROPERTY SyncsEnd
PROPERTY KeepsContract
