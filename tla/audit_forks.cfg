\* Two messages consumed at once, late events, crashes and the cleanup.
CONSTANTS
    NumEvents = 3
    Consumers = {c1, c2}
    MaxCrashes = 1
SPECIFICATION FairSpec
INVARIANT TypeOK
INVARIANT ForksBounded
INVARIANT EventsAccounted
INVARIANT RecordedTwiceOnlyAfterCrashes
PROPERTY EventsEndRecorded
CHECK_DEADLOCK FALSE
