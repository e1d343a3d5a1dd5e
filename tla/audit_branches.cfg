\* Two messages consumed at once: the chain branches.
CONSTANTS
    NumEvents = 3
    Consumers = {c1, c2}
    MaxCrashes = 0
SPECIFICATION Spec
INVARIANT ChainIsLinear
CHECK_DEADLOCK FALSE
