\* One operation, one screen with the hook, and nothing goes wrong but the connection.
CONSTANTS
    Ops = {o1}
    Hooks = {h1}
    MaxKills = 0
    MaxFaults = 0
    MaxLostAcks = 0
SPECIFICATION QueueFairSpec
PROPERTY ReconnectSyncs
CHECK_DEADLOCK FALSE
