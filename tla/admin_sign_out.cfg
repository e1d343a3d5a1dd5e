\* One page call beside the profile's, and up to two logins in one tab.
CONSTANTS
    PageCalls = {p1}
    Me = Me
    MaxSignIns = 2
SPECIFICATION AdminSpec
INVARIANT SignOutSticks
CHECK_DEADLOCK FALSE
