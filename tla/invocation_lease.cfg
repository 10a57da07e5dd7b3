\* Three invocations that are cut off, lose responses and fail calls.
SPECIFICATION FairSpec

CONSTANTS
    Invocations = { i1, i2, i3 }
    None = None
    RunTime = 1
    Margin = 2
    Skew = 1
    MaxFaults = 1

INVARIANTS
    OneRunAtATime
    LeaseInvariant

PROPERTIES
    RelayKeepsRunning
