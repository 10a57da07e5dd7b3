\* One release, three deliveries of its message, three faults.
SPECIFICATION FairSpec

CONSTANTS
    MaxReceives = 3
    MaxFaults = 3

INVARIANTS
    Consistent
    OneBuildPerRelease
    SettledAsBuilt

PROPERTIES
    ReadyIsFinal
    ReleaseSettles

\* A release that is settled stays as it is.
CHECK_DEADLOCK FALSE
