\* One custom domain beside the default URL, one thing that goes wrong.
SPECIFICATION Spec

CONSTANTS
    None = None
    MaxDomains = 1
    MaxFaults = 1

INVARIANTS
    Consistent
    ActiveDomainIsServed
    TornDown

CHECK_DEADLOCK FALSE
