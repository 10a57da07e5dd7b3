\* One deployment and its reconciliations, one thing that goes wrong.
SPECIFICATION FairSpec

CONSTANTS
    Deployments = {d1}
    Requests = {q1, q2}
    None = None
    MaxAllowance = 1
    MaxFaults = 1

INVARIANTS
    Consistent
    RemovedIsNotBilled

PROPERTIES
    ReadyIsBilled
    QuantityConverges

