\* Two saves of one key, for one deployment of the customer.
SPECIFICATION FairSpec

CONSTANTS
    Deployments = { d1 }
    MaxValues = 2
    MaxFaults = 2
    PromptQueue = TRUE

INVARIANTS
    Consistent
    ValueIsOnItsWay

PROPERTIES
    ValueArrives

\* The bound on saves ends every behaviour.
CHECK_DEADLOCK FALSE
