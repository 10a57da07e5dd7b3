\* A heartbeat writes the recovery it decided over a teardown begun since.
SPECIFICATION Spec

CONSTANTS
    Handlers = { h1, h2 }
    MaxJobs = 2
    MaxReleases = 0
    MaxRequeues = 0
    HasConfig = FALSE
    OverlappingPolls = FALSE
    Operations = { "Register", "Destroy", "Claim", "Result", "Heartbeat" }

SYMMETRY HandlerSymmetry

PROPERTIES
    DeletingEndsTheDeployment

\* The bound on job rows ends every behaviour.
CHECK_DEADLOCK FALSE
