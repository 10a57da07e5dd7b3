\* Two handlers: day-2 requests, polls, results and the watchdog.
SPECIFICATION Spec

CONSTANTS
    Handlers = { h1, h2 }
    MaxJobs = 3
    MaxReleases = 1
    MaxRequeues = 1
    HasConfig = FALSE
    OverlappingPolls = FALSE
    Operations = { "Register", "Deploy", "BulkDeploy", "ConfigUpdate",
                   "Claim", "HandBack", "Result", "StuckJobs" }

SYMMETRY HandlerSymmetry

INVARIANTS
    OneActiveMutation
    Consistent

PROPERTIES
    MutationsHandedOutAlone
    FailedUpdateKeepsLive

\* The bound on job rows ends every behaviour.
CHECK_DEADLOCK FALSE
