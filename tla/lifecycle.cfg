\* One handler: routes and sweeps run one after the other, and the lifecycle
\* table of docs/deployment-resilience.md holds.
SPECIFICATION Spec

CONSTANTS
    Handlers = { h1 }
    MaxJobs = 3
    MaxReleases = 2
    MaxRequeues = 0
    HasConfig = TRUE
    OverlappingPolls = FALSE
    Operations = { "Deploy", "BulkDeploy", "Rollback", "Restart", "Destroy",
                   "ForceComplete", "Purge", "PublicRetry", "RetryInstall",
                   "Register", "Claim", "HandBack", "Result", "Progress", "Heartbeat",
                   "StuckJobs", "StrandedJobs", "RelayLiveness", "ReleaseReady" }

INVARIANTS
    InFlightStateHasItsJob
    UpdateAvailableIsTrue
    RecoveryOnlyIfNeverInstalled

PROPERTIES
    DeletedIsTerminal
    DeletingEndsTheDeployment

\* The bound on job rows ends every behaviour.
CHECK_DEADLOCK FALSE
