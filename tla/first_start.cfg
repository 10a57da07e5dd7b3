\* Two handlers: a zero-task install, its follow-ups, and the heartbeats that
\* verify it.
SPECIFICATION Spec

CONSTANTS
    Handlers = { h1, h2 }
    MaxJobs = 3
    MaxReleases = 1
    MaxRequeues = 0
    HasConfig = TRUE
    OverlappingPolls = FALSE
    Operations = { "Launch", "Register", "Claim", "Result", "Heartbeat", "StuckJobs",
                   "Crash" }

SYMMETRY HandlerSymmetry

INVARIANTS
    ConfigBeforeAutoDeploy

PROPERTIES
    VerifiedOnlyAfterInstall

\* The bound on job rows ends every behaviour.
CHECK_DEADLOCK FALSE
