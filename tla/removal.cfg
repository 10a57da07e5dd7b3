\* Two handlers: first installs, resets that make room for another one, and
\* removals race with results and progress.
SPECIFICATION Spec

CONSTANTS
    Handlers = { h1, h2 }
    MaxJobs = 3
    MaxReleases = 0
    MaxRequeues = 0
    HasConfig = FALSE
    OverlappingPolls = FALSE
    Operations = { "Destroy", "Reset", "Register", "Claim", "Result", "Progress" }

SYMMETRY HandlerSymmetry

PROPERTIES
    SettledJobKept
    DataDeletionSparesInstalls

\* The bound on job rows ends every behaviour.
CHECK_DEADLOCK FALSE
