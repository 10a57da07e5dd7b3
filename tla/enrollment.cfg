\* Two connector stacks, three pairs (two replacements), one fault.
SPECIFICATION FairSpec

CONSTANTS
    Relays = { r1, r2 }
    None = None
    MaxPairs = 3
    MaxFaults = 1

INVARIANTS
    Consistent
    CodeBurnsOnce
    LetInWhileItsLinkIsCurrent

PROPERTIES
    NewLinkConnects

\* The bounds end every behaviour.
CHECK_DEADLOCK FALSE
