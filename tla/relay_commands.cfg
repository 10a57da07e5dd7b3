\* Any two commands, of any two types, with two things that go wrong.
SPECIFICATION FairSpec

CONSTANTS
    c1 = c1
    c2 = c2
    c3 = c3
    c4 = c4
    c5 = c5
    None = None
    Type <- EveryType
    MaxCommands = 2
    MaxRequeues = 1
    MaxFaults = 2

INVARIANTS
    Consistent

PROPERTIES
    NotRunTwice
    MutationsDoNotOverlap
    DeliveryKept
    CommandsAreAnswered
