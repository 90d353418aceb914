CONSTANTS
    Callers = {c1, c2}
    MaxConcurrent = 1
    LazyBoot = TRUE
    IdleTimeout = TRUE
    Faults = {}
    MaxStarts = 1
    MaxBooters = 1
SPECIFICATION FairSpec
INVARIANT
    LazyRevivable
PROPERTIES
    CallsReturn
    IdleIsReclaimed
