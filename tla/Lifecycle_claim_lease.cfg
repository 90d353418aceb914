CONSTANTS
    Callers = {c1, c2}
    MaxConcurrent = 0
    LazyBoot = FALSE
    IdleTimeout = TRUE
    Faults = {}
    MaxStarts = 1
    MaxBooters = 0
SPECIFICATION Spec
PROPERTY NeverReclaimedUnderLease
