CONSTANTS
    Callers = {c1, c2, c3}
    MaxConcurrent = 1
    LazyBoot = FALSE
    IdleTimeout = FALSE
    Faults = {"deps", "up", "health", "down"}
    MaxStarts = 2
    MaxBooters = 0
SPECIFICATION Spec
SYMMETRY CallerSymmetry
INVARIANTS
    LeasesBalance
    OneLeaderPerOp
    OutcomeIsReal
    RunningIsUp
PROPERTY
    ImplementsLease
