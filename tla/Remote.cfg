CONSTANTS
    Hosts = {h1, h2, h3}
    Calls = {1, 2, 3}
    Op <- Methods
    None = None
    Refused = {h3}
    Hung = {h1}
    Names = {n1, n2, n3}
    Sweeps = {a1}
    Detects = {d1, d2, d3}
    Last = 3
    Fallback = 2
    MaxChanges = 2
    NoCommand = NoCommand
    Starts = {1, 2}
    Ports = {1, 2}
    Settings <- BrokerSettings
SPECIFICATION MCSpec
CHECK_DEADLOCK FALSE
INVARIANTS
    RefsCountHolders
    MastersTracked
    ProbedIsReturned
    BrokersAreOwn
PROPERTY
    CallsReturn
