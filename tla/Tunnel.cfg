CONSTANTS
    Calls = {c1, c2}
    Closers = {k1}
    Hosts = {h1}
    PortStart = 1
    PortEnd = 3
    Explicit = {2}
    Busy = {1}
    Directions = {"local"}
SPECIFICATION FairSpec
CHECK_DEADLOCK FALSE
INVARIANTS
    EveryProcessOwned
    ReservationsBalance
PROPERTY
    TunnelsEnd
