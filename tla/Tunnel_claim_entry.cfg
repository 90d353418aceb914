CONSTANTS
    Calls = {c1, c2}
    Closers = {k1}
    Hosts = {h1}
    PortStart = 1
    PortEnd = 2
    Explicit = {1}
    Busy = {}
    Directions = {"local"}
SPECIFICATION Spec
CHECK_DEADLOCK FALSE
INVARIANT EntryIsAllocated
