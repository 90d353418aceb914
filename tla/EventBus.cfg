CONSTANTS
    Clients = {c1}
    Subs = {1, 2}
    BufferSizes = {0, 1}
    Events <- TwoEvents
    Filters <- TwoFilters
    Stuck = {2}
    MaxPublish = 2
SPECIFICATION FairSpec
CHECK_DEADLOCK FALSE
INVARIANTS
    NoSendOnClosed
    NoLostSubscription
    CloseJoinsAll
PROPERTY
    EverythingEnds
