SPECIFICATION MCSpec
CONSTANTS
    Pids = {1, 2}
    MaxReuses = 1
    ImageRows = {1, 2}
    Zips <- Archives
    MaxAttempts = 3
    MaxCrashes = 1
    N = 2
    MaxSlot = 3
    Workers = 2
    MaxPort = 3
    Requests <- Asked
    Bakeds <- Listed
    Cvds = 3
    InstanceName <- CvdNames
    MaxLaunches = 2
    MaxWrites = 1
    MaxBackends = 2
    MaxLost = 1
    JS = 2
    Android = 0
 
 
 
 
PROPERTY EndedByItsOwner
CHECK_DEADLOCK FALSE
