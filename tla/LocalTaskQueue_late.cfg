SPECIFICATION FairSpec
CONSTANTS
    w0 = w0
    w1 = w1
    Workers <- MCWorkers
    Sweeper = w0
    NJobs = 2
    MaxAttempts = 2
    MaxFaults = 2
INVARIANT
    RegisteredIsHeld
PROPERTIES
    ClosedIsFinal
    EventuallyClosed
    ImplementsExclusiveQueue
CHECK_DEADLOCK FALSE
