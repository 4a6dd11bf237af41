SPECIFICATION FairSpec
CONSTANTS
    u1 = u1
    NChapters = 2
    Handlers = {1, 2}
    Users = {u1}
    MaxControls = 2
    MaxFaults = 2
INVARIANT
    EndsOnce
PROPERTIES
    ImplementsSerialChain
    BatchMovesOn
CHECK_DEADLOCK FALSE
