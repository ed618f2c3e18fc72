SPECIFICATION Spec
CONSTANTS
    Adapters = {"redis"}
    Hosts = {w1, w2}
    States <- MCStates
    CommandsInOrder = FALSE
    ChunkSize = 2
    MaxTries = 3
    MaxReads = 1
    MaxEvents = 4
    MaxFaults = 2
PROPERTY ImplementsChain
CHECK_DEADLOCK FALSE
