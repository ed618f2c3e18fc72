SPECIFICATION Spec
CONSTANTS
    Adapters = {"sqlite", "mysql", "redis", "cluster"}
    Hosts = {w1, w2}
    States <- MCTurnStates
    CommandsInOrder = TRUE
    ChunkSize = 2
    MaxTries = 3
    MaxReads = 1
    MaxEvents = 4
    MaxFaults = 2
INVARIANT ReadsSeeOneHead
CHECK_DEADLOCK FALSE
